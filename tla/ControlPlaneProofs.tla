------------------------- MODULE ControlPlaneProofs -------------------------
(***************************************************************************)
(* Proofs about ControlPlane, for every set of backends and handlers and   *)
(* every limit of failures, however many requests overlap.                 *)
(***************************************************************************)
EXTENDS FailureHistory, TLAPS

-----------------------------------------------------------------------------
(* Who removes a backend that is being polled, and its failures with it.   *)

RegistryTypeOK ==
    /\ backends \in [IPs -> {Absent} \cup BackendEntry]
    /\ failCounts \in [IPs -> 0 .. MaxConsecutiveFails - 1]
    /\ DOMAIN poll = IPs
    /\ \A ip \in IPs : poll[ip].at = "answered" => poll[ip].score \in PollScores
    /\ req \in [Handlers -> {NoRequest} \cup Request]

(***************************************************************************)
(* Each property needs the other's goroutine: failures are counted by the  *)
(* poll of a backend that stays registered while it is polled, and the     *)
(* pruner, the only other one to remove, takes UDP backends only.          *)
(***************************************************************************)
PollInv ==
    /\ RegistryTypeOK
    /\ PolledStaysRegistered
    /\ FailuresDieWithTheBackend

(* PollInv holds at the start: nobody is registered or polled. *)
LEMMA InitPollInv == Init => PollInv
  <1> SUFFICES ASSUME Init PROVE PollInv
    OBVIOUS
  <1>1. 0 \in 0 .. MaxConsecutiveFails - 1
    BY FailsAssumption
  <1>2. RegistryTypeOK
    BY <1>1 DEF Init, RegistryTypeOK, NotPolled
  <1>3. PolledStaysRegistered /\ FailuresDieWithTheBackend
    BY DEF Init, PolledStaysRegistered, FailuresDieWithTheBackend
  <1> QED
    BY <1>2, <1>3 DEF PollInv

(* PollInv is inductive. *)
LEMMA NextPollInv == PollInv /\ [Next]_vars => PollInv'
  <1> SUFFICES ASSUME PollInv, [Next]_vars PROVE PollInv'
    OBVIOUS
  <1> USE DEF PollInv, RegistryTypeOK, PolledStaysRegistered, FailuresDieWithTheBackend,
              RegisteredIn, registry
  <1>1. CASE UNCHANGED <<backends, failCounts, poll, req>>
    BY <1>1
  <1>2. ASSUME NEW h \in Handlers, NEW p \in Pools, NEW ip \in IPs, AgentRegisters(h, p, ip)
        PROVE  PollInv'
    BY <1>2 DEF AgentRegisters, Request
  <1>3. ASSUME NEW h \in Handlers, RefuseRequest(h) \/ AlreadyExists(h) PROVE PollInv'
    BY <1>3 DEF RefuseRequest, AlreadyExists
  <1>4. ASSUME NEW h \in Handlers, RegisterBackendEntry(h) PROVE PollInv'
    <2>1. req[h] \in Request
      BY <1>4 DEF RegisterBackendEntry
    <2>2. [pool |-> req[h].pool, load_score |-> InitialScore] \in BackendEntry
      BY <2>1 DEF Request, BackendEntry, Scores
    <2>3. backends[req[h].ip].pool = "none"
      BY <1>4 DEF RegisterBackendEntry, Registered, Absent
    <2>4. \A ip \in IPs : backends[ip].pool = "tcp" => backends'[ip] = backends[ip]
      BY <1>4, <2>1, <2>3 DEF RegisterBackendEntry, Request
    <2> QED
      BY <1>4, <2>2, <2>4 DEF RegisterBackendEntry
  <1>5. CASE PollAll
    BY <1>5 DEF PollAll, NotPolled
  <1>6. ASSUME NEW ip \in IPs, NEW score \in PollScores, AgentAnswers(ip, score) PROVE PollInv'
    BY <1>6 DEF AgentAnswers, NotPolled
  <1>7. ASSUME NEW ip \in IPs, PollFails(ip) PROVE PollInv'
    <2>1. failCounts[ip] + 1 \in 0 .. MaxConsecutiveFails - 1
      BY <1>7, FailsAssumption DEF PollFails, LastFailure
    <2>2. backends[ip].pool = "tcp"
      BY <1>7 DEF PollFails, NotPolled
    <2> QED
      BY <1>7, <2>1, <2>2 DEF PollFails, NotPolled
  <1>8. ASSUME NEW ip \in IPs, PollFailsTooOften(ip) PROVE PollInv'
    <2>1. 0 \in 0 .. MaxConsecutiveFails - 1
      BY FailsAssumption
    <2> QED
      BY <1>8, <2>1 DEF PollFailsTooOften, NotPolled
  <1>9. ASSUME NEW ip \in IPs, UpdateLoadScore(ip) PROVE PollInv'
    <2>1. backends[ip].pool = "tcp" /\ poll[ip].score \in PollScores
      BY <1>9 DEF UpdateLoadScore, NotPolled
    <2>2. backends[ip] \in BackendEntry
      BY <2>1 DEF Absent
    <2>3. Registered(ip)
      BY <2>1 DEF Registered, Absent
    <2>4. [backends[ip] EXCEPT !.load_score = poll[ip].score] \in BackendEntry
      BY <2>1, <2>2 DEF BackendEntry, Scores
    <2>5. [backends[ip] EXCEPT !.load_score = poll[ip].score].pool = "tcp"
      BY <2>1, <2>2 DEF BackendEntry
    <2>6. backends' = [backends EXCEPT ![ip] = [backends[ip] EXCEPT !.load_score = poll[ip].score]]
      BY <1>9, <2>3 DEF UpdateLoadScore
    <2> QED
      BY <1>9, <2>1, <2>3, <2>4, <2>5, <2>6 DEF UpdateLoadScore, NotPolled
  <1>10. ASSUME NEW ip \in IPs, RecordSuccess(ip) PROVE PollInv'
    <2>1. 0 \in 0 .. MaxConsecutiveFails - 1
      BY FailsAssumption
    <2> QED
      BY <1>10, <2>1 DEF RecordSuccess, NotPolled
  <1>11. ASSUME NEW stale \in SUBSET IPs, RemoveStaleUDPBackend(stale) PROVE PollInv'
    BY <1>11 DEF RemoveStaleUDPBackend
  <1>12. CASE Environment
    BY <1>1, <1>2, <1>12 DEF Environment, AgentStarts, AgentStops
  <1>13. ASSUME NEW t \in Goroutines, LoaderStep(t) PROVE PollInv'
    BY <1>1, <1>13 DEF LoaderStep
  <1>14. CASE Poller
    BY <1>5, <1>6, <1>7, <1>8, <1>9, <1>10, <1>14 DEF Poller, FetchEnds
  <1> QED
    BY <1>1, <1>3, <1>4, <1>11, <1>12, <1>13, <1>14 DEF Next, ServeRequest, Pruner, vars

(***************************************************************************)
(* A backend that is being polled stays a registered TCP backend until its *)
(* goroutine is done, whatever requests, prunings and hooks run meanwhile. *)
(***************************************************************************)
THEOREM PolledBackendsStayRegistered == Spec => []PolledStaysRegistered
  <1>1. PollInv => PolledStaysRegistered
    BY DEF PollInv
  <1> QED
    BY InitPollInv, NextPollInv, <1>1, PTL DEF Spec

(***************************************************************************)
(* The failures counted against an IP are those of the TCP backend that is *)
(* registered there, never of one that was removed.                        *)
(***************************************************************************)
THEOREM FailuresDieWithBackends == Spec => []FailuresDieWithTheBackend
  <1>1. PollInv => FailuresDieWithTheBackend
    BY DEF PollInv
  <1> QED
    BY InitPollInv, NextPollInv, <1>1, PTL DEF Spec

-----------------------------------------------------------------------------
(* The count is that of the failed polls in a row (HistorySpec).           *)

(***************************************************************************)
(* Between the answer of an agent and the recordSuccess of its poll the    *)
(* count still holds the failures before the answer; nothing else reads it *)
(* meanwhile, as the backend has one poll at a time.                       *)
(***************************************************************************)
Counted(ip) ==
    failedInARow[ip] =
        IF ~Registered(ip) \/ poll[ip].at \in {"answered", "hook"} THEN 0 ELSE failCounts[ip]

HistoryInv == PollInv /\ \A ip \in IPs : Counted(ip)

RemovedOnlyThen(ip) ==
    RegisteredIn("tcp", ip) =>
        (~Registered(ip)' <=>
            FetchFailed(ip) /\ failedInARow[ip] + 1 = MaxConsecutiveFails)

(* At the start nobody is registered, so there is nothing to count. *)
LEMMA InitHistoryInv == HistoryInit => HistoryInv
  BY InitPollInv DEF HistoryInit, HistoryInv, Init, Counted, Registered

\* Nothing that matters to the count happens to the backend at ip
Untouched(ip) ==
    /\ backends'[ip].pool = backends[ip].pool
    /\ Registered(ip)' <=> Registered(ip)
    /\ failCounts'[ip] = failCounts[ip]
    /\ poll'[ip] = poll[ip]

\* It registers, it is a UDP backend that is pruned, or its poll goes on
Registers(ip) ==
    ~Registered(ip) /\ failCounts'[ip] = failCounts[ip] /\ poll'[ip] = poll[ip]
Pruned(ip) == ~RegisteredIn("tcp", ip) /\ ~Registered(ip)'
PollGoesOn(ip) ==
    \/ PollAll
    \/ \E score \in PollScores : AgentAnswers(ip, score)
    \/ PollFails(ip)
    \/ PollFailsTooOften(ip)
    \/ UpdateLoadScore(ip) /\ Registered(ip) /\ Registered(ip)'
    \/ RecordSuccess(ip)

(***************************************************************************)
(* All that a step can do to the backend at ip, as its history sees it.    *)
(***************************************************************************)
LEMMA BackendSteps ==
    ASSUME PollInv, [Next]_vars, NEW ip \in IPs
    PROVE  Untouched(ip) \/ Registers(ip) \/ Pruned(ip) \/ PollGoesOn(ip)
  <1> DEFINE Goal == Untouched(ip) \/ Registers(ip) \/ Pruned(ip) \/ PollGoesOn(ip)
  <1>1. CASE UNCHANGED <<backends, failCounts, poll>>
    BY <1>1 DEF Untouched, Registered
  <1>2. ASSUME NEW h \in Handlers, RegisterBackendEntry(h) PROVE Goal
    BY <1>2 DEF RegisterBackendEntry, Untouched, Registers, Registered, PollInv, RegistryTypeOK
  <1>3. CASE PollAll
    BY <1>3 DEF PollGoesOn
  <1>4. ASSUME NEW i \in IPs, FetchEnds(i) PROVE Goal
    <2>1. CASE i = ip
      BY <1>4, <2>1 DEF FetchEnds, PollGoesOn
    <2>2. CASE i # ip
      BY <1>4, <2>2 DEF FetchEnds, AgentAnswers, PollFails, PollFailsTooOften, Untouched,
                        Registered, registry, PollInv, RegistryTypeOK
    <2> QED
      BY <2>1, <2>2
  <1>5. ASSUME NEW i \in IPs, UpdateLoadScore(i) PROVE Goal
    <2>1. CASE i = ip
      <3>1. backends[ip].pool = "tcp" /\ backends[ip] \in BackendEntry /\ Registered(ip)
        BY <1>5, <2>1 DEF UpdateLoadScore, NotPolled, PollInv, RegistryTypeOK,
                          PolledStaysRegistered, RegisteredIn, Registered, Absent
      <3>2. [backends[ip] EXCEPT !.load_score = poll[ip].score].pool = "tcp"
        BY <3>1 DEF BackendEntry
      <3>3. backends'[ip].pool = "tcp"
        BY <1>5, <2>1, <3>1, <3>2 DEF UpdateLoadScore, PollInv, RegistryTypeOK
      <3>4. Registered(ip)'
        BY <3>3 DEF Registered, Absent
      <3> QED
        BY <1>5, <2>1, <3>1, <3>4 DEF PollGoesOn
    <2>2. CASE i # ip
      BY <1>5, <2>2 DEF UpdateLoadScore, Untouched, Registered, PollInv, RegistryTypeOK
    <2> QED
      BY <2>1, <2>2
  <1>6. ASSUME NEW i \in IPs, RecordSuccess(i) PROVE Goal
    <2>1. CASE i = ip
      BY <1>6, <2>1 DEF PollGoesOn
    <2>2. CASE i # ip
      BY <1>6, <2>2 DEF RecordSuccess, Untouched, Registered, PollInv, RegistryTypeOK
    <2> QED
      BY <2>1, <2>2
  <1>7. ASSUME NEW stale \in SUBSET IPs, RemoveStaleUDPBackend(stale) PROVE Goal
    <2>1. CASE ip \in stale
      BY <1>7, <2>1 DEF RemoveStaleUDPBackend, RegisteredIn, Registered, Pruned, Absent
    <2>2. CASE ip \notin stale
      BY <1>7, <2>2 DEF RemoveStaleUDPBackend, Untouched, Registered
    <2> QED
      BY <2>1, <2>2
  <1>8. CASE Environment
    BY <1>1, <1>8 DEF Environment, AgentStarts, AgentStops, AgentRegisters, registry
  <1>9. ASSUME NEW h \in Handlers, ServeRequest(h) PROVE Goal
    BY <1>1, <1>2, <1>9 DEF ServeRequest, RefuseRequest, AlreadyExists, registry
  <1>10. ASSUME NEW t \in Goroutines, LoaderStep(t) PROVE Goal
    BY <1>1, <1>10 DEF LoaderStep, registry
  <1> QED
    BY <1>1, <1>3, <1>4, <1>5, <1>6, <1>7, <1>8, <1>9, <1>10 DEF Next, Poller, Pruner, vars

(* No registered backend is in the middle of a poll but a polled one. *)
LEMMA OnlyRegisteredArePolled ==
    ASSUME PollInv, NEW ip \in IPs, ~RegisteredIn("tcp", ip)
    PROVE  poll[ip] = NotPolled /\ failCounts[ip] = 0
  <1>1. poll[ip] = NotPolled
    BY DEF PollInv, PolledStaysRegistered
  <1>2. failCounts[ip] \in 0 .. MaxConsecutiveFails - 1 /\ ~(failCounts[ip] > 0)
    BY DEF PollInv, RegistryTypeOK, FailuresDieWithTheBackend
  <1> QED
    BY <1>1, <1>2, FailsAssumption

(***************************************************************************)
(* A step keeps the count that of the failed polls in a row, and removes a *)
(* TCP backend at the last failure only.                                   *)
(***************************************************************************)
LEMMA NextHistoryInv ==
    ASSUME HistoryInv, Next, Observe, NEW ip \in IPs
    PROVE  Counted(ip)' /\ RemovedOnlyThen(ip)
  <1>1. PollInv /\ PollInv' /\ Counted(ip)
    BY NextPollInv DEF HistoryInv
  <1>2. /\ failCounts[ip] \in 0 .. MaxConsecutiveFails - 1
        /\ MaxConsecutiveFails \in Nat \ {0}
        /\ DOMAIN poll = IPs /\ DOMAIN failCounts = IPs /\ DOMAIN backends = IPs
    BY <1>1, FailsAssumption DEF PollInv, RegistryTypeOK
  <1>3. failedInARow'[ip] = IF ~Registered(ip)' \/ FetchAnswered(ip) THEN 0
                            ELSE IF FetchFailed(ip) THEN failedInARow[ip] + 1
                            ELSE failedInARow[ip]
    BY DEF Observe
  <1>4. RegisteredIn("tcp", ip) => Registered(ip)
    BY DEF RegisteredIn, Registered, Absent
  <1>5. CASE Untouched(ip)
    <2>1. ~FetchAnswered(ip) /\ ~FetchFailed(ip)
      BY <1>5 DEF Untouched, FetchAnswered, FetchFailed, NotPolled
    <2> QED
      BY <1>1, <1>3, <1>4, <1>5, <2>1 DEF Untouched, Counted, RemovedOnlyThen
  <1>6. CASE Registers(ip)
    <2>1. poll[ip] = NotPolled /\ failCounts[ip] = 0 /\ ~RegisteredIn("tcp", ip)
      BY <1>1, <1>4, <1>6, OnlyRegisteredArePolled DEF Registers
    <2> QED
      BY <1>1, <1>3, <1>6, <2>1
      DEF Registers, Counted, RemovedOnlyThen, NotPolled, FetchAnswered, FetchFailed
  <1>7. CASE Pruned(ip)
    BY <1>3, <1>7 DEF Pruned, Counted, RemovedOnlyThen
  <1>8. CASE PollAll
    <2>1. poll[ip] = NotPolled /\ poll'[ip].at \in {"fetch", "idle"}
      BY <1>8 DEF PollAll, NotPolled
    <2>2. failCounts'[ip] = failCounts[ip] /\ (Registered(ip)' <=> Registered(ip))
      BY <1>8 DEF PollAll, registry, Registered
    <2>3. ~FetchAnswered(ip) /\ ~FetchFailed(ip)
      BY <2>1 DEF FetchAnswered, FetchFailed, NotPolled
    <2> QED
      BY <1>1, <1>3, <1>4, <2>1, <2>2, <2>3 DEF Counted, RemovedOnlyThen, NotPolled
  <1>9. ASSUME NEW score \in PollScores, AgentAnswers(ip, score)
        PROVE  Counted(ip)' /\ RemovedOnlyThen(ip)
    <2>1. FetchAnswered(ip) /\ ~FetchFailed(ip) /\ poll'[ip].at = "answered"
      BY <1>2, <1>9 DEF AgentAnswers, FetchAnswered, FetchFailed, NotPolled
    <2>2. Registered(ip)' <=> Registered(ip)
      BY <1>9 DEF AgentAnswers, registry, Registered
    <2> QED
      BY <1>3, <1>4, <2>1, <2>2 DEF Counted, RemovedOnlyThen
  <1>10. ASSUME PollFails(ip) \/ PollFailsTooOften(ip)
         PROVE  /\ FetchFailed(ip) /\ ~FetchAnswered(ip)
                /\ Registered(ip) /\ failedInARow[ip] = failCounts[ip]
    <2>1. FetchFailed(ip) /\ ~FetchAnswered(ip) /\ poll[ip].at = "fetch"
      BY <1>2, <1>10 DEF PollFails, PollFailsTooOften, FetchFailed, FetchAnswered, NotPolled
    <2>2. Registered(ip)
      BY <1>1, <1>4, <2>1, OnlyRegisteredArePolled DEF NotPolled
    <2> QED
      BY <1>1, <2>1, <2>2 DEF Counted
  <1>11. CASE PollFails(ip)
    <2>1. /\ failCounts'[ip] = failCounts[ip] + 1 /\ poll'[ip].at = "idle"
          /\ Registered(ip)' <=> Registered(ip)
          /\ failCounts[ip] + 1 < MaxConsecutiveFails
      BY <1>2, <1>11 DEF PollFails, LastFailure, NotPolled, Registered
    <2> QED
      BY <1>2, <1>3, <1>10, <1>11, <2>1 DEF Counted, RemovedOnlyThen
  <1>12. CASE PollFailsTooOften(ip)
    <2>1. ~Registered(ip)' /\ failCounts[ip] + 1 >= MaxConsecutiveFails
      BY <1>2, <1>12 DEF PollFailsTooOften, LastFailure, Registered
    <2>2. failCounts[ip] + 1 = MaxConsecutiveFails
      BY <1>2, <2>1
    <2> QED
      BY <1>3, <1>10, <1>12, <2>1, <2>2 DEF Counted, RemovedOnlyThen
  <1>13. CASE UpdateLoadScore(ip) /\ Registered(ip) /\ Registered(ip)'
    <2>1. poll[ip].at = "answered" /\ poll'[ip].at = "hook"
      BY <1>2, <1>13 DEF UpdateLoadScore
    <2>2. ~FetchAnswered(ip) /\ ~FetchFailed(ip)
      BY <2>1 DEF FetchAnswered, FetchFailed
    <2> QED
      BY <1>1, <1>3, <1>13, <2>1, <2>2 DEF Counted, RemovedOnlyThen
  <1>14. CASE RecordSuccess(ip)
    <2>1. /\ poll[ip].at = "hook" /\ poll'[ip].at = "idle" /\ failCounts'[ip] = 0
          /\ Registered(ip)' <=> Registered(ip)
      BY <1>2, <1>14 DEF RecordSuccess, NotPolled, Registered
    <2>2. ~FetchAnswered(ip) /\ ~FetchFailed(ip)
      BY <2>1 DEF FetchAnswered, FetchFailed
    <2> QED
      BY <1>1, <1>3, <1>4, <2>1, <2>2 DEF Counted, RemovedOnlyThen
  <1>15. CASE PollGoesOn(ip)
    BY <1>8, <1>9, <1>11, <1>12, <1>13, <1>14, <1>15 DEF PollGoesOn
  <1> QED
    BY <1>1, <1>5, <1>6, <1>7, <1>15, BackendSteps

(***************************************************************************)
(* However many requests, hooks and prunings interleave with its polls, a  *)
(* TCP backend is removed by its MaxConsecutiveFails-th failed poll in a   *)
(* row, counted from its registration or its last answer: never sooner,    *)
(* never later, and by nothing else.                                       *)
(***************************************************************************)
THEOREM RemovedByTheLastFailureOnly == HistorySpec => RemovedByTheLastFailure
  <1>1. HistoryInv /\ [HistoryNext]_historyvars => HistoryInv'
    <2> SUFFICES ASSUME HistoryInv, [HistoryNext]_historyvars PROVE HistoryInv'
      OBVIOUS
    <2>1. CASE HistoryNext
      BY <2>1, NextPollInv, NextHistoryInv DEF HistoryNext, HistoryInv
    <2>2. CASE UNCHANGED historyvars
      <3>1. PollInv'
        BY <2>2, NextPollInv DEF HistoryInv, historyvars
      <3>2. \A ip \in IPs : Counted(ip)'
        BY <2>2 DEF HistoryInv, historyvars, vars, Counted, Registered
      <3> QED
        BY <3>1, <3>2 DEF HistoryInv
    <2> QED
      BY <2>1, <2>2
  <1>2. HistoryInv /\ [HistoryNext]_historyvars =>
            [\A ip \in IPs : RegisteredIn("tcp", ip) =>
                (~Registered(ip)' <=>
                    FetchFailed(ip) /\ failedInARow[ip] + 1 = MaxConsecutiveFails)]_historyvars
    BY NextHistoryInv DEF HistoryNext, RemovedOnlyThen
  <1> QED
    BY InitHistoryInv, <1>1, <1>2, PTL DEF HistorySpec, RemovedByTheLastFailure

-----------------------------------------------------------------------------
(* The hooks are callers of the loader, and everything is of its type.     *)

P == INSTANCE LoaderProofs WITH Threads <- Goroutines

(* P's loader is L's, with the proofs about its types. *)
LEMMA SameTypedLoader ==
    /\ L!Init <=> P!Init
    /\ L!TypeOK <=> P!TypeOK
    /\ L!TypeOK' <=> P!TypeOK'
    /\ L!Next <=> P!Next
  <1> USE DEF L!Idle, P!Idle, L!pools, P!pools, L!Slots, P!Slots, L!NoSlot, P!NoSlot,
              L!ZeroEntry, P!ZeroEntry
  <1>1. L!Init <=> P!Init
    BY DEF L!Init, P!Init
  <1>2. (L!TypeOK <=> P!TypeOK) /\ (L!TypeOK' <=> P!TypeOK')
    BY DEF L!TypeOK, P!TypeOK, L!Entry, P!Entry, L!SetCall, P!SetCall, L!SetUpdate, P!SetUpdate,
           L!SetCounted, P!SetCounted, L!ScoreCall, P!ScoreCall, L!ScoreRead, P!ScoreRead,
           L!ScoreWrite, P!ScoreWrite
  <1>3. \A t \in Goroutines : L!SetBackendStep(t) <=> P!SetBackendStep(t)
    BY DEF L!SetBackendStep, P!SetBackendStep, L!SetLookupCount, P!SetLookupCount,
           L!SetPoolFull, P!SetPoolFull, L!SetUpdateEntry, P!SetUpdateEntry,
           L!SetUpdateCount, P!SetUpdateCount, L!SetRecordSlot, P!SetRecordSlot
  <1>4. \A t \in Goroutines : L!ScoreStep(t) <=> P!ScoreStep(t)
    BY DEF L!ScoreStep, P!ScoreStep, L!ScoreNoSlot, P!ScoreNoSlot, L!ScoreFindSlot,
           P!ScoreFindSlot, L!ScoreLookupEntry, P!ScoreLookupEntry, L!ScoreUpdateEntry,
           P!ScoreUpdateEntry
  <1>5. \A t \in Goroutines : L!Call(t) <=> P!Call(t)
    BY DEF L!Call, P!Call, L!SetBackend, P!SetBackend, L!UpdateBackendLoadScore,
           P!UpdateBackendLoadScore
  <1>6. L!Next <=> P!Next
    BY <1>3, <1>4, <1>5 DEF L!Next, P!Next, L!Step, P!Step
  <1> QED
    BY <1>1, <1>2, <1>6

(***************************************************************************)
(* However many requests overlap, all a step of the control plane does to  *)
(* the pools is a call of the loader, or a step of one: the hooks pass     *)
(* pools, addresses and scores the loader is made for.                     *)
(***************************************************************************)
LEMMA HooksCallLoader == PollInv /\ [Next]_vars => [L!Next]_loader
  <1> SUFFICES ASSUME PollInv, [Next]_vars PROVE [L!Next]_loader
    OBVIOUS
  <1>1. CASE UNCHANGED loader
    BY <1>1
  <1>2. ASSUME NEW h \in Handlers, RegisterBackendEntry(h) PROVE [L!Next]_loader
    <2>1. req[h].pool \in Pools /\ req[h].ip \in IPs /\ InitialScore \in Scores
      BY <1>2 DEF RegisterBackendEntry, PollInv, RegistryTypeOK, Request, Scores
    <2>2. h \in Goroutines /\ L!Call(h)
      BY <1>2, <2>1 DEF RegisterBackendEntry, L!Call, Goroutines
    <2> QED
      BY <2>2 DEF L!Next
  <1>3. ASSUME NEW ip \in IPs, UpdateLoadScore(ip) PROVE [L!Next]_loader
    <2>1. RegisteredIn("tcp", ip) /\ poll[ip].score \in Scores
      BY <1>3 DEF UpdateLoadScore, PollInv, RegistryTypeOK, PolledStaysRegistered, NotPolled,
                  Scores
    <2>2. backends[ip].pool \in Pools /\ Registered(ip)
      BY <2>1 DEF RegisteredIn, Registered, Absent, Pools
    <2>3. ip \in Goroutines /\ L!Call(ip)
      BY <1>3, <2>1, <2>2 DEF UpdateLoadScore, L!Call, Goroutines
    <2> QED
      BY <2>3 DEF L!Next
  <1>4. ASSUME NEW t \in Goroutines, LoaderStep(t) PROVE [L!Next]_loader
    BY <1>4 DEF LoaderStep, L!Next
  <1>5. CASE Environment
    BY <1>1, <1>5 DEF Environment, AgentStarts, AgentStops, AgentRegisters
  <1>6. ASSUME NEW h \in Handlers, ServeRequest(h) PROVE [L!Next]_loader
    BY <1>1, <1>2, <1>6 DEF ServeRequest, RefuseRequest, AlreadyExists
  <1>7. CASE Poller
    BY <1>1, <1>3, <1>7 DEF Poller, PollAll, FetchEnds, AgentAnswers, PollFails,
                            PollFailsTooOften, RecordSuccess
  <1>8. CASE Pruner
    BY <1>1, <1>8 DEF Pruner, RemoveStaleUDPBackend
  <1>9. CASE UNCHANGED vars
    BY <1>1, <1>9 DEF vars, loader
  <1> QED
    BY <1>4, <1>5, <1>6, <1>7, <1>8, <1>9 DEF Next

\* What RegistryTypeOK leaves open
RestTypeOK ==
    /\ poll \in [IPs -> {NotPolled} \cup [at : {"fetch", "hook"}]
                             \cup [at : {"answered"}, score : PollScores]]
    /\ up \in [IPs -> BOOLEAN]

(* What polls and agents are is kept by every step. *)
LEMMA NextRestTypeOK == RestTypeOK /\ [Next]_vars => RestTypeOK'
  <1> SUFFICES ASSUME RestTypeOK, [Next]_vars PROVE RestTypeOK'
    OBVIOUS
  <1> USE DEF RestTypeOK
  <1>1. CASE UNCHANGED <<poll, up>>
    BY <1>1
  <1>2. CASE Environment
    BY <1>1, <1>2 DEF Environment, AgentStarts, AgentStops, AgentRegisters
  <1>3. ASSUME NEW h \in Handlers, ServeRequest(h) PROVE RestTypeOK'
    BY <1>1, <1>3 DEF ServeRequest, RefuseRequest, AlreadyExists, RegisterBackendEntry
  <1>4. CASE PollAll
    BY <1>4 DEF PollAll
  <1>5. ASSUME NEW ip \in IPs, NEW score \in PollScores, AgentAnswers(ip, score)
        PROVE  RestTypeOK'
    BY <1>5 DEF AgentAnswers
  <1>6. ASSUME NEW ip \in IPs, PollFails(ip) \/ PollFailsTooOften(ip) PROVE RestTypeOK'
    BY <1>6 DEF PollFails, PollFailsTooOften
  <1>7. ASSUME NEW ip \in IPs, UpdateLoadScore(ip) PROVE RestTypeOK'
    <2>1. up' = up /\ (poll' = [poll EXCEPT ![ip] = [at |-> "hook"]]
                       \/ poll' = [poll EXCEPT ![ip] = NotPolled])
      BY <1>7 DEF UpdateLoadScore
    <2> QED
      BY <2>1
  <1>8. ASSUME NEW ip \in IPs, RecordSuccess(ip) PROVE RestTypeOK'
    BY <1>8 DEF RecordSuccess
  <1>9. CASE Poller
    BY <1>4, <1>5, <1>6, <1>7, <1>8, <1>9 DEF Poller, FetchEnds
  <1>10. CASE Pruner
    BY <1>1, <1>10 DEF Pruner, RemoveStaleUDPBackend
  <1>11. ASSUME NEW t \in Goroutines, LoaderStep(t) PROVE RestTypeOK'
    BY <1>1, <1>11 DEF LoaderStep
  <1> QED
    BY <1>1, <1>2, <1>3, <1>9, <1>10, <1>11 DEF Next, vars

(***************************************************************************)
(* Registry, poller, requests and the loader's state keep their types, the *)
(* failures of a backend stay below the limit, and no count passes the     *)
(* size of its pool.                                                       *)
(***************************************************************************)
THEOREM TypeCorrect == Spec => []TypeOK
  <1> DEFINE TypeInv == PollInv /\ RestTypeOK /\ L!TypeOK
  <1>1. Init => TypeInv
    <2>1. Init => RestTypeOK
      BY DEF Init, RestTypeOK
    <2>2. L!Init => L!TypeOK
      BY CapacityAssumption, NoneAssumption, P!InitTypeOK, SameTypedLoader
    <2> QED
      BY InitPollInv, <2>1, <2>2 DEF Init
  <1>2. TypeInv /\ [Next]_vars => TypeInv'
    <2>1. L!TypeOK /\ [L!Next]_loader => L!TypeOK'
      BY CapacityAssumption, NoneAssumption, P!NextTypeOK, SameTypedLoader DEF loader, P!vars
    <2> QED
      BY NextPollInv, NextRestTypeOK, HooksCallLoader, <2>1
  <1>3. TypeInv => TypeOK
    BY DEF PollInv, RegistryTypeOK, RestTypeOK, TypeOK
  <1> QED
    BY <1>1, <1>2, <1>3, PTL DEF Spec

(***************************************************************************)
(* However many requests overlap, xdp_forward finds a backend in every     *)
(* slot it may pick from the pools the hooks fill (main.go:69-99): a       *)
(* behaviour of the control plane is one of the loader.                    *)
(***************************************************************************)
THEOREM PickedSlotsHoldBackends == Spec => []P!ActiveSlotsPopulated
  <1>1. PollInv /\ [Next]_vars => [P!Next]_(P!vars)
    BY HooksCallLoader, SameTypedLoader DEF loader, P!vars
  <1>2. Init => P!Init
    BY SameTypedLoader DEF Init
  <1>3. Spec => P!Spec
    BY InitPollInv, NextPollInv, <1>1, <1>2, PTL DEF Spec, P!Spec
  <1>4. P!Spec => []P!ActiveSlotsPopulated
    BY P!ActiveSlotsArePopulated, CapacityAssumption, NoneAssumption
  <1> QED
    BY <1>3, <1>4
=============================================================================
