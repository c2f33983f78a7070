---------------------------- MODULE ControlPlane ----------------------------
(***************************************************************************)
(* The control plane: the registry of backends, the HTTP and UDP listeners *)
(* that fill it, the health poller and the heartbeat pruner that empty it, *)
(* and the hooks through which main.go has the loader copy it into the BPF *)
(* pools.                                                                  *)
(*                                                                         *)
(* A critical section (Registry.mu, Poller.failsMu) is one action.  Hooks  *)
(* run after the registry lock is released, so the loader calls they make  *)
(* interleave with everything else, one system call at a time (module      *)
(* Loader).  The goroutines are the handlers, one per request being        *)
(* served, and at most one poll per backend, named by the backend's IP.    *)
(*                                                                         *)
(* Time is abstracted: a ticker may fire at any moment, a poll may fail at *)
(* any moment, and the pruner may find any UDP backend stale.  Port and    *)
(* MAC go with the IP.                                                     *)
(***************************************************************************)
EXTENDS Integers

CONSTANTS
    IPs,                    \* IPv4 addresses of backends
    Handlers,               \* goroutines that serve registration requests
    None,                   \* no IP: what a zeroed pool entry holds
    Capacity,               \* max_entries of a BPF pool
    PollScores,             \* results of computeLoadScore
    MaxConsecutiveFails     \* failed polls after which a backend is removed

ASSUME CapacityAssumption == Capacity \in Nat \ {0}
ASSUME NoneAssumption == None \notin IPs
ASSUME FailsAssumption == MaxConsecutiveFails \in Nat \ {0}
ASSUME HandlersAssumption == Handlers \cap IPs = {}

VARIABLES
    backends,       \* Registry.backends: entry of each registered IP
    failCounts,     \* Poller.failCounts, 0 where the map has no key
    poll,           \* poll[ip]: how far the goroutine polling ip is
    req,            \* req[h]: the request handler h is about to register
    up,             \* up[ip]: the agent at ip is running (environment)
    poolMap, poolMeta, slotMap, op      \* the loader's

Pools == {"tcp", "udp"}
InitialScore == 1

Scores == PollScores \cup {InitialScore}
Goroutines == Handlers \cup IPs

L == INSTANCE Loader WITH Threads <- Goroutines

registry == <<backends, failCounts>>
loader == <<poolMap, poolMeta, slotMap, op>>
vars == <<backends, failCounts, poll, req, up, poolMap, poolMeta, slotMap, op>>

Absent == [pool |-> "none"]
BackendEntry == [pool : Pools, load_score : Scores]
NoRequest == [pool |-> "none"]
Request == [pool : Pools, ip : IPs]
NotPolled == [at |-> "idle"]

Registered(ip) == backends[ip] # Absent
RegisteredIn(p, ip) == backends[ip].pool = p

TypeOK ==
    /\ backends \in [IPs -> {Absent} \cup BackendEntry]
    /\ failCounts \in [IPs -> 0 .. MaxConsecutiveFails - 1]
    /\ poll \in [IPs -> {NotPolled} \cup [at : {"fetch", "hook"}]
                             \cup [at : {"answered"}, score : PollScores]]
    /\ req \in [Handlers -> {NoRequest} \cup Request]
    /\ up \in [IPs -> BOOLEAN]
    /\ L!TypeOK

Init ==
    /\ backends = [ip \in IPs |-> Absent]
    /\ failCounts = [ip \in IPs |-> 0]
    /\ poll = [ip \in IPs |-> NotPolled]
    /\ req = [h \in Handlers |-> NoRequest]
    /\ up = [ip \in IPs |-> FALSE]
    /\ L!Init

-----------------------------------------------------------------------------
(* Agents: they start, register with one of the listeners, and stop.       *)

AgentStarts(ip) ==
    /\ ~up[ip]
    /\ up' = [up EXCEPT ![ip] = TRUE]
    /\ UNCHANGED <<registry, poll, req, loader>>

AgentStops(ip) ==
    /\ up[ip]
    /\ up' = [up EXCEPT ![ip] = FALSE]
    /\ UNCHANGED <<registry, poll, req, loader>>

\* POST /register, or a REGISTER packet; net/http and the UDP listener
\* serve each one in a goroutine of its own
AgentRegisters(h, p, ip) ==
    /\ up[ip]
    /\ req[h] = NoRequest
    /\ op[h] = L!Idle
    /\ req' = [req EXCEPT ![h] = [pool |-> p, ip |-> ip]]
    /\ UNCHANGED <<registry, poll, up, loader>>

-----------------------------------------------------------------------------
(* Listeners and Registry.RegisterBackendEntry.                            *)

\* getMACFromARP finds no MAC address: the handler gives up
RefuseRequest(h) ==
    /\ req[h] # NoRequest
    /\ req' = [req EXCEPT ![h] = NoRequest]
    /\ UNCHANGED <<registry, poll, up, loader>>

\* Mutant of AlreadyExists: the entry is updated in place, without a hook
UpdateExisting(h) ==
    /\ req[h] # NoRequest
    /\ Registered(req[h].ip)
    /\ backends' = [backends EXCEPT ![req[h].ip].pool = req[h].pool]
    /\ req' = [req EXCEPT ![h] = NoRequest]
    /\ UNCHANGED <<failCounts, poll, up, loader>>

AlreadyExists(h) ==
    /\ req[h] # NoRequest
    /\ Registered(req[h].ip)
    /\ req' = [req EXCEPT ![h] = NoRequest]
    /\ UNCHANGED <<registry, poll, up, loader>>

\* The entry is inserted under the lock; the OnRegister hook calls SetBackend after it
RegisterBackendEntry(h) ==
    /\ req[h] # NoRequest
    /\ ~Registered(req[h].ip)
    /\ backends' = [backends EXCEPT ![req[h].ip] =
                       [pool |-> req[h].pool, load_score |-> InitialScore]]
    /\ L!SetBackend(h, req[h].pool, req[h].ip, InitialScore)
    /\ req' = [req EXCEPT ![h] = NoRequest]
    /\ UNCHANGED <<failCounts, poll, up>>

-----------------------------------------------------------------------------
(* The health poller.                                                      *)

\* pollAll: wg.Wait lets a round start only when every poll of the last one is over
PollAll ==
    /\ \A ip \in IPs : poll[ip] = NotPolled
    /\ \E ip \in IPs : RegisteredIn("tcp", ip)
    /\ poll' = [ip \in IPs |-> IF RegisteredIn("tcp", ip) THEN [at |-> "fetch"] ELSE NotPolled]
    /\ UNCHANGED <<registry, req, up, loader>>

\* fetchMetrics gets an answer, which the goroutine has yet to process
AgentAnswers(ip, score) ==
    /\ poll[ip].at = "fetch"
    /\ up[ip]
    /\ poll' = [poll EXCEPT ![ip] = [at |-> "answered", score |-> score]]
    /\ UNCHANGED <<registry, req, up, loader>>

\* Mutants of LastFailure: one failure more is tolerated, or one less
LastFailureOneLate(ip) == failCounts[ip] + 1 > MaxConsecutiveFails
LastFailureOneEarly(ip) == failCounts[ip] + 2 >= MaxConsecutiveFails

\* count >= MaxConsecutiveFails, with the failure at hand counted
LastFailure(ip) == failCounts[ip] + 1 >= MaxConsecutiveFails

\* recordFailure
PollFails(ip) ==
    /\ poll[ip].at = "fetch"
    /\ ~LastFailure(ip)
    /\ failCounts' = [failCounts EXCEPT ![ip] = @ + 1]
    /\ poll' = [poll EXCEPT ![ip] = NotPolled]
    /\ UNCHANGED <<backends, req, up, loader>>

\* Mutant of PollFailsTooOften: the count of the removed backend is kept
RemoveKeepingCount(ip) ==
    /\ poll[ip].at = "fetch"
    /\ LastFailure(ip)
    /\ backends' = [backends EXCEPT ![ip] = Absent]
    /\ poll' = [poll EXCEPT ![ip] = NotPolled]
    /\ UNCHANGED <<failCounts, req, up, loader>>

\* Mutant of PollFailsTooOften: the backend is not removed from the registry
ForgetToRemove(ip) ==
    /\ poll[ip].at = "fetch"
    /\ LastFailure(ip)
    /\ failCounts' = [failCounts EXCEPT ![ip] = 0]
    /\ poll' = [poll EXCEPT ![ip] = NotPolled]
    /\ UNCHANGED <<backends, req, up, loader>>

PollFailsTooOften(ip) ==
    /\ poll[ip].at = "fetch"
    /\ LastFailure(ip)
    /\ backends' = [backends EXCEPT ![ip] = Absent]
    /\ failCounts' = [failCounts EXCEPT ![ip] = 0]
    /\ poll' = [poll EXCEPT ![ip] = NotPolled]
    /\ UNCHANGED <<req, up, loader>>

\* Mutant of UpdateLoadScore: the hook fires only if the score differs from the last
UpdateChangedLoadScore(ip) ==
    /\ poll[ip].at = "answered"
    /\ backends' = [backends EXCEPT ![ip].load_score = poll[ip].score]
    /\ IF backends[ip].load_score # poll[ip].score
       THEN L!UpdateBackendLoadScore(ip, backends[ip].pool, ip, poll[ip].score)
       ELSE UNCHANGED loader
    /\ poll' = [poll EXCEPT ![ip] = [at |-> "hook"]]
    /\ UNCHANGED <<failCounts, req, up>>

\* Mutant of UpdateLoadScore: its hook writes the whole entry anew
UpdateBySetBackend(ip) ==
    /\ poll[ip].at = "answered"
    /\ backends' = [backends EXCEPT ![ip].load_score = poll[ip].score]
    /\ L!SetBackend(ip, backends[ip].pool, ip, poll[ip].score)
    /\ poll' = [poll EXCEPT ![ip] = [at |-> "hook"]]
    /\ UNCHANGED <<failCounts, req, up>>

\* UpdateLoadScore under the registry lock; its hook then calls the loader
UpdateLoadScore(ip) ==
    /\ poll[ip].at = "answered"
    /\ IF Registered(ip)
       THEN /\ backends' = [backends EXCEPT ![ip].load_score = poll[ip].score]
            /\ L!UpdateBackendLoadScore(ip, backends[ip].pool, ip, poll[ip].score)
            /\ poll' = [poll EXCEPT ![ip] = [at |-> "hook"]]
       ELSE /\ poll' = [poll EXCEPT ![ip] = NotPolled]
            /\ UNCHANGED <<backends, loader>>
    /\ UNCHANGED <<failCounts, req, up>>

\* Mutant of RecordSuccess: an answer leaves the failures before it counted
KeepFailures(ip) ==
    /\ poll[ip].at = "hook"
    /\ op[ip] = L!Idle
    /\ poll' = [poll EXCEPT ![ip] = NotPolled]
    /\ UNCHANGED <<registry, req, up, loader>>

\* recordSuccess, once the hook has returned
RecordSuccess(ip) ==
    /\ poll[ip].at = "hook"
    /\ op[ip] = L!Idle
    /\ failCounts' = [failCounts EXCEPT ![ip] = 0]
    /\ poll' = [poll EXCEPT ![ip] = NotPolled]
    /\ UNCHANGED <<backends, req, up, loader>>

-----------------------------------------------------------------------------
(* The heartbeat pruner: RemoveStaleUDPBackend in one critical section.    *)

\* Mutant of RemoveStaleUDPBackend: TCP backends are pruned as well
RemoveStaleBackend(stale) ==
    /\ stale # {}
    /\ \A ip \in stale : Registered(ip)
    /\ backends' = [ip \in IPs |-> IF ip \in stale THEN Absent ELSE backends[ip]]
    /\ UNCHANGED <<failCounts, poll, req, up, loader>>

RemoveStaleUDPBackend(stale) ==
    /\ stale # {}
    /\ \A ip \in stale : RegisteredIn("udp", ip)
    /\ backends' = [ip \in IPs |-> IF ip \in stale THEN Absent ELSE backends[ip]]
    /\ UNCHANGED <<failCounts, poll, req, up, loader>>

-----------------------------------------------------------------------------
LoaderStep(t) ==
    /\ L!Step(t)
    /\ UNCHANGED <<registry, poll, req, up>>

Environment ==
    \E ip \in IPs :
        \/ AgentStarts(ip)
        \/ AgentStops(ip)
        \/ \E h \in Handlers, p \in Pools : AgentRegisters(h, p, ip)

ServeRequest(h) ==
    \/ RefuseRequest(h)
    \/ AlreadyExists(h)
    \/ RegisterBackendEntry(h)

FetchEnds(ip) ==
    \/ \E score \in PollScores : AgentAnswers(ip, score)
    \/ PollFails(ip)
    \/ PollFailsTooOften(ip)

Poller ==
    \/ PollAll
    \/ \E ip \in IPs : FetchEnds(ip) \/ UpdateLoadScore(ip) \/ RecordSuccess(ip)

Pruner == \E stale \in SUBSET IPs : RemoveStaleUDPBackend(stale)

Next ==
    \/ Environment
    \/ \E h \in Handlers : ServeRequest(h)
    \/ Poller
    \/ Pruner
    \/ \E t \in Goroutines : LoaderStep(t)

Spec == Init /\ [][Next]_vars

(***************************************************************************)
(* Every goroutine makes progress, the poll ticker keeps firing, and a     *)
(* fetch ends: the HTTP client times out after PollTimeoutSec.  Nothing is *)
(* assumed of the agents or of the pruner.                                 *)
(***************************************************************************)
Fairness ==
    /\ WF_vars(PollAll)
    /\ \A ip \in IPs : /\ WF_vars(FetchEnds(ip))
                       /\ WF_vars(UpdateLoadScore(ip))
                       /\ WF_vars(RecordSuccess(ip))
    /\ \A h \in Handlers : WF_vars(ServeRequest(h))
    /\ \A t \in Goroutines : WF_vars(LoaderStep(t))

FairSpec == Spec /\ Fairness

-----------------------------------------------------------------------------
(* Properties with any number of handlers.                                 *)

(***************************************************************************)
(* A backend that is being polled stays registered, as a TCP backend,      *)
(* until its goroutine is done: only that goroutine may remove it.  So the *)
(* "not in registry" branch of pollOne is never taken, and the hook writes *)
(* the score into the pool the backend was polled for.                     *)
(***************************************************************************)
PolledStaysRegistered ==
    \A ip \in IPs : poll[ip] # NotPolled => RegisteredIn("tcp", ip)

(***************************************************************************)
(* Failures are counted against a registered TCP backend only: one that is *)
(* removed and registers again starts with a clean record.                 *)
(***************************************************************************)
FailuresDieWithTheBackend ==
    \A ip \in IPs : failCounts[ip] > 0 => RegisteredIn("tcp", ip)

-----------------------------------------------------------------------------
(* Properties when requests do not overlap (one handler).                  *)

Setting(p) == \E t \in Goroutines : L!InSetBackend(t, p)
Active(p, ip) == \E s \in L!Slots : s < poolMeta[p] /\ poolMap[p][s].ip = ip

(***************************************************************************)
(* Once no SetBackend on its pool is in progress, a registered backend has *)
(* an active slot of that pool, unless the pool is full: the data plane    *)
(* can pick it.  loader.go:193 says so of every SetBackend; with two       *)
(* handlers it fails, as two calls may write into the same slot.           *)
(***************************************************************************)
RegisteredBackendIsActive ==
    \A p \in Pools, ip \in IPs :
        RegisteredIn(p, ip) /\ ~Setting(p) => Active(p, ip) \/ poolMeta[p] = Capacity

(***************************************************************************)
(* The score a poll has computed is written to the entry of the backend    *)
(* that was polled, which may have been registered for the other protocol  *)
(* before, or twice: slotMap, filled in by another goroutine, names its    *)
(* slot of the TCP pool, and the slot does not change hands between its    *)
(* lookup and the two system calls (loader.go:280-299).                    *)
(***************************************************************************)
ScoreGoesToItsBackend ==
    \A ip \in IPs :
        op[ip].at \in {"score.lookup", "score.update"} =>
            op[ip].pool = "tcp" /\ poolMap["tcp"][op[ip].slot].ip = ip

(***************************************************************************)
(* loader.go:289: a score update that runs at the same time as SetBackend  *)
(* changes the load_score field only.  It fails with two handlers: the     *)
(* entry written back may be one another SetBackend has replaced since.    *)
(***************************************************************************)
ScoreUpdateChangesScoreOnly ==
    [][\A t \in Goroutines :
           L!ScoreUpdateEntry(t) =>
               \A p \in Pools, s \in L!Slots : poolMap'[p][s].ip = poolMap[p][s].ip]_vars

(***************************************************************************)
(* With one handler the hooks call the loader the way SpacedSpec demands,  *)
(* so what is proved of SpacedSpec (module LoaderRefinement) holds here.   *)
(***************************************************************************)
CallsLoaderSpaced == L!SpacedSpec

-----------------------------------------------------------------------------
(* Liveness, with one handler and fairness.                                *)

(***************************************************************************)
(* A TCP backend whose agent stops for good leaves the registry for good.  *)
(***************************************************************************)
DeadBackendIsRemoved ==
    \A ip \in IPs : <>[]~up[ip] => <>[]~RegisteredIn("tcp", ip)

(***************************************************************************)
(* For a backend that stays registered, and has its slot, the score in the *)
(* BPF pool keeps catching up with the one in the registry, although       *)
(* updates are lost while SetBackend has not recorded the slot yet.        *)
(***************************************************************************)
ScoreAgrees(ip) ==
    LET s == slotMap[<<"tcp", ip>>] IN
    s # L!NoSlot /\ poolMap["tcp"][s].load_score = backends[ip].load_score

ScoreReachesPool ==
    \A ip \in IPs :
        <>[](RegisteredIn("tcp", ip) /\ slotMap[<<"tcp", ip>>] # L!NoSlot) =>
            []<>(RegisteredIn("tcp", ip) /\ ScoreAgrees(ip))
=============================================================================
