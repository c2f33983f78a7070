----------------------------- MODULE UdpBackend -----------------------------
(***************************************************************************)
(* How a UDP backend is registered and kept registered: one agent          *)
(* (udp_register.go), the UDP listener that answers it, the registry's     *)
(* entry for it and the heartbeat pruner, with the timers of all of them   *)
(* and a network that delays, reorders and loses packets.                  *)
(*                                                                         *)
(* Time passes in Tick, in units every interval is a multiple of.  What    *)
(* the programs do takes no time: the lookups of a request, 100 ms at      *)
(* most, are over before the next unit.  The agent may stop at any moment  *)
(* and be started again; each run has its own socket, and a number.        *)
(***************************************************************************)
EXTENDS Integers, FiniteSets

CONSTANTS
    HeartbeatInterval,  \* ticker of the agent: 10 s
    AckTimeout,         \* read deadline of the agent: 5 s
    PruneInterval,      \* loopIntervalSec: 5 s
    StaleThreshold,     \* staleThresholdSec: 15 s
    Lookups,            \* attempts to find the MAC in the ARP table: 5
    MaxDelay,           \* a packet arrives within MaxDelay, or is lost
    MaxRuns,            \* bound: how often the agent is started
    MaxLosses           \* bound: how many packets are lost

ASSUME TimersAssumption ==
    /\ {HeartbeatInterval, PruneInterval, AckTimeout} \subseteq Nat \ {0}
    /\ {StaleThreshold, MaxDelay} \subseteq Nat
ASSUME LookupsAssumption == Lookups \in Nat \ {0}
ASSUME BoundsAssumption == MaxRuns \in Nat /\ MaxLosses \in Nat

\* The first heartbeat may come this long after the registration: the ACK and
\* the heartbeat are late, the request was not
ASSUME HeartbeatsAssumption == HeartbeatInterval + 2 * MaxDelay <= StaleThreshold

VARIABLES
    agent,      \* [at, run, timer]: timer counts from the last change of at, or tick
    net,        \* packets on their way: [kind, run, age]
    handler,    \* handler[run]: the goroutine that serves the run's REGISTER
    entry,      \* the registry's entry: [owner, age], the age that of LastSeen
    pruner,     \* time since the pruner's ticker fired
    losses,     \* number of packets lost
    missed      \* the runs that have lost a heartbeat

vars == <<agent, net, handler, entry, pruner, losses, missed>>

Runs == 1 .. MaxRuns
Kinds == {"register", "ack", "heartbeat"}
NoRun == 0
NoEntry == [owner |-> NoRun, age |-> 0]

\* Ages and timers are not told apart from here on
Long == MaxDelay + StaleThreshold + PruneInterval + 1
Later(t) == IF t < Long THEN t + 1 ELSE Long

TypeOK ==
    /\ agent \in [at : {"down", "waiting", "beating"}, run : {NoRun} \cup Runs, timer : 0 .. Long]
    /\ agent.at # "down" => agent.run \in Runs
    /\ agent.at = "waiting" => agent.timer <= AckTimeout
    /\ agent.at = "beating" => agent.timer <= HeartbeatInterval
    /\ net \subseteq [kind : Kinds, run : Runs, age : 0 .. MaxDelay]
    /\ handler \in [Runs -> [at : {"none", "lookup", "failed", "registered", "exists"},
                             tries : 0 .. Lookups - 1]]
    /\ entry \in [owner : {NoRun} \cup Runs, age : 0 .. Long]
    /\ pruner \in 0 .. PruneInterval
    /\ losses \in 0 .. MaxLosses
    /\ missed \subseteq Runs

Init ==
    /\ agent = [at |-> "down", run |-> NoRun, timer |-> 0]
    /\ net = {}
    /\ handler = [r \in Runs |-> [at |-> "none", tries |-> 0]]
    /\ entry = NoEntry
    /\ pruner = 0
    /\ losses = 0
    /\ missed = {}

-----------------------------------------------------------------------------
(* The agent.                                                              *)

Sent(kind, run) == [kind |-> kind, run |-> run, age |-> 0]

AgentStarts ==
    /\ agent.at = "down"
    /\ agent.run < MaxRuns
    /\ agent' = [at |-> "waiting", run |-> agent.run + 1, timer |-> 0]
    /\ net' = net \cup {Sent("register", agent.run + 1)}
    /\ UNCHANGED <<handler, entry, pruner, losses, missed>>

AgentStops ==
    /\ agent.at # "down"
    /\ agent' = [at |-> "down", run |-> agent.run, timer |-> 0]
    /\ UNCHANGED <<net, handler, entry, pruner, losses, missed>>

\* log.Fatalf ends the whole agent, its data plane too
AckTimesOut ==
    /\ agent.at = "waiting"
    /\ agent.timer = AckTimeout
    /\ agent' = [at |-> "down", run |-> agent.run, timer |-> 0]
    /\ UNCHANGED <<net, handler, entry, pruner, losses, missed>>

\* An ACK for an earlier run finds its socket closed
ReceiveAck(m) ==
    /\ m.kind = "ack"
    /\ net' = net \ {m}
    /\ agent' = IF agent.at = "waiting" /\ agent.run = m.run
                THEN [at |-> "beating", run |-> agent.run, timer |-> 0] ELSE agent
    /\ UNCHANGED <<handler, entry, pruner, losses, missed>>

SendHeartbeat ==
    /\ agent.at = "beating"
    /\ agent.timer = HeartbeatInterval
    /\ agent' = [agent EXCEPT !.timer = 0]
    /\ net' = net \cup {Sent("heartbeat", agent.run)}
    /\ UNCHANGED <<handler, entry, pruner, losses, missed>>

-----------------------------------------------------------------------------
(* The UDP listener: a goroutine per packet.                               *)

\* The ACK leaves before anything else happens
ReceiveRegister(m) ==
    /\ m.kind = "register"
    /\ net' = (net \ {m}) \cup {Sent("ack", m.run)}
    /\ handler' = [handler EXCEPT ![m.run].at = "lookup"]
    /\ UNCHANGED <<agent, entry, pruner, losses, missed>>

LookingUp(r) == handler[r].at = "lookup"
LastLookup(r) == handler[r].tries = Lookups - 1

\* Mutant of ArpMisses: one attempt too many
ArpMissesOnceMore(r) ==
    /\ LookingUp(r)
    /\ handler' = [handler EXCEPT ![r].tries = @ + 1]
    /\ UNCHANGED <<agent, net, entry, pruner, losses, missed>>

\* The ARP table has no entry for the agent yet, or the file cannot be read.  An entry
\* the kernel has not completed yet is no miss: its all-zero MAC parses (lines 66-73),
\* and the backend is registered with it
ArpMisses(r) ==
    /\ LookingUp(r) /\ ~LastLookup(r)
    /\ handler' = [handler EXCEPT ![r].tries = @ + 1]
    /\ UNCHANGED <<agent, net, entry, pruner, losses, missed>>

GiveUp(r) ==
    /\ LookingUp(r) /\ LastLookup(r)
    /\ handler' = [handler EXCEPT ![r].at = "failed"]
    /\ UNCHANGED <<agent, net, entry, pruner, losses, missed>>

RegisterBackendEntry(r) ==
    /\ LookingUp(r)
    /\ entry = NoEntry
    /\ entry' = [owner |-> r, age |-> 0]
    /\ handler' = [handler EXCEPT ![r].at = "registered"]
    /\ UNCHANGED <<agent, net, pruner, losses, missed>>

\* An entry of an earlier run stays as it is, LastSeen included
AlreadyExists(r) ==
    /\ LookingUp(r)
    /\ entry # NoEntry
    /\ handler' = [handler EXCEPT ![r].at = "exists"]
    /\ UNCHANGED <<agent, net, entry, pruner, losses, missed>>

\* A heartbeat of a backend that is not registered is ignored
HandleUDPHeartbeat(m) ==
    /\ m.kind = "heartbeat"
    /\ net' = net \ {m}
    /\ entry' = IF entry = NoEntry THEN NoEntry ELSE [entry EXCEPT !.age = 0]
    /\ UNCHANGED <<agent, handler, pruner, losses, missed>>

-----------------------------------------------------------------------------
(* The pruner.                                                             *)

\* Mutant of Stale: an entry as old as the threshold is stale
StaleAtThreshold(e) == e # NoEntry /\ e.age >= StaleThreshold

\* Mutant of Stale: a heartbeat counts until the next round
StaleNextRound(e) == e # NoEntry /\ e.age > StaleThreshold + PruneInterval

\* LastSeen.Before(cutoff)
Stale(e) == e # NoEntry /\ e.age > StaleThreshold

Prune ==
    /\ pruner = PruneInterval
    /\ pruner' = 0
    /\ entry' = IF Stale(entry) THEN NoEntry ELSE entry
    /\ UNCHANGED <<agent, net, handler, losses, missed>>

-----------------------------------------------------------------------------
(* The network, and time.                                                  *)

Lose(m) ==
    /\ losses < MaxLosses
    /\ losses' = losses + 1
    /\ net' = net \ {m}
    /\ missed' = IF m.kind = "heartbeat" THEN missed \cup {m.run} ELSE missed
    /\ UNCHANGED <<agent, handler, entry, pruner>>

\* A ticker that is due fires, a deadline that is reached ends the wait, and a
\* packet arrives in time, before time goes on
Urgent ==
    \/ agent.at = "waiting" /\ agent.timer = AckTimeout
    \/ agent.at = "beating" /\ agent.timer = HeartbeatInterval
    \/ pruner = PruneInterval
    \/ \E m \in net : m.age = MaxDelay
    \/ \E r \in Runs : LookingUp(r)

Tick ==
    /\ ~Urgent
    /\ agent' = [agent EXCEPT !.timer = Later(@)]
    /\ net' = {[m EXCEPT !.age = @ + 1] : m \in net}
    /\ entry' = IF entry = NoEntry THEN NoEntry ELSE [entry EXCEPT !.age = Later(@)]
    /\ pruner' = pruner + 1
    /\ UNCHANGED <<handler, losses, missed>>

-----------------------------------------------------------------------------
Next ==
    \/ AgentStarts \/ AgentStops \/ AckTimesOut \/ SendHeartbeat
    \/ \E m \in net :
          ReceiveRegister(m) \/ ReceiveAck(m) \/ HandleUDPHeartbeat(m) \/ Lose(m)
    \/ \E r \in Runs :
          ArpMisses(r) \/ GiveUp(r) \/ RegisterBackendEntry(r) \/ AlreadyExists(r)
    \/ Prune
    \/ Tick

Spec == Init /\ [][Next]_vars

-----------------------------------------------------------------------------
(***************************************************************************)
(* A backend that registered and sends heartbeats stays registered as long *)
(* as none of its heartbeats is lost, however late they are: the 15 s of   *)
(* heartbeat_pruner.go:12 leave room for the first one, 10 s after an ACK  *)
(* that was late itself.  One lost heartbeat does not leave that room, and *)
(* nothing brings the backend back (registry.go:141).                      *)
(***************************************************************************)
BeatingBackendStaysRegistered ==
    agent.at = "beating" /\ handler[agent.run].at = "registered" /\ agent.run \notin missed
        => entry.owner = agent.run

(***************************************************************************)
(* A backend whose agent has stopped is pruned in time, also when packets  *)
(* of it were on their way, or were being handled, as it stopped.          *)
(***************************************************************************)
DeadBackendIsPruned ==
    agent.at = "down" /\ entry # NoEntry
        => agent.timer <= MaxDelay + StaleThreshold + PruneInterval

(***************************************************************************)
(* benchmarks/udp_register.go:85: the agent logs the ACK as that of its    *)
(* registration.  The ACK leaves before the MAC is looked up, and before   *)
(* the registry is asked.                                                  *)
(***************************************************************************)
AckedBackendIsRegistered ==
    agent.at = "beating" /\ ~LookingUp(agent.run) /\ agent.run \notin missed
        => entry # NoEntry
=============================================================================
