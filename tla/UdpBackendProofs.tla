-------------------------- MODULE UdpBackendProofs --------------------------
(***************************************************************************)
(* For any intervals, delays and numbers of runs and losses: what the      *)
(* timers of agent and pruner leave room for.                              *)
(***************************************************************************)
EXTENDS UdpBackend, TLAPS

Heartbeats(r) == {m \in net : m.kind = "heartbeat" /\ m.run = r}

-----------------------------------------------------------------------------
(* The protocol of one run: a request, then the handler, then the ACK.     *)

RunsInOrder ==
    /\ \A m \in net : m.run <= agent.run
    /\ \A r \in Runs : r > agent.run => handler[r].at = "none"

OneRequestPerRun ==
    /\ \A m \in net : m.kind = "register" => handler[m.run].at = "none"
    /\ \A m1, m2 \in net :
          m1.kind = "register" /\ m2.kind = "register" /\ m1.run = m2.run => m1 = m2

AckWithTheLookup ==
    \A m \in net : m.kind = "ack" =>
       /\ handler[m.run].at # "none"
       /\ LookingUp(m.run) => m.age = 0

\* While the ACK is on its way the entry is not older than it
EntryOfTheWaiting ==
    agent.at = "waiting" /\ handler[agent.run].at = "registered" =>
        \A m \in net : m.kind = "ack" /\ m.run = agent.run =>
            entry.owner = agent.run /\ entry.age <= m.age

\* What LastSeen owes to the last heartbeat, or to the one on its way
EntryOfTheBeating ==
    agent.at = "beating" /\ handler[agent.run].at = "registered" /\ agent.run \notin missed =>
        /\ entry.owner = agent.run
        /\ \/ entry.age <= agent.timer + MaxDelay
           \/ \E m \in Heartbeats(agent.run) :
                 entry.age <= HeartbeatInterval + MaxDelay + m.age

BeatInv ==
    /\ RunsInOrder
    /\ OneRequestPerRun
    /\ AckWithTheLookup
    /\ EntryOfTheWaiting
    /\ EntryOfTheBeating

-----------------------------------------------------------------------------
(* An agent that is down: all that is left of it is at least as old.       *)

EntryYoungerThanRound == entry.age <= StaleThreshold + pruner

PacketsOfTheDead ==
    agent.at = "down" => \A m \in net : m.kind # "ack" => agent.timer <= m.age

LookupsOfTheDead ==
    agent.at = "down" => \A r \in Runs : LookingUp(r) => agent.timer <= MaxDelay

EntryOfTheDead ==
    agent.at = "down" /\ entry # NoEntry => agent.timer <= entry.age + MaxDelay

DeadInv ==
    /\ EntryYoungerThanRound
    /\ PacketsOfTheDead
    /\ LookupsOfTheDead
    /\ EntryOfTheDead

-----------------------------------------------------------------------------
(* Types.                                                                  *)

(***************************************************************************)
(* The parts of the state: records of the agent, of a packet, of a handler *)
(* and of the entry.                                                       *)
(***************************************************************************)
LEMMA Numbers ==
    /\ HeartbeatInterval \in Nat \ {0} /\ AckTimeout \in Nat \ {0} /\ PruneInterval \in Nat \ {0}
    /\ StaleThreshold \in Nat /\ MaxDelay \in Nat /\ Lookups \in Nat \ {0}
    /\ MaxRuns \in Nat /\ MaxLosses \in Nat
    /\ Long \in Nat /\ Runs \subseteq Nat \ {0} /\ NoRun = 0
BY TimersAssumption, LookupsAssumption, BoundsAssumption DEF Long, Runs, NoRun

(***************************************************************************)
(* A capped timer goes on by one, or stays where it is.                    *)
(***************************************************************************)
LEMMA LaterFacts ==
    ASSUME NEW t \in 0 .. Long
    PROVE  Later(t) \in 0 .. Long /\ Later(t) <= t + 1 /\ t <= Later(t)
BY Numbers DEF Later

(***************************************************************************)
(* Initially every variable has its type.                                  *)
(***************************************************************************)
LEMMA InitTypeOK == Init => TypeOK
BY Numbers DEF Init, TypeOK, NoEntry, Kinds

(***************************************************************************)
(* No step leaves the types: a counter of lookups stays below Lookups, and *)
(* no packet and no ticker waits longer than it may.                       *)
(***************************************************************************)
LEMMA NextTypeOK == TypeOK /\ [Next]_vars => TypeOK'
<1> SUFFICES ASSUME TypeOK, [Next]_vars PROVE TypeOK'
  OBVIOUS
<1> USE Numbers DEF TypeOK
<1>1. CASE AgentStarts
  <2>1. agent.run + 1 \in Runs
    BY <1>1 DEF AgentStarts, Runs, NoRun
  <2>2. net' \subseteq [kind : Kinds, run : Runs, age : 0 .. MaxDelay]
    BY <1>1, <2>1 DEF AgentStarts, Sent, Kinds
  <2> QED BY <1>1, <2>1, <2>2 DEF AgentStarts
<1>2. CASE AgentStops
  BY <1>2 DEF AgentStops
<1>3. CASE AckTimesOut
  BY <1>3 DEF AckTimesOut
<1>4. CASE SendHeartbeat
  <2>1. agent.run \in Runs
    BY <1>4 DEF SendHeartbeat
  <2> QED BY <1>4, <2>1 DEF SendHeartbeat, Sent, Kinds
<1>5. ASSUME NEW m \in net, ReceiveRegister(m) PROVE TypeOK'
  BY <1>5 DEF ReceiveRegister, Sent, Kinds
<1>6. ASSUME NEW m \in net, ReceiveAck(m) PROVE TypeOK'
  BY <1>6 DEF ReceiveAck
<1>7. ASSUME NEW m \in net, HandleUDPHeartbeat(m) PROVE TypeOK'
  BY <1>7 DEF HandleUDPHeartbeat, NoEntry
<1>8. ASSUME NEW m \in net, Lose(m) PROVE TypeOK'
  <2>1. net' \subseteq net /\ m.run \in Runs /\ losses' \in 0 .. MaxLosses
    BY <1>8 DEF Lose
  <2>2. missed' \subseteq Runs
    BY <1>8, <2>1 DEF Lose
  <2> QED BY <1>8, <2>1, <2>2 DEF Lose
<1>9. ASSUME NEW r \in Runs, ArpMisses(r) PROVE TypeOK'
  BY <1>9 DEF ArpMisses, LookingUp, LastLookup
<1>10. ASSUME NEW r \in Runs, GiveUp(r) PROVE TypeOK'
  BY <1>10 DEF GiveUp
<1>11. ASSUME NEW r \in Runs, RegisterBackendEntry(r) PROVE TypeOK'
  BY <1>11 DEF RegisterBackendEntry
<1>12. ASSUME NEW r \in Runs, AlreadyExists(r) PROVE TypeOK'
  BY <1>12 DEF AlreadyExists
<1>13. CASE Prune
  BY <1>13 DEF Prune, NoEntry
<1>14. CASE Tick
  <2>1. \A t \in 0 .. Long : Later(t) \in 0 .. Long /\ Later(t) <= t + 1
    BY LaterFacts
  <2>2. net' \subseteq [kind : Kinds, run : Runs, age : 0 .. MaxDelay]
    BY <1>14 DEF Tick, Urgent
  <2>3. agent' \in [at : {"down", "waiting", "beating"}, run : {NoRun} \cup Runs,
                     timer : 0 .. Long]
    BY <1>14, <2>1 DEF Tick
  <2>4. agent'.at = "waiting" => agent'.timer <= AckTimeout
    BY <1>14, <2>1 DEF Tick, Urgent
  <2>5. agent'.at = "beating" => agent'.timer <= HeartbeatInterval
    BY <1>14, <2>1 DEF Tick, Urgent
  <2>6. entry' \in [owner : {NoRun} \cup Runs, age : 0 .. Long]
    BY <1>14, <2>1 DEF Tick, NoEntry
  <2>7. pruner' \in 0 .. PruneInterval
    BY <1>14 DEF Tick, Urgent
  <2> QED BY <1>14, <2>2, <2>3, <2>4, <2>5, <2>6, <2>7 DEF Tick
<1>15. CASE UNCHANGED vars
  BY <1>15 DEF vars
<1> QED
  BY <1>1, <1>2, <1>3, <1>4, <1>5, <1>6, <1>7, <1>8, <1>9, <1>10, <1>11, <1>12, <1>13, <1>14,
     <1>15 DEF Next

(***************************************************************************)
(* TypeOK: every counter of the agent, the handlers and the pruner stays   *)
(* in its range, for any intervals and delays (udp_register.go,            *)
(* udp_listener.go, heartbeat_pruner.go).                                  *)
(***************************************************************************)
THEOREM TypeCorrect == Spec => []TypeOK
BY InitTypeOK, NextTypeOK, PTL DEF Spec

-----------------------------------------------------------------------------
(* One run's packets and handler.                                          *)

(***************************************************************************)
(* The types of what the steps below compare.                              *)
(***************************************************************************)
LEMMA Fields ==
    ASSUME TypeOK
    PROVE  /\ Runs \subseteq Nat /\ agent.run \in Nat
           /\ agent.at # "down" => agent.run \in Runs
           /\ agent.timer \in 0 .. Long /\ agent.timer \in Nat
           /\ \A m \in net : m.run \in Runs /\ m.run \in Nat /\ m.age \in Nat /\ m.age <= MaxDelay
           /\ \A m \in net : m = [kind |-> m.kind, run |-> m.run, age |-> m.age]
           /\ \A r \in Runs : handler[r] = [at |-> handler[r].at, tries |-> handler[r].tries]
           /\ DOMAIN handler = Runs
           /\ entry = [owner |-> entry.owner, age |-> entry.age]
           /\ entry.age \in 0 .. Long /\ entry.age \in Nat
           /\ pruner \in Nat
<1>1. Runs \subseteq Nat /\ agent.run \in Nat /\ pruner \in Nat
  <2>1. agent.run \in {NoRun} \cup Runs /\ pruner \in 0 .. PruneInterval
    BY DEF TypeOK
  <2> QED BY <2>1, Numbers DEF Runs, NoRun
<1>2. /\ agent.at # "down" => agent.run \in Runs
      /\ agent.timer \in 0 .. Long /\ agent.timer \in Nat
  BY Numbers DEF TypeOK
<1>3. \A m \in net : m.run \in Runs /\ m.run \in Nat /\ m.age \in Nat /\ m.age <= MaxDelay
  <2>1. \A m \in net : m.run \in Runs /\ m.age \in 0 .. MaxDelay
    BY DEF TypeOK
  <2> QED BY <2>1, Numbers DEF Runs
<1>4. \A m \in net : m = [kind |-> m.kind, run |-> m.run, age |-> m.age]
  BY DEF TypeOK
<1>5. /\ \A r \in Runs : handler[r] = [at |-> handler[r].at, tries |-> handler[r].tries]
      /\ DOMAIN handler = Runs
  BY DEF TypeOK
<1>6. /\ entry = [owner |-> entry.owner, age |-> entry.age]
      /\ entry.age \in 0 .. Long /\ entry.age \in Nat
  BY Numbers DEF TypeOK
<1> QED BY <1>1, <1>2, <1>3, <1>4, <1>5, <1>6

RunInv == RunsInOrder /\ OneRequestPerRun /\ AckWithTheLookup

(***************************************************************************)
(* A step moves no handler but one, and adds no packet but one.            *)
(***************************************************************************)
LEMMA NextRunInv ==
    ASSUME TypeOK, RunInv, [Next]_vars
    PROVE  RunInv'
<1> USE Fields DEF RunInv
<1> DEFINE quiet == handler' = handler /\ net' \subseteq net /\ agent'.run = agent.run
<1>1. CASE AgentStarts
  <2>1. agent.run + 1 \in Runs /\ agent'.run = agent.run + 1
    BY <1>1, Numbers DEF AgentStarts, Runs
  <2>2. handler[agent.run + 1].at = "none"
    BY <2>1 DEF RunsInOrder
  <2>3. \A m \in net : m.run < agent.run + 1
    BY DEF RunsInOrder
  <2>4. \A m \in net' :
           m \in net \/ m = [kind |-> "register", run |-> agent.run + 1, age |-> 0]
    BY <1>1 DEF AgentStarts, Sent
  <2>5. RunsInOrder'
    BY <1>1, <2>1, <2>3, <2>4 DEF AgentStarts, RunsInOrder
  <2>6. OneRequestPerRun'
    BY <1>1, <2>2, <2>3, <2>4 DEF AgentStarts, OneRequestPerRun
  <2>7. AckWithTheLookup'
    BY <1>1, <2>4 DEF AgentStarts, AckWithTheLookup, LookingUp
  <2> QED BY <2>5, <2>6, <2>7
<1>2. CASE quiet
  <2>1. RunsInOrder'
    BY <1>2 DEF RunsInOrder
  <2>2. OneRequestPerRun'
    BY <1>2 DEF OneRequestPerRun
  <2>3. AckWithTheLookup'
    BY <1>2 DEF AckWithTheLookup, LookingUp
  <2> QED BY <2>1, <2>2, <2>3
<1>3. CASE SendHeartbeat
  <2>1. \A m \in net' :
           m \in net \/ m = [kind |-> "heartbeat", run |-> agent.run, age |-> 0]
    BY <1>3 DEF SendHeartbeat, Sent
  <2>2. agent'.run = agent.run /\ handler' = handler
    BY <1>3 DEF SendHeartbeat
  <2>3. RunsInOrder'
    BY <2>1, <2>2 DEF RunsInOrder
  <2>4. OneRequestPerRun'
    BY <2>1, <2>2 DEF OneRequestPerRun
  <2>5. AckWithTheLookup'
    BY <2>1, <2>2 DEF AckWithTheLookup, LookingUp
  <2> QED BY <2>3, <2>4, <2>5
<1>4. ASSUME NEW m \in net, ReceiveRegister(m) PROVE RunInv'
  <2>1. \A n \in net' : (n \in net /\ n # m) \/ n = [kind |-> "ack", run |-> m.run, age |-> 0]
    BY <1>4 DEF ReceiveRegister, Sent
  <2>2. m.run \in Runs /\ m.kind = "register" /\ agent' = agent /\ m.run <= agent.run
    BY <1>4 DEF ReceiveRegister, RunsInOrder
  <2>3. \A r \in Runs : handler'[r].at = IF r = m.run THEN "lookup" ELSE handler[r].at
    BY <1>4, <2>2 DEF ReceiveRegister
  <2>4. handler[m.run].at = "none"
    BY <2>2 DEF OneRequestPerRun
  <2>5. RunsInOrder'
    BY <2>1, <2>2, <2>3 DEF RunsInOrder
  <2>6. OneRequestPerRun'
    <3>1. \A n \in net' : n.kind = "register" => n \in net /\ n # m /\ n.run # m.run
      BY <2>1, <2>2 DEF OneRequestPerRun
    <3> QED BY <2>3, <3>1 DEF OneRequestPerRun
  <2>7. AckWithTheLookup'
    <3>1. ASSUME NEW n \in net', n.kind = "ack"
          PROVE  handler'[n.run].at # "none" /\ (handler'[n.run].at = "lookup" => n.age = 0)
      <4>1. CASE n \in net
        <5>1. n.run \in Runs /\ n.run # m.run
          BY <2>4, <3>1, <4>1 DEF AckWithTheLookup
        <5> QED BY <2>3, <3>1, <4>1, <5>1 DEF AckWithTheLookup, LookingUp
      <4>2. CASE n = [kind |-> "ack", run |-> m.run, age |-> 0]
        BY <2>2, <2>3, <4>2
      <4> QED BY <2>1, <4>1, <4>2
    <3> QED BY <3>1 DEF AckWithTheLookup, LookingUp
  <2> QED BY <2>5, <2>6, <2>7
<1>5. ASSUME NEW r \in Runs, ArpMisses(r) PROVE RunInv'
  <2>1. net' = net /\ agent' = agent /\ \A q \in Runs : handler'[q].at = handler[q].at
    BY <1>5 DEF ArpMisses
  <2> QED BY <2>1 DEF RunsInOrder, OneRequestPerRun, AckWithTheLookup, LookingUp
<1>6. ASSUME NEW r \in Runs, GiveUp(r) \/ RegisterBackendEntry(r) \/ AlreadyExists(r)
      PROVE  RunInv'
  <2>1. net' = net /\ agent' = agent /\ LookingUp(r)
    BY <1>6 DEF GiveUp, RegisterBackendEntry, AlreadyExists
  <2>2. \E at \in {"failed", "registered", "exists"} :
           \A q \in Runs : handler'[q].at = IF q = r THEN at ELSE handler[q].at
    BY <1>6 DEF GiveUp, RegisterBackendEntry, AlreadyExists
  <2> QED BY <2>1, <2>2 DEF RunsInOrder, OneRequestPerRun, AckWithTheLookup, LookingUp
<1>7. CASE Tick
  <2>1. agent'.run = agent.run /\ handler' = handler
    BY <1>7 DEF Tick
  <2>2. \A n \in net' : \E m \in net : n = [m EXCEPT !.age = @ + 1]
    BY <1>7 DEF Tick
  <2>3. \A r \in Runs : ~LookingUp(r)
    BY <1>7 DEF Tick, Urgent
  <2>4. \A n \in net' : \E m \in net :
           n.kind = m.kind /\ n.run = m.run
           /\ n = [kind |-> m.kind, run |-> m.run, age |-> m.age + 1]
    BY <2>2
  <2>5. RunsInOrder'
    BY <2>1, <2>4 DEF RunsInOrder
  <2>6. OneRequestPerRun'
    BY <2>1, <2>4 DEF OneRequestPerRun
  <2>7. AckWithTheLookup'
    BY <2>1, <2>3, <2>4 DEF AckWithTheLookup, LookingUp
  <2> QED BY <2>5, <2>6, <2>7
<1>8. CASE AgentStops \/ AckTimesOut \/ Prune \/ UNCHANGED vars
  BY <1>2, <1>8 DEF AgentStops, AckTimesOut, Prune, vars
<1>9. ASSUME NEW m \in net, ReceiveAck(m) \/ HandleUDPHeartbeat(m) \/ Lose(m) PROVE RunInv'
  BY <1>2, <1>9 DEF ReceiveAck, HandleUDPHeartbeat, Lose
<1> QED
  BY <1>1, <1>3, <1>4, <1>5, <1>6, <1>7, <1>8, <1>9 DEF Next

-----------------------------------------------------------------------------
(* The entry of an agent that waits for its ACK.                           *)

(***************************************************************************)
(* A heartbeat makes an entry younger, a pruning leaves a young one alone, *)
(* and nothing else touches an entry that is there, but time.              *)
(***************************************************************************)
LEMMA EntrySteps ==
    ASSUME TypeOK, [Next]_vars, entry # NoEntry, entry.age <= StaleThreshold
    PROVE  /\ entry'.owner = entry.owner
           /\ Tick => entry'.age <= entry.age + 1
           /\ ~Tick => entry'.age <= entry.age
<1> USE Fields
<1>1. CASE Tick
  <2>1. entry'.owner = entry.owner /\ entry'.age = Later(entry.age)
    BY <1>1 DEF Tick
  <2> QED BY <1>1, <2>1, LaterFacts
<1>2. CASE entry' = entry
  <2>1. CASE ~Tick
    BY <1>2, <2>1
  <2> QED BY <1>1, <2>1
<1>3. ASSUME NEW m \in net, HandleUDPHeartbeat(m) PROVE entry'.owner = entry.owner /\ entry'.age = 0
  BY <1>3 DEF HandleUDPHeartbeat
<1>4. CASE Prune
  BY <1>2, <1>4, Numbers DEF Prune, Stale
<1>5. CASE AgentStarts \/ AgentStops \/ AckTimesOut \/ SendHeartbeat \/ UNCHANGED vars
  BY <1>2, <1>5 DEF AgentStarts, AgentStops, AckTimesOut, SendHeartbeat, vars
<1>6. ASSUME NEW m \in net, ReceiveRegister(m) \/ ReceiveAck(m) \/ Lose(m) PROVE entry' = entry
  BY <1>6 DEF ReceiveRegister, ReceiveAck, Lose
<1>7. ASSUME NEW r \in Runs,
             ArpMisses(r) \/ GiveUp(r) \/ RegisterBackendEntry(r) \/ AlreadyExists(r)
      PROVE  entry' = entry
  BY <1>7 DEF ArpMisses, GiveUp, RegisterBackendEntry, AlreadyExists
<1> QED
  BY <1>1, <1>2, <1>3, <1>4, <1>5, <1>6, <1>7 DEF Next

(***************************************************************************)
(* A new timer leaves the rest of the agent alone.                         *)
(***************************************************************************)
LEMMA AgentTimer ==
    ASSUME TypeOK, NEW t
    PROVE  /\ [agent EXCEPT !.timer = t].at = agent.at
           /\ [agent EXCEPT !.timer = t].run = agent.run
           /\ [agent EXCEPT !.timer = t].timer = t
BY DEF TypeOK

(***************************************************************************)
(* The wait ends with the ACK, or with the deadline.                       *)
(***************************************************************************)
LEMMA StillWaiting ==
    ASSUME TypeOK, [Next]_vars, agent'.at = "waiting", ~AgentStarts
    PROVE  agent.at = "waiting" /\ agent'.run = agent.run
<1> USE Fields
<1>1. ASSUME NEW m \in net, ReceiveAck(m) PROVE agent.at = "waiting" /\ agent'.run = agent.run
  BY <1>1 DEF ReceiveAck
<1>2. ASSUME NEW m \in net, ReceiveRegister(m) \/ HandleUDPHeartbeat(m) \/ Lose(m)
      PROVE  agent' = agent
  BY <1>2 DEF ReceiveRegister, HandleUDPHeartbeat, Lose
<1>3. ASSUME NEW r \in Runs,
             ArpMisses(r) \/ GiveUp(r) \/ RegisterBackendEntry(r) \/ AlreadyExists(r)
      PROVE  agent' = agent
  BY <1>3 DEF ArpMisses, GiveUp, RegisterBackendEntry, AlreadyExists
<1>4. CASE AgentStops \/ AckTimesOut \/ Prune \/ UNCHANGED vars
  BY <1>4 DEF AgentStops, AckTimesOut, Prune, vars
<1>5. CASE SendHeartbeat \/ Tick
  <2>1. \E t : agent' = [agent EXCEPT !.timer = t]
    BY <1>5 DEF SendHeartbeat, Tick
  <2> QED BY <2>1, AgentTimer
<1> QED
  BY <1>1, <1>2, <1>3, <1>4, <1>5 DEF Next

(***************************************************************************)
(* A handler gets to "registered" only by filling the empty entry.         *)
(***************************************************************************)
LEMMA StillRegistered ==
    ASSUME TypeOK, [Next]_vars, NEW r \in Runs, handler'[r].at = "registered"
    PROVE  \/ handler[r].at = "registered"
           \/ RegisterBackendEntry(r)
<1> USE Fields
<1>1. ASSUME NEW m \in net, ReceiveRegister(m) PROVE handler[r].at = "registered"
  BY <1>1 DEF ReceiveRegister
<1>2. ASSUME NEW m \in net, ReceiveAck(m) \/ HandleUDPHeartbeat(m) \/ Lose(m)
      PROVE  handler' = handler
  BY <1>2 DEF ReceiveAck, HandleUDPHeartbeat, Lose
<1>3. ASSUME NEW q \in Runs, ArpMisses(q) \/ GiveUp(q) \/ AlreadyExists(q)
      PROVE  handler[r].at = "registered"
  BY <1>3 DEF ArpMisses, GiveUp, AlreadyExists, LookingUp
<1>4. ASSUME NEW q \in Runs, RegisterBackendEntry(q)
      PROVE  handler[r].at = "registered" \/ q = r
  BY <1>4 DEF RegisterBackendEntry
<1>5. CASE AgentStarts \/ AgentStops \/ AckTimesOut \/ SendHeartbeat \/ Prune \/ Tick
             \/ UNCHANGED vars
  BY <1>5 DEF AgentStarts, AgentStops, AckTimesOut, SendHeartbeat, Prune, Tick, vars
<1> QED
  BY <1>1, <1>2, <1>3, <1>4, <1>5 DEF Next

(***************************************************************************)
(* An ACK is as old as it was, one unit older, or new.                     *)
(***************************************************************************)
LEMMA PacketSteps ==
    ASSUME TypeOK, [Next]_vars, NEW m \in net', ~(m \in net /\ ~Tick)
    PROVE  IF Tick
           THEN \E n \in net : m.kind = n.kind /\ m.run = n.run /\ m.age = n.age + 1
           ELSE \/ /\ \E n \in net : ReceiveRegister(n) /\ m.run = n.run
                   /\ m.kind = "ack" /\ m.age = 0
                \/ SendHeartbeat /\ m.kind = "heartbeat" /\ m.run = agent.run /\ m.age = 0
                \/ AgentStarts /\ m.kind = "register" /\ m.age = 0
<1> USE Fields
<1>1. CASE Tick
  <2>1. PICK n \in net : m = [n EXCEPT !.age = @ + 1]
    BY <1>1 DEF Tick
  <2>2. m = [kind |-> n.kind, run |-> n.run, age |-> n.age + 1]
    BY <2>1
  <2> QED BY <1>1, <2>2
<1>2. ASSUME NEW n \in net, ReceiveRegister(n), m \notin net
      PROVE  m.run = n.run /\ m.kind = "ack" /\ m.age = 0
  BY <1>2 DEF ReceiveRegister, Sent
<1>3. ASSUME SendHeartbeat, m \notin net
      PROVE  m.kind = "heartbeat" /\ m.run = agent.run /\ m.age = 0
  BY <1>3 DEF SendHeartbeat, Sent
<1>4. ASSUME AgentStarts, m \notin net PROVE m.kind = "register" /\ m.age = 0
  BY <1>4 DEF AgentStarts, Sent
<1>5. ASSUME NEW n \in net, ReceiveAck(n) \/ HandleUDPHeartbeat(n) \/ Lose(n) PROVE m \in net
  BY <1>5 DEF ReceiveAck, HandleUDPHeartbeat, Lose
<1>6. ASSUME NEW r \in Runs,
             ArpMisses(r) \/ GiveUp(r) \/ RegisterBackendEntry(r) \/ AlreadyExists(r)
      PROVE  m \in net
  BY <1>6 DEF ArpMisses, GiveUp, RegisterBackendEntry, AlreadyExists
<1>7. ASSUME AgentStops \/ AckTimesOut \/ Prune \/ UNCHANGED vars PROVE m \in net
  BY <1>7 DEF AgentStops, AckTimesOut, Prune, vars
<1>8. CASE Tick
  BY <1>1, <1>8
<1>9. CASE ~Tick
  BY <1>2, <1>3, <1>4, <1>5, <1>6, <1>7, <1>9 DEF Next
<1> QED BY <1>8, <1>9

(***************************************************************************)
(* EntryOfTheWaiting is kept: the entry is made while the ACK is new, and  *)
(* both age together.                                                      *)
(***************************************************************************)
LEMMA NextWaiting ==
    ASSUME TypeOK, TypeOK', RunInv, EntryOfTheWaiting, [Next]_vars
    PROVE  EntryOfTheWaiting'
<1> USE Fields
<1> DEFINE r == agent'.run
<1> SUFFICES ASSUME agent'.at = "waiting", handler'[r].at = "registered",
                    NEW m \in net', m.kind = "ack", m.run = r
             PROVE  entry'.owner = r /\ entry'.age <= m.age
  BY DEF EntryOfTheWaiting
<1>0. r \in Runs /\ m.age \in Nat /\ entry'.age \in Nat
  BY Numbers DEF TypeOK
<1>1. CASE AgentStarts
  <2>1. r = agent.run + 1 /\ m \in net
    BY <1>1 DEF AgentStarts, Sent
  <2> QED BY <2>1 DEF RunInv, RunsInOrder
<1>2. CASE ~AgentStarts
  <2>1. agent.at = "waiting" /\ agent.run = r
    BY <1>2, StillWaiting
  <2>2. CASE RegisterBackendEntry(r)
    BY <1>0, <2>2 DEF RegisterBackendEntry
  <2>3. CASE handler[r].at = "registered"
    <3>1. ASSUME NEW n \in net, n.kind = "ack", n.run = r
          PROVE  /\ entry.owner = r /\ entry.age <= n.age
                 /\ entry # NoEntry /\ entry.age <= StaleThreshold
      <4>1. entry.owner = r /\ entry.age <= n.age
        BY <2>1, <2>3, <3>1 DEF EntryOfTheWaiting
      <4>2. entry # NoEntry
        BY <1>0, <4>1, Numbers DEF NoEntry
      <4>3. entry.age <= StaleThreshold
        BY <4>1, Numbers, HeartbeatsAssumption
      <4> QED BY <4>1, <4>2, <4>3
    <3>2. CASE m \in net /\ ~Tick
      <4>1. entry'.owner = r /\ entry'.age <= entry.age /\ entry.age <= m.age
        BY <3>1, <3>2, EntrySteps
      <4> QED BY <4>1, <1>0
    <3>3. CASE ~(m \in net /\ ~Tick)
      <4>1. CASE Tick
        <5>1. PICK n \in net : m.kind = n.kind /\ m.run = n.run /\ m.age = n.age + 1
          BY <3>3, <4>1, PacketSteps
        <5>2. entry'.owner = r /\ entry'.age <= entry.age + 1 /\ entry.age <= n.age
          BY <3>1, <4>1, <5>1, EntrySteps
        <5>3. n.age \in Nat /\ entry.age \in Nat
          OBVIOUS
        <5> HIDE Fields
        <5>4. entry'.age <= n.age + 1
          BY <5>2, <5>3, <1>0
        <5>5. m.age = n.age + 1
          BY <5>1
        <5>6. entry'.owner = r
          BY <5>2
        <5> QED BY <5>4, <5>5, <5>6
      <4>2. ASSUME NEW n \in net, ReceiveRegister(n), n.run = r PROVE FALSE
        BY <1>0, <2>3, <4>2 DEF ReceiveRegister
      <4> QED BY <3>3, <4>1, <4>2, PacketSteps
    <3> QED BY <3>2, <3>3
  <2> QED BY <1>0, <2>2, <2>3, StillRegistered
<1> QED BY <1>1, <1>2

-----------------------------------------------------------------------------
(* The entry of an agent that sends heartbeats.                            *)

(***************************************************************************)
(* An agent starts to send heartbeats when it gets the ACK of its own run. *)
(***************************************************************************)
LEMMA StillBeating ==
    ASSUME TypeOK, [Next]_vars, agent'.at = "beating"
    PROVE  /\ agent'.run = agent.run
           /\ \/ agent.at = "beating" /\ (agent' = agent \/ Tick \/ SendHeartbeat)
              \/ /\ agent.at = "waiting" /\ agent'.timer = 0
                 /\ \E m \in net : ReceiveAck(m) /\ m.run = agent.run
<1> USE Fields
<1>1. ASSUME NEW m \in net, ReceiveAck(m)
      PROVE  \/ agent' = agent
             \/ /\ agent.at = "waiting" /\ agent'.timer = 0 /\ agent'.run = agent.run
                /\ m.run = agent.run
  BY <1>1 DEF ReceiveAck
<1>2. ASSUME NEW m \in net, ReceiveRegister(m) \/ HandleUDPHeartbeat(m) \/ Lose(m)
      PROVE  agent' = agent
  BY <1>2 DEF ReceiveRegister, HandleUDPHeartbeat, Lose
<1>3. ASSUME NEW r \in Runs,
             ArpMisses(r) \/ GiveUp(r) \/ RegisterBackendEntry(r) \/ AlreadyExists(r)
      PROVE  agent' = agent
  BY <1>3 DEF ArpMisses, GiveUp, RegisterBackendEntry, AlreadyExists
<1>4. ASSUME Prune \/ UNCHANGED vars PROVE agent' = agent
  BY <1>4 DEF Prune, vars
<1>5. ASSUME AgentStarts \/ AgentStops \/ AckTimesOut PROVE FALSE
  BY <1>5 DEF AgentStarts, AgentStops, AckTimesOut
<1>6. ASSUME SendHeartbeat \/ Tick
      PROVE  agent'.at = agent.at /\ agent'.run = agent.run
  <2>1. \E t : agent' = [agent EXCEPT !.timer = t]
    BY <1>6 DEF SendHeartbeat, Tick
  <2> QED BY <2>1, AgentTimer
<1> QED
  BY <1>1, <1>2, <1>3, <1>4, <1>5, <1>6 DEF Next

(***************************************************************************)
(* A heartbeat on its way arrives, stays there, or is lost and noted.      *)
(***************************************************************************)
LEMMA HeartbeatSteps ==
    ASSUME TypeOK, [Next]_vars, ~Tick, NEW m \in net, m.kind = "heartbeat", m.run \notin missed'
    PROVE  m \in net' \/ HandleUDPHeartbeat(m)
<1> USE Fields
<1>1. ASSUME NEW n \in net, Lose(n) PROVE m \in net'
  BY <1>1 DEF Lose
<1>2. ASSUME NEW n \in net, ReceiveRegister(n) \/ ReceiveAck(n) PROVE m \in net'
  BY <1>2 DEF ReceiveRegister, ReceiveAck
<1>3. ASSUME NEW n \in net, HandleUDPHeartbeat(n), n # m PROVE m \in net'
  BY <1>3 DEF HandleUDPHeartbeat
<1>4. ASSUME AgentStarts \/ SendHeartbeat PROVE m \in net'
  BY <1>4 DEF AgentStarts, SendHeartbeat
<1>5. ASSUME AgentStops \/ AckTimesOut \/ Prune \/ UNCHANGED vars PROVE m \in net'
  BY <1>5 DEF AgentStops, AckTimesOut, Prune, vars
<1>6. ASSUME NEW r \in Runs,
             ArpMisses(r) \/ GiveUp(r) \/ RegisterBackendEntry(r) \/ AlreadyExists(r)
      PROVE  m \in net'
  BY <1>6 DEF ArpMisses, GiveUp, RegisterBackendEntry, AlreadyExists
<1> QED
  BY <1>1, <1>2, <1>3, <1>4, <1>5, <1>6 DEF Next

(***************************************************************************)
(* That a run has lost a heartbeat is not forgotten.                       *)
(***************************************************************************)
LEMMA MissedGrows == ASSUME [Next]_vars PROVE missed \subseteq missed'
<1>1. ASSUME NEW m \in net, Lose(m) PROVE missed \subseteq missed'
  BY <1>1 DEF Lose
<1>2. ASSUME NEW m \in net, ReceiveRegister(m) \/ ReceiveAck(m) \/ HandleUDPHeartbeat(m)
      PROVE  missed' = missed
  BY <1>2 DEF ReceiveRegister, ReceiveAck, HandleUDPHeartbeat
<1>3. ASSUME NEW r \in Runs,
             ArpMisses(r) \/ GiveUp(r) \/ RegisterBackendEntry(r) \/ AlreadyExists(r)
      PROVE  missed' = missed
  BY <1>3 DEF ArpMisses, GiveUp, RegisterBackendEntry, AlreadyExists
<1>4. ASSUME AgentStarts \/ AgentStops \/ AckTimesOut \/ SendHeartbeat \/ Prune \/ Tick
                \/ UNCHANGED vars
      PROVE  missed' = missed
  BY <1>4 DEF AgentStarts, AgentStops, AckTimesOut, SendHeartbeat, Prune, Tick, vars
<1> QED
  BY <1>1, <1>2, <1>3, <1>4 DEF Next

(***************************************************************************)
(* The entry of a run that beats is its own, and never older than the      *)
(* threshold: one interval and two delays at most.                         *)
(***************************************************************************)
LEMMA YoungEntry ==
    ASSUME TypeOK, EntryOfTheBeating, agent.at = "beating",
           handler[agent.run].at = "registered", agent.run \notin missed
    PROVE  /\ entry.owner = agent.run /\ entry # NoEntry /\ entry.age <= StaleThreshold
           /\ \/ entry.age <= agent.timer + MaxDelay
              \/ \E m \in Heartbeats(agent.run) :
                    entry.age <= HeartbeatInterval + MaxDelay + m.age
<1> USE Fields
<1>1. /\ entry.owner = agent.run
      /\ \/ entry.age <= agent.timer + MaxDelay
         \/ \E m \in Heartbeats(agent.run) :
               entry.age <= HeartbeatInterval + MaxDelay + m.age
  BY DEF EntryOfTheBeating
<1>2. entry # NoEntry
  BY <1>1, Numbers DEF NoEntry
<1>3. CASE entry.age <= agent.timer + MaxDelay
  <2>1. agent.timer <= HeartbeatInterval
    BY DEF TypeOK
  <2>2. entry.age <= StaleThreshold
    BY <1>3, <2>1, Numbers, HeartbeatsAssumption
  <2> QED BY <1>1, <1>2, <2>2
<1>4. ASSUME NEW m \in Heartbeats(agent.run),
             entry.age <= HeartbeatInterval + MaxDelay + m.age
      PROVE  entry.age <= StaleThreshold
  <2>1. m.age \in Nat /\ m.age <= MaxDelay
    BY DEF Heartbeats
  <2> QED BY <1>4, <2>1, Numbers, HeartbeatsAssumption
<1> QED BY <1>1, <1>2, <1>3, <1>4

(***************************************************************************)
(* EntryOfTheBeating is kept: the next heartbeat leaves, and arrives,      *)
(* before the last one is too old.                                         *)
(***************************************************************************)
LEMMA NextBeating ==
    ASSUME TypeOK, TypeOK', EntryOfTheWaiting, EntryOfTheBeating, [Next]_vars
    PROVE  EntryOfTheBeating'
<1> USE Fields
<1> DEFINE r == agent'.run
           young == entry'.age <= agent'.timer + MaxDelay
           late == \E m \in net' : /\ m.kind = "heartbeat" /\ m.run = r
                                   /\ entry'.age <= HeartbeatInterval + MaxDelay + m.age
<1> SUFFICES ASSUME agent'.at = "beating", handler'[r].at = "registered", r \notin missed'
             PROVE  entry'.owner = r /\ (young \/ late)
  BY DEF EntryOfTheBeating, Heartbeats
<1>0. /\ r \in Runs /\ r = agent.run /\ r \notin missed
      /\ entry'.age \in Nat /\ agent'.timer \in Nat
  BY StillBeating, MissedGrows, Numbers DEF TypeOK
<1>1. CASE RegisterBackendEntry(r)
  <2>1. entry'.owner = r /\ entry'.age = 0
    BY <1>1 DEF RegisterBackendEntry
  <2> QED BY <1>0, <2>1, Numbers
<1>2. CASE handler[r].at = "registered" /\ agent.at = "waiting"
  <2>1. PICK m \in net : ReceiveAck(m) /\ m.run = r
    BY <1>0, <1>2, StillBeating
  <2>2. agent'.timer = 0
    BY <1>2, StillBeating
  <2>3. entry' = entry /\ m.kind = "ack"
    BY <2>1 DEF ReceiveAck
  <2>4. entry.owner = r /\ entry.age <= m.age
    BY <1>0, <1>2, <2>1, <2>3 DEF EntryOfTheWaiting
  <2>5. m.age \in Nat /\ m.age <= MaxDelay
    OBVIOUS
  <2> QED BY <2>2, <2>3, <2>4, <2>5, Numbers
<1>3. CASE handler[r].at = "registered" /\ agent.at = "beating"
  <2>1. /\ entry.owner = r /\ entry # NoEntry /\ entry.age <= StaleThreshold
        /\ \/ entry.age <= agent.timer + MaxDelay
           \/ \E m \in Heartbeats(r) : entry.age <= HeartbeatInterval + MaxDelay + m.age
    BY <1>0, <1>3, YoungEntry
  <2>2. /\ entry'.owner = r
        /\ (Tick => entry'.age <= entry.age + 1) /\ (~Tick => entry'.age <= entry.age)
    BY <2>1, EntrySteps
  <2>3. entry.age \in Nat /\ agent.timer \in Nat /\ agent.timer <= HeartbeatInterval
    BY <1>3 DEF TypeOK
  <2>4. CASE Tick
    <3>1. agent'.timer = agent.timer + 1
      <4>1. agent'.timer = Later(agent.timer)
        BY <2>4, AgentTimer DEF Tick
      <4>2. agent.timer < Long
        BY <2>3, Numbers, HeartbeatsAssumption DEF Long
      <4> QED BY <4>1, <4>2 DEF Later
    <3>2. CASE entry.age <= agent.timer + MaxDelay
      BY <1>0, <2>2, <2>3, <2>4, <3>1, <3>2, Numbers
    <3>3. ASSUME NEW m \in Heartbeats(r), entry.age <= HeartbeatInterval + MaxDelay + m.age
          PROVE  late
      <4>1. m \in net /\ m.age \in Nat /\ m.kind = "heartbeat" /\ m.run = r
        BY DEF Heartbeats
      <4>2. [kind |-> "heartbeat", run |-> r, age |-> m.age + 1] \in net'
        <5>1. [m EXCEPT !.age = @ + 1] \in net'
          BY <2>4, <4>1 DEF Tick
        <5>2. m = [kind |-> m.kind, run |-> m.run, age |-> m.age]
          BY <4>1
        <5> QED BY <4>1, <5>1, <5>2
      <4>3. entry'.age <= HeartbeatInterval + MaxDelay + (m.age + 1)
        BY <1>0, <2>2, <2>3, <2>4, <3>3, <4>1, Numbers
      <4> QED BY <4>2, <4>3
    <3> QED BY <2>1, <2>2, <3>2, <3>3
  <2>5. CASE SendHeartbeat
    <3>1. ~Tick /\ agent.timer = HeartbeatInterval
      BY <2>5 DEF SendHeartbeat, Tick, Urgent
    <3>2. [kind |-> "heartbeat", run |-> r, age |-> 0] \in net' /\ net \subseteq net'
      BY <1>0, <2>5 DEF SendHeartbeat, Sent
    <3>3. CASE entry.age <= agent.timer + MaxDelay
      <4>1. entry'.age <= HeartbeatInterval + MaxDelay + 0
        BY <1>0, <2>2, <2>3, <3>1, <3>3, Numbers
      <4> QED BY <2>2, <3>2, <4>1
    <3>4. ASSUME NEW m \in Heartbeats(r), entry.age <= HeartbeatInterval + MaxDelay + m.age
          PROVE  late
      <4>1. m \in net' /\ m.age \in Nat /\ m.kind = "heartbeat" /\ m.run = r
        BY <3>2 DEF Heartbeats
      <4>2. entry'.age <= HeartbeatInterval + MaxDelay + m.age
        BY <1>0, <2>2, <2>3, <3>1, <3>4, <4>1, Numbers
      <4> QED BY <4>1, <4>2
    <3> QED BY <2>1, <2>2, <3>3, <3>4
  <2>6. CASE ~Tick /\ agent' = agent
    <3>1. CASE entry.age <= agent.timer + MaxDelay
      BY <1>0, <2>2, <2>3, <2>6, <3>1, Numbers
    <3>2. ASSUME NEW m \in Heartbeats(r), entry.age <= HeartbeatInterval + MaxDelay + m.age
          PROVE  young \/ late
      <4>1. m \in net /\ m.age \in Nat /\ m.kind = "heartbeat" /\ m.run = r
        BY DEF Heartbeats
      <4>2. CASE m \in net'
        <5>1. entry'.age <= HeartbeatInterval + MaxDelay + m.age
          BY <1>0, <2>2, <2>3, <2>6, <3>2, <4>1, Numbers
        <5> QED BY <4>1, <4>2, <5>1
      <4>3. CASE HandleUDPHeartbeat(m)
        <5>1. entry'.age = 0
          BY <2>1, <4>3 DEF HandleUDPHeartbeat
        <5> QED BY <1>0, <5>1, Numbers
      <4> QED BY <2>6, <4>1, <4>2, <4>3, HeartbeatSteps
    <3> QED BY <2>1, <2>2, <3>1, <3>2
  <2> QED BY <1>3, <2>4, <2>5, <2>6, StillBeating
<1>4. handler[r].at = "registered" \/ RegisterBackendEntry(r)
  BY <1>0, StillRegistered
<1>5. agent.at \in {"waiting", "beating"}
  BY StillBeating
<1> QED BY <1>1, <1>2, <1>3, <1>4, <1>5

-----------------------------------------------------------------------------
(***************************************************************************)
(* Nothing is registered, sent or due in the initial state.                *)
(***************************************************************************)
LEMMA InitBeatInv == Init => BeatInv
BY Numbers DEF Init, BeatInv, RunsInOrder, OneRequestPerRun, AckWithTheLookup, EntryOfTheWaiting,
               EntryOfTheBeating

(***************************************************************************)
(* A backend that registered and beats is never pruned, unless one of its  *)
(* heartbeats is lost, as long as the interval and two delays fit into the *)
(* threshold (udp_register.go:87, heartbeat_pruner.go:12).                 *)
(***************************************************************************)
THEOREM BeatingBackendsStay == Spec => []BeatingBackendStaysRegistered
<1>1. TypeOK /\ TypeOK' /\ BeatInv /\ [Next]_vars => BeatInv'
  BY NextRunInv, NextWaiting, NextBeating DEF BeatInv, RunInv
<1>2. BeatInv => BeatingBackendStaysRegistered
  BY DEF BeatInv, EntryOfTheBeating, BeatingBackendStaysRegistered
<1> QED BY <1>1, <1>2, InitBeatInv, TypeCorrect, PTL DEF Spec

-----------------------------------------------------------------------------
(* What is left of an agent that is down.                                  *)

(***************************************************************************)
(* An agent that is down has just stopped, or stays as it is.              *)
(***************************************************************************)
LEMMA StillDown ==
    ASSUME TypeOK, [Next]_vars, agent'.at = "down"
    PROVE  \/ agent'.timer = 0
           \/ /\ agent.at = "down"
              /\ IF Tick THEN agent'.timer = Later(agent.timer) ELSE agent' = agent
<1> USE Fields
<1>1. ASSUME AgentStops \/ AckTimesOut PROVE agent'.timer = 0
  BY <1>1 DEF AgentStops, AckTimesOut
<1>2. ASSUME AgentStarts PROVE FALSE
  BY <1>2 DEF AgentStarts
<1>3. ASSUME SendHeartbeat PROVE FALSE
  <2>1. agent'.at = agent.at /\ agent.at = "beating"
    BY <1>3, AgentTimer DEF SendHeartbeat
  <2> QED BY <2>1
<1>4. ASSUME Tick PROVE agent.at = "down" /\ agent'.timer = Later(agent.timer)
  BY <1>4, AgentTimer DEF Tick
<1>5. ASSUME NEW m \in net, ReceiveAck(m) PROVE agent' = agent
  BY <1>5 DEF ReceiveAck
<1>6. ASSUME NEW m \in net, ReceiveRegister(m) \/ HandleUDPHeartbeat(m) \/ Lose(m)
      PROVE  agent' = agent
  BY <1>6 DEF ReceiveRegister, HandleUDPHeartbeat, Lose
<1>7. ASSUME NEW r \in Runs,
             ArpMisses(r) \/ GiveUp(r) \/ RegisterBackendEntry(r) \/ AlreadyExists(r)
      PROVE  agent' = agent
  BY <1>7 DEF ArpMisses, GiveUp, RegisterBackendEntry, AlreadyExists
<1>8. ASSUME Prune \/ UNCHANGED vars PROVE agent' = agent
  BY <1>8 DEF Prune, vars
<1> QED
  BY <1>1, <1>2, <1>3, <1>4, <1>5, <1>6, <1>7, <1>8 DEF Next

(***************************************************************************)
(* The entry is refreshed by a heartbeat, filled by a handler, emptied by  *)
(* the pruner, or ages.                                                    *)
(***************************************************************************)
LEMMA EntryChanges ==
    ASSUME TypeOK, [Next]_vars, ~Tick, ~Prune
    PROVE  /\ pruner' = pruner
           /\ \/ entry' = entry
              \/ \E m \in net : HandleUDPHeartbeat(m) /\ entry'.age = 0
              \/ \E r \in Runs : RegisterBackendEntry(r) /\ entry'.age = 0
<1> USE Fields
<1>1. ASSUME NEW m \in net, HandleUDPHeartbeat(m)
      PROVE  pruner' = pruner /\ (entry' = entry \/ entry'.age = 0)
  BY <1>1 DEF HandleUDPHeartbeat
<1>2. ASSUME NEW r \in Runs, RegisterBackendEntry(r) PROVE pruner' = pruner /\ entry'.age = 0
  BY <1>2 DEF RegisterBackendEntry
<1>3. ASSUME NEW m \in net, ReceiveRegister(m) \/ ReceiveAck(m) \/ Lose(m)
      PROVE  pruner' = pruner /\ entry' = entry
  BY <1>3 DEF ReceiveRegister, ReceiveAck, Lose
<1>4. ASSUME NEW r \in Runs, ArpMisses(r) \/ GiveUp(r) \/ AlreadyExists(r)
      PROVE  pruner' = pruner /\ entry' = entry
  BY <1>4 DEF ArpMisses, GiveUp, AlreadyExists
<1>5. ASSUME AgentStarts \/ AgentStops \/ AckTimesOut \/ SendHeartbeat \/ UNCHANGED vars
      PROVE  pruner' = pruner /\ entry' = entry
  BY <1>5 DEF AgentStarts, AgentStops, AckTimesOut, SendHeartbeat, vars
<1> QED
  BY <1>1, <1>2, <1>3, <1>4, <1>5 DEF Next

(***************************************************************************)
(* A handler looks up the MAC because of a request, and in no time.        *)
(***************************************************************************)
LEMMA StillLookingUp ==
    ASSUME TypeOK, [Next]_vars, NEW r \in Runs, LookingUp(r)'
    PROVE  (LookingUp(r) /\ ~Tick) \/ \E m \in net : ReceiveRegister(m)
<1> USE Fields
<1>1. ASSUME Tick PROVE FALSE
  BY <1>1 DEF Tick, Urgent, LookingUp
<1>2. ASSUME NEW m \in net, ReceiveAck(m) \/ HandleUDPHeartbeat(m) \/ Lose(m)
      PROVE  LookingUp(r)
  BY <1>2 DEF ReceiveAck, HandleUDPHeartbeat, Lose, LookingUp
<1>3. ASSUME NEW q \in Runs,
             ArpMisses(q) \/ GiveUp(q) \/ RegisterBackendEntry(q) \/ AlreadyExists(q)
      PROVE  LookingUp(r)
  BY <1>3 DEF ArpMisses, GiveUp, RegisterBackendEntry, AlreadyExists, LookingUp
<1>4. ASSUME AgentStarts \/ AgentStops \/ AckTimesOut \/ SendHeartbeat \/ Prune
                \/ UNCHANGED vars
      PROVE  LookingUp(r)
  BY <1>4 DEF AgentStarts, AgentStops, AckTimesOut, SendHeartbeat, Prune, vars, LookingUp
<1> QED
  BY <1>1, <1>2, <1>3, <1>4 DEF Next

(***************************************************************************)
(* DeadInv is kept: what refreshes or fills the entry of a dead agent was  *)
(* on its way when it stopped.                                             *)
(***************************************************************************)
LEMMA NextDeadInv ==
    ASSUME TypeOK, TypeOK', DeadInv, [Next]_vars
    PROVE  DeadInv'
<1> USE Fields DEF DeadInv
<1>0. /\ agent'.timer \in Nat /\ entry'.age \in Nat
      /\ agent.timer \in Nat /\ entry.age \in Nat /\ pruner \in Nat
      /\ \A m \in net' : m.age \in Nat
  BY Numbers DEF TypeOK
<1>1. EntryYoungerThanRound'
  <2>1. CASE Tick
    <3>1. entry'.age = Later(entry.age) \/ entry'.age = 0
      BY <2>1 DEF Tick, NoEntry
    <3>2. pruner' = pruner + 1
      BY <2>1 DEF Tick
    <3>3. Later(entry.age) <= entry.age + 1
      BY LaterFacts
    <3> QED BY <1>0, <3>1, <3>2, <3>3, Numbers DEF EntryYoungerThanRound
  <2>2. CASE Prune
    <3>1. pruner' = 0 /\ entry'.age <= StaleThreshold
      BY <2>2, Numbers DEF Prune, Stale, NoEntry
    <3> QED BY <1>0, <3>1, Numbers DEF EntryYoungerThanRound
  <2>3. CASE ~Tick /\ ~Prune
    <3>1. pruner' = pruner /\ (entry' = entry \/ entry'.age = 0)
      BY <2>3, EntryChanges
    <3> QED BY <1>0, <3>1, Numbers DEF EntryYoungerThanRound
  <2> QED BY <2>1, <2>2, <2>3
<1>2. CASE agent'.at # "down" \/ agent'.timer = 0
  BY <1>0, <1>1, <1>2, Numbers DEF PacketsOfTheDead, LookupsOfTheDead, EntryOfTheDead
<1>3. CASE /\ agent'.at = "down" /\ agent.at = "down"
           /\ IF Tick THEN agent'.timer = Later(agent.timer) ELSE agent' = agent
  <2>1. Later(agent.timer) <= agent.timer + 1
    BY LaterFacts
  <2>2. PacketsOfTheDead'
    <3> SUFFICES ASSUME NEW m \in net', m.kind # "ack"
                 PROVE  agent'.timer <= m.age
      BY DEF PacketsOfTheDead
    <3>1. CASE m \in net /\ ~Tick
      BY <1>3, <3>1 DEF PacketsOfTheDead
    <3>2. CASE Tick
      <4>1. PICK n \in net : m.kind = n.kind /\ m.age = n.age + 1
        BY <3>2, PacketSteps
      <4>2. agent.timer <= n.age /\ n.age \in Nat
        BY <1>3, <4>1 DEF PacketsOfTheDead
      <4>3. agent'.timer <= agent.timer + 1
        BY <1>3, <2>1, <3>2
      <4> QED BY <1>0, <4>1, <4>2, <4>3
    <3>3. CASE m \notin net /\ ~Tick
      <4>1. SendHeartbeat \/ AgentStarts
        BY <3>3, PacketSteps
      <4> QED BY <1>3, <4>1 DEF SendHeartbeat, AgentStarts
    <3> QED BY <3>1, <3>2, <3>3
  <2>3. LookupsOfTheDead'
    <3> SUFFICES ASSUME NEW r \in Runs, LookingUp(r)'
                 PROVE  agent'.timer <= MaxDelay
      BY DEF LookupsOfTheDead
    <3>1. CASE LookingUp(r) /\ ~Tick
      BY <1>3, <3>1 DEF LookupsOfTheDead
    <3>2. ASSUME NEW m \in net, ReceiveRegister(m) PROVE agent'.timer <= MaxDelay
      <4>1. agent' = agent /\ m.kind # "ack"
        BY <3>2 DEF ReceiveRegister
      <4>2. agent.timer <= m.age /\ m.age \in Nat /\ m.age <= MaxDelay
        BY <1>3, <4>1 DEF PacketsOfTheDead
      <4> QED BY <1>0, <4>1, <4>2, Numbers
    <3> QED BY <3>1, <3>2, StillLookingUp
  <2>4. EntryOfTheDead'
    <3> SUFFICES ASSUME entry' # NoEntry
                 PROVE  agent'.timer <= entry'.age + MaxDelay
      BY DEF EntryOfTheDead
    <3>1. CASE entry' = entry /\ ~Tick
      BY <1>3, <3>1 DEF EntryOfTheDead
    <3>2. CASE Tick
      <4>1. entry # NoEntry /\ entry'.age = Later(entry.age)
        BY <3>2 DEF Tick
      <4>2. agent'.timer = Later(agent.timer) /\ agent.timer <= entry.age + MaxDelay
        BY <1>3, <3>2, <4>1 DEF EntryOfTheDead
      <4> QED BY <1>0, <4>1, <4>2, Numbers DEF Later
    <3>3. ASSUME NEW m \in net, HandleUDPHeartbeat(m), ~Tick
          PROVE  agent'.timer <= MaxDelay
      <4>1. agent.timer <= m.age /\ m.age \in Nat /\ m.age <= MaxDelay
        BY <1>3, <3>3 DEF PacketsOfTheDead, HandleUDPHeartbeat
      <4> QED BY <1>0, <1>3, <3>3, <4>1, Numbers
    <3>4. ASSUME NEW r \in Runs, RegisterBackendEntry(r), ~Tick
          PROVE  agent'.timer <= MaxDelay
      BY <1>3, <3>4 DEF LookupsOfTheDead, RegisterBackendEntry
    <3>5. CASE Prune /\ ~Tick
      <4>1. entry' = entry
        BY <3>5 DEF Prune
      <4> QED BY <3>1, <3>5, <4>1
    <3> QED BY <1>0, <3>1, <3>2, <3>3, <3>4, <3>5, EntryChanges, Numbers
  <2> QED BY <1>1, <2>2, <2>3, <2>4
<1> QED BY <1>2, <1>3, StillDown

(***************************************************************************)
(* Initially the agent is down, and has left nothing.                      *)
(***************************************************************************)
LEMMA InitDeadInv == Init => DeadInv
BY Numbers DEF Init, DeadInv, EntryYoungerThanRound, PacketsOfTheDead, LookupsOfTheDead,
               EntryOfTheDead, LookingUp, NoEntry

(***************************************************************************)
(* The entry of an agent that has stopped is gone after a delay, the       *)
(* threshold and one round of the pruner, whatever of the agent was still  *)
(* on its way (heartbeat_pruner.go:23-33, registry.go:144).                *)
(***************************************************************************)
THEOREM DeadBackendsArePruned == Spec => []DeadBackendIsPruned
<1>1. TypeOK /\ TypeOK' /\ DeadInv /\ [Next]_vars => DeadInv'
  BY NextDeadInv
<1>2. TypeOK /\ DeadInv => DeadBackendIsPruned
  <2> SUFFICES ASSUME TypeOK, DeadInv, agent.at = "down", entry # NoEntry
               PROVE  agent.timer <= MaxDelay + StaleThreshold + PruneInterval
    BY DEF DeadBackendIsPruned
  <2>1. agent.timer <= entry.age + MaxDelay /\ entry.age <= StaleThreshold + pruner
    BY DEF DeadInv, EntryOfTheDead, EntryYoungerThanRound
  <2>2. pruner \in Nat /\ pruner <= PruneInterval
    BY Numbers DEF TypeOK
  <2>3. agent.timer \in Nat /\ entry.age \in Nat
    BY Fields
  <2> QED BY <2>1, <2>2, <2>3, Numbers
<1> QED BY <1>1, <1>2, InitDeadInv, TypeCorrect, PTL DEF Spec
=============================================================================
