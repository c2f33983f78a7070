# Verification of the XDP load balancer

The repository is an L4 load balancer: two XDP programs (`xdp_forward.c`,
`xdp_return.c`) move packets between clients and backends, and a control plane
in Go registers backends, watches them, and writes them into the BPF maps the
XDP programs read. This directory holds TLA+ models of both halves, the TLC
configurations that check them on small instances, and TLAPS proofs of what
holds for every instance. Paths below are relative to
`lib/control-plane/` unless they start with `benchmarks/`.

## 1. The system

| Part | State it keeps | Operations |
|---|---|---|
| `registry` | `backends`: IP -> entry (pool, port, score, last seen, MAC); two lists of hooks | RegisterBackendEntry, UpdateLoadScore, Remove, Listify, HandleUDPHeartbeat, RemoveStaleUDPBackend |
| `httplistener` | none; a goroutine per request | POST /register: ARP lookup, register as TCP, answer |
| `udplistener` | none; a goroutine per packet | REGISTER: ACK, up to 5 ARP lookups, register as UDP; HEARTBEAT: refresh last seen |
| `healthpoller` | `failCounts`: IP -> consecutive failures | every 5 s poll each TCP backend in a goroutine, wait for all; 3 failures remove the backend, an answer updates its score |
| `heartbeatpruner` | none | every 5 s remove the UDP backends not heard of for 15 s |
| `bpfloader` | `slotMap`: pool and IP -> slot; the BPF maps `tcp_pool`, `udp_pool`, `pool_meta` | SetBackend, UpdateBackendLoadScore; configuration and attachment at start |
| `main.go` | none | start-up, the hooks that call the loader, a report loop |
| `xdp_forward` | `{tcp,udp}_conntrack_forward`, `_reverse` | pick or recall a backend, insert both entries, rewrite the destination, redirect |
| `xdp_return` | none (reads the reverse conntrack) | rewrite the source of a reply to the VIP, redirect |
| agents (`benchmarks/*_register.go`) | none that matters | start, register until told so, answer polls or send heartbeats, stop |

How they interact. The listeners call the registry, which calls the OnRegister
hook, which calls `SetBackend`, all in the goroutine of the request. The poller
calls `UpdateLoadScore`, which calls the OnLoadScoreUpdate hook, which calls
`UpdateBackendLoadScore`, in the goroutine of the poll. Poller and pruner
remove backends from the registry; **nothing ever removes one from the BPF
pools** (`loader.go:196`). The XDP programs read the pools and keep conntrack;
they share the maps with the loader and nothing else.

What is hard. The registry lock is released before hooks run, and the loader
holds no lock across its system calls, so each of them interleaves with all
others. Conntrack remembers slots, so a slot must not change hands. A score
update can be lost, and is repaired only by a later poll. Polls fail, agents
die and come back, pools and conntrack fill up, and map inserts fail. Packets of
UDP agents are lost and late, and an agent hears of its registration once, by
an ACK that is sent before it. The control plane may be restarted under
running flows. Checksums are updated by hand, in two programs that do it
differently, and ports are kept in two byte orders. The list of hazards in
`PROJECT.json` names each of these at its line, with the properties that watch it.

What makes the parts correct:

- loader: every active slot holds a backend; the slot recorded for a backend is
  its own; a slot never changes its backend; scores change nothing else;
- registry, poller and pruner: a polled backend is removed by its own poll
  only; failures do not outlive the backend; a registered backend can be picked
  by the data plane; a dead one is removed; scores reach the pool;
- UDP registration and pruner: a backend that registered and whose heartbeats
  arrive stays registered; one that stopped is gone within a known time;
- data plane: a flow has one backend and keeps it; a packet in mid-flow goes
  only where the SYN went; a reply comes from the address the client sent to;
- rewriting: a checksum is right after it exactly if it was before; a datagram
  without one stays without; addresses and ports come out in network order.

## 2. The modules

```
PoolSpec            what a pool promises to its readers (abstract)
   ^ implemented by                    ^ INSTANCE: the pools as readers see them
Loader              SetBackend,     DataPlane     xdp_forward, xdp_return: conntrack
   ^ INSTANCE       UpdateBackend-  Rewrite       the same programs: bytes of a packet
ControlPlane        LoadScore       UdpBackend    one UDP agent, listener, pruner; time
   ^ EXTENDS
FailureHistory      adds a history of failed polls to ControlPlane

System              EXTENDS Loader, INSTANCE DataPlane: the programs on the loader's maps;
                    implements DataPlane
MCControlPlane, MCFailureHistory, MCDataPlane, MCRewrite, MCSystem      small sets for TLC

LoaderProofs            EXTENDS Loader: proofs about any interleaving (Spec)
LoaderRefinement        EXTENDS LoaderProofs: proofs about SpacedSpec, and of PoolSpec
ControlPlaneProofs      EXTENDS FailureHistory: proofs for any number of handlers,
                        through LoaderProofs
ControlPlaneRefinement  EXTENDS it: proofs for one handler, through LoaderRefinement
SystemProofs            EXTENDS System, LoaderRefinement: any interleaving, and of DataPlane,
                        through DataPlaneProofs
DataPlaneProofs, UdpBackendProofs, RewriteProofs      EXTEND the module they are named after
```

**Loader.** `poolMap`, `poolMeta` are the BPF maps, `slotMap` is the Go map (its
string key `"pool:ip"` is a pair here), `op[t]` says how far goroutine `t` is in
its loader call, with the locals it carries on. One action is one system call
or one critical section of `slotMu`: `SetLookupCount`, `SetUpdateEntry` or
`SetPoolFull`, `SetUpdateCount`, `SetRecordSlot`, and `ScoreFindSlot` or
`ScoreNoSlot`, `ScoreLookupEntry`, `ScoreUpdateEntry`. A pool entry is an IP and
a score: port and MAC are written together with the IP and never alone. A
system call fails only where the code makes it possible: an index beyond the
array. There are two specifications. `Spec` lets any number of goroutines call
at any moment, as the code does. `SpacedSpec` lets `SetBackend` start only when no
other is in progress for the same pool; nothing in the code ensures this, but
`benchmarks/setup_backends.sh:117` starts its agents 0.2 s apart. Score updates are
unrestricted in both.

**PoolSpec.** For each pool an append-only list of members, of at most
`Capacity`, in which only scores change. `Loader!ActiveMembers` is the refinement
mapping: the entries below the active count. A member appears at the step that
writes the count.

**ControlPlane.** `backends` and `failCounts` are the two Go maps; `poll[ip]` is
the goroutine of a poll (fetching, answered, in the hook); `req[h]` is the request
goroutine `h` serves; `up[ip]` is the environment's: whether the agent runs. It
takes the loader's four variables and actions through `L == INSTANCE Loader`, with
handlers and polls as the goroutines. A critical section of `Registry.mu` or
`Poller.failsMu` is one action (`recordFailure` removes the backend while it
holds `failsMu`: one action too), and a hook is the loader call that the same
action starts; the goroutine is then inside the loader, one step at a time.
`PollAll` starts a round only when no poll of the last one is left (`wg.Wait`).
Time is abstracted: tickers fire at any moment, a poll may fail at any moment,
and the pruner may find any set of UDP backends stale, so that what holds here
holds whatever the timers do. An agent may register at any moment it is up,
for either protocol, also again.

**FailureHistory.** ControlPlane and one variable more, `failedInARow`, which no action
reads: how many fetches have failed since the backend registered or last answered. It
is computed from what happens to `backends` and to the polls (`Observe`), and knows
nothing of `failCounts`, whose raising, clearing and deleting are spread over three
critical sections. That both agree is what `RemovedByTheLastFailure` says: a TCP
backend is removed by the third failure in a row, not by an earlier or a later one.

**DataPlane.** `fwd` and `rev` are the forward and reverse conntrack, `members` the
pools as `PoolSpec` describes them, `cpu[c]` the packet that CPU `c` processes
and how far. Every map access of `xdp_forward` and `handle_udp_forward` that can
matter is an action: lookup (`CtHit`, `CtMiss`, `DropOrphan`), pick
(`PickBackend`, `PassNoBackend`), the two inserts, and the redirect. The reads of
the count and of the two candidates are one action: a pool only grows and both
draws are random (two equal draws included), so reading them at different
moments gives no further outcome, which System checks and proves. `xdp_return`
reads conntrack once and is one action. An insert into a full LRU map evicts any other key, because the kernel's
LRU is approximate, and with `InsertMayFail` an insert may fail. A client stands
for its address and port, a backend for its address and port. `CpuOf` is
receive-side scaling: packets of one flow are processed by one CPU. `serves` and
`reply` are the environment's: which backend has state for which client, and
the reply that left last. Packets that are malformed, not for the VIP, or for
the load balancer itself change nothing and are left out, like counters and MAC
addresses. With `MayRestart` the control plane may be restarted (`Restart`): `New`
loads new maps and pins none, so pools and conntrack are empty, the slots are
numbered anew, and clients and backends go on as before. A restart finds no
program running, because the kernel frees a program and its maps only then.

**System.** The two halves on the same maps. It EXTENDS Loader, so `poolMap`, `poolMeta`,
`slotMap` and `op` are the loader's; `fwd`, `rev`, `cpu`, `serves`, `reply` are
DataPlane's; `draw[c]` is what CPU `c` has read while it picks a backend. DataPlane's
`PickBackend` is taken apart into what the program does: `FindNoBackend` or `DrawSlots`
reads the count (the code reads it twice, and a count that is not 0 stays so, by
`LoaderProofs!CountStaysPositive`), `ReadScore` one candidate's score at a time,
`ChooseSlot` decides, and the steps after it read the entry by themselves, each when it
needs the address. These are
DataPlane's own actions through `Xdp == INSTANCE DataPlane WITH members <- PoolArrays`: the
arrays as they are, beyond the active count too. The other instance,
`AbstractDataPlane`, has `members <- ActiveMembers`, the entries below the count, and is
the specification to implement. `SystemSpec` lets goroutines call the loader at any
moment, `SpacedSystemSpec` as Loader's `SpacedSpec` does. Restarts are left to DataPlane.

**UdpBackend.** One UDP agent and all that keeps it registered, with time.
`agent` is the control loop of `udp_register.go`, waiting for the ACK or beating, with
its timer; `net` the packets on their way, which may be late by `MaxDelay`, overtake
each other, or be lost; `handler[run]` the goroutine that serves a REGISTER, with its
five lookups; `entry` the registry's entry for the agent's IP, with the age of
`LastSeen`; `pruner` the time since its ticker fired. The agent may stop at any moment
and be started again; a run has its own socket (an ephemeral port), so an ACK for
an earlier run reaches nobody, while a heartbeat is matched by the IP only
(`registry.go:132`). The ACK leaves when the REGISTER arrives, before the lookups.
An existing entry stays as it is (`registry.go:49`). Time passes in `Tick`, which
waits for what is due (`Urgent`): a ticker, a deadline, a packet that is as late as
it may be, a handler that is looking up (100 ms at most, and no unit of time).
The entry's `owner` is the run that made it, which only the properties read. UDP
packets are not duplicated: a second REGISTER of a run would find the entry.

**Rewrite.** What both programs do to the bytes of one packet after another: a
request through `Forward`, a reply through `Return`, or either passed on to the kernel.
A word is two bytes of `Byte` values; `packet` holds what the programs load on a
little-endian machine from fields in network byte order, and `Swap`, `Load` and `OnWire`
translate. `csum_replace_u16`, `_u32` (`xdp_forward.c`) and `csum_replace16`, `32`
(`xdp_return.c`) are the four incremental updates, with the loop of the one file
and the two folds of the other. `FoldAll` is a recursive function, not an operator,
so that it can be proved about. The rest of a header or segment is one word,
`rest`, because one's complement sums do not tell its words apart. Packets arrive
with any checksum, right or wrong. Of conntrack it keeps only the reverse entry
made last.

## 3. The runs

| Run | Instance | Shows |
|---|---|---|
| `system_race` | `SystemSpec`; the UDP pool of 3 slots, 1 IP, 3 goroutines, a flow; inserts may fail | `TypeOK`, `ActiveSlotsPopulated`, `ScoreKeepsABackend` of Loader; `SystemTypeOK`, `SlotsInUsePopulated` |
| `system` | `SpacedSystemSpec`; the TCP pool of 2 slots, 2 IPs, 2 goroutines, scores 0 and 1, a flow | `RecordedSlotIsOwn`, `ImplementsPool` of Loader; `AddressStaysWhileHeld`, `ImplementsDataPlane` |
| `control_plane` | `HistorySpec`; 2 IPs, 1 handler, both pools of 2 slots, removal at 3 failures | `TypeOK`, `PolledStaysRegistered`, `FailuresDieWithTheBackend`, `RegisteredBackendIsActive`, `ScoreGoesToItsBackend`, `RemovedByTheLastFailure` |
| `control_plane_live` | `FairSpec`; 2 IPs, 1 handler, 1 slot, removal at 2 failures | `DeadBackendIsRemoved`, `ScoreReachesPool`, `CallsLoaderSpaced` |
| `slot_race` | as `control_plane`, 2 handlers | violates `RegisteredBackendIsActive` |
| `score_race` | as `control_plane`, 2 handlers | violates `ScoreUpdateChangesScoreOnly` |
| `data_plane` | a TCP and a UDP flow, 2 backends, 2 CPUs, scores 0 and 1, conntrack never full | `TypeOK`, `RepliesAreRewritten`, `RepliesComeFromVIP`, `OneBackendPerFlow` |
| `data_plane_evict` | 2 TCP flows, conntrack of 1 entry, inserts may fail, restarts | `NoStateNoForward`, `FlowKeepsBackend` |
| `data_plane_ports` | 2 TCP flows to two ports of the VIP | violates `ForwardKeysNameVIPPort` |
| `udp_backend` | 2 runs of the agent, 2 losses, delays up to 1 unit of 2.5 s, the code's intervals | `TypeOK`, `BeatingBackendStaysRegistered`, `DeadBackendIsPruned` |
| `udp_ack` | the same | violates `AckedBackendIsRegistered` |
| `rewrite` | bytes of 4 values (words of 16), 1 client, 2 backends, every checksum and every `rest` | `TypeOK`, `WireNamesBothEnds`, `HeaderKeepsVerdict`, `SegmentKeepsVerdict`, `UncheckedStaysUnchecked` |

Each property's comment in its module says in words what it means and which code
it is about. Every property of a passing run has a mutant in `PROJECT.json`: a
plausible bug, written next to the definition it replaces, under which the same
run finds the property violated.

**Why the bounds are enough.** In `system_race` three goroutines let a third one act
between the two that race, which takes the count back by two below a slot that was
drawn from it; a pool of three slots is filled, and overrun, by one backend that
registers repeatedly, and whether an entry is populated does not depend on whose it
is. Under UDP a pick has one draw; the second draw of TCP, with its scores, is in `system`,
where an address that changes or a score that is lost shows, with two backends and
two scores. Nothing in the loader relates two pools but the key of `slotMap`. Both pools
are in `control_plane`, where a backend may be in one, then in the other, then in both:
`ScoreGoesToItsBackend` says there that a score update has a slot of the pool it was
called for, with the backend that was polled in it, from its lookup to its write. A mutant
that drops the pool from the key is found. Both
`system` runs take goroutines and backends as symmetric: nothing in the modules tells them apart,
and no property is about liveness. In the control
plane two backends are needed for the barrier between rounds and for a race for
a slot; the third failure is the first that removes with the code's constant, and
two are enough to tell counting from not counting in the liveness run. In the
data plane the shared states are a slot, a conntrack key and a full map, and two
flows, two backends and a map of one entry meet in each. `data_plane_evict` takes
the two backends as symmetric; its properties are about steps and are safety
properties, and nothing in the module tells one backend from another.

In `udp_backend` a unit is 2.5 s, the largest that divides the code's 10, 5, 5 and
15 s. The second run of the agent meets what the first has left: an entry, late
packets, a handler; the second loss is needed to lose a heartbeat after an ACK
or a REGISTER was. `HeartbeatsAssumption`, `HeartbeatInterval + 2 * MaxDelay <=
StaleThreshold`, is what the code's numbers leave to the network: 2.5 s, met with
equality in the run. Time can always go on: what `Tick` waits for is enabled when
it is due (deadlock is checked, and every cycle of other actions uses up runs,
losses, lookups or packets).

In `rewrite` a byte of four values has words in which both bytes matter, sums of
five words with a carry of up to 4, and every combination of old checksum and
payload. One client and two backends are the ends of a flow and of the one before.

**Fairness** (`ControlPlane!FairSpec`): weak fairness of every goroutine's next step,
of the poll ticker, and of the end of a fetch (`http.Client` has a timeout of 2 s).
The Go scheduler is preemptive and every lock is held for a bounded time, so no
goroutine that can go on is put off for ever. Nothing is assumed of agents, of
requests, of the pruner, or of which way a fetch ends: a fetch from an agent that
is down can only fail, one from an agent that is up may do either.

**Deadlock** is checked in every run: an idle control plane can always get a request
and an idle data plane a packet, so no state without a successor is expected. In
`udp_backend` it also shows that no timer holds time up for ever.

## 4. What the code does not do

- *Two registrations at once* (`slot_race`): both read the same count and write the
  same slot. Both backends are registered, both agents are told so, and one of them
  is in no slot. The comment at `bpfloader/loader.go:193` promises "the next available
  slot". With one handler `RegisteredBackendIsActive` holds.
- *A score update during a registration* (`score_race`): the comment at
  `bpfloader/loader.go:289` calls it fine, as only the score is changed. The whole entry
  is written back, and after a race for its slot it may be another backend's.
- *Ports* (`data_plane_ports`): the comment at `bpf/xdp_forward.c:93` says the key holds
  the VIP's port. It holds whatever port the packet was sent to, and `xdp_return`
  answers from `vip_tcp_port`.

- *The ACK* (`udp_ack`): `benchmarks/udp_register.go:85` logs it as "Registration ACK
  received successfully!". The listener sends it first, and then looks for a MAC
  five times and gives up without a word. The agent beats, the registry ignores it
  (`registry.go:141`), and nothing ever registers it. This is the trace of the run.
  There is a second way to the same end that the run does not show, since TLC stops at
  the first: an agent restarted within 15 s finds the entry of its former run,
  which `RegisterBackendEntry` does not refresh, and the pruner removes it before the
  first heartbeat. `AlreadyExists`, `Prune` and `HandleUDPHeartbeat` have these steps;
  no property is about them, because nothing in the code works against them.

`ActiveSlotsPopulated` and `ScoreKeepsABackend` hold in spite of the first two:
what the data plane reads is always some backend. The exception in
`RegisteredBackendIsActive`, a full pool, is the code's: the registry and the
agent do not learn that `SetBackend` failed.

An entry of `/proc/net/arp` that the kernel has not completed has an all-zero MAC, which
`getMACFromARP` takes for an answer (`udp_listener.go:69`, and the same in the HTTP
listener): such a backend is registered with a MAC that no frame reaches. `ArpMisses`
stands for a table without the entry, and MAC addresses are not modelled, so no
property is about this.

`RepliesAreRewritten` is checked only where conntrack never fills up and the control
plane is not restarted. The code promises nothing where it does or is: forward
and reverse entries are evicted independently, a forward hit does not insert the
reverse entry again, and a restart forgets both.

`BeatingBackendStaysRegistered` excepts a backend that has lost a heartbeat: 15 s
have no room for two intervals of 10 s. The mutant `StaleAtThreshold` shows that it
is tight: with `<=` for the strict comparison of `registry.go:151`, a first heartbeat
as late as the assumption allows comes too late.

## 5. What is proved

All proofs hold for every value of the constants, from the assumptions that
each module names. For the control plane they are that `Capacity` and
`MaxConsecutiveFails` are positive integers, `None` is not an IP, and no handler is
named like a poll's goroutine (the IP). Every property of a passing run is
proved but the two liveness properties, with one handler where the run has one.

**LoaderProofs**, about `Spec`. `TypeCorrect`: `Spec => []TypeOK`.
`ActiveSlotsArePopulated` and `ScoresKeepBackends` need more than their
statements: an active slot is populated only because a goroutine that is about
to write the count has written its entry, and because counts never pass a slot
nobody has written. The inductive invariant `PopulatedInv` says so: it adds
that every slot up to the one a goroutine read the count for is populated, that
the slots in `slotMap` are populated, and that an entry about to be written back
names a backend. It survives a count that goes backwards, because no entry is
ever emptied. One step per action shows it inductive.

**LoaderRefinement**, about `SpacedSpec`. `RecordedSlotsAreOwn` and
`PoolMapsImplementPool` rest on `SpacedInv`: while a `SetBackend` is in progress in
a pool, the count is still what it read (or, after the write of the count, one
more), the slot it fills is its own, and what a score update has read of a slot
still has the IP the slot has. The refinement shows `Init` to be `PoolSpec!Init`
under the mapping, `SetUpdateCount` to be `Add`, `ScoreUpdateEntry` to be `SetScore`
(or a stutter, when the score is the same), and every other step a stutter.

**SystemProofs.** The loader in System behaves as Loader (`SystemIsLoader`), so all of the
above holds in it. Under any interleaving, `SystemTypeCorrect` and `PacketsFindBackends`
rest on `SystemInv`. What one would like to say, that a slot in use is below the count, is
false: a slow `SetBackend` takes the count back after a packet has drawn a slot. What
remains true is that the slot is populated. `InUsePopulated` says it of the slots of flows, of
packets and of draws (`InUse`), on top of the loader's `PopulatedInv`. Two facts make it
inductive: a step of a packet puts no slot to use but those in use already or below the count
(`SlotsFromCount`, one lemma per group of actions, through `OneCPU`), and a step of the
loader empties no slot (`PopulatedStays`, from LoaderProofs).

Under `SpacedSystemSpec` the count never goes back, so a slot in use is an active one
(`InUseActive`), and by LoaderRefinement the address in it stays: `AddressesStayWhileHeld`.
`AddressStaysWhileHeld` fails under `SystemSpec`, by the race that `slot_race` shows.
`SystemImplementsDataPlane` is the refinement. A step of the loader is a change of the
pool or a stutter, by LoaderRefinement's `StepRefines`. Drawing and reading scores stutter.
`ChooseSlot` is DataPlane's `PickBackend` with both draws equal to the slot chosen: the
two scores were read at two moments, and at neither need the choice be the less loaded
one, so nothing is promised of it. The other steps are the same in both, because the
entry in a slot in use is that of the member (`SameEndpoint`). With `DP == INSTANCE
DataPlaneProofs`, this gives the promises of DataPlane for the programs on the arrays they
really read: `SystemKeepsBackends`, `SystemDropsOrphans`, and, under the hypotheses
that DataPlaneProofs names, `SystemRewritesReplies`, `SystemServesFlowsOnce` and
`SystemRepliesNameVIP`.

**ControlPlaneProofs**, for any number of handlers. `PolledBackendsStayRegistered`
and `FailuresDieWithBackends` hold together as `PollInv`: a failure is counted by the
poll of a backend that is still registered as TCP, because every way to remove
one is either that poll's own, which also deletes the count, or the pruner's,
which takes UDP backends only. The typing it needs is that of the registry and
of requests. With it, `HooksCallLoader` shows every step of the control plane to
be a call of the loader, a step of one, or no step of the loader at all, and
`P == INSTANCE LoaderProofs` then gives the loader's types, hence `TypeCorrect`, and
`PickedSlotsHoldBackends`: with any number of handlers, every slot that xdp_forward
may pick holds a backend. `RemovedByTheLastFailureOnly` is about `HistorySpec`. The
invariant behind it, `HistoryInv`, is that the history of a backend and its `failCounts`
are equal, except between an answer and `recordSuccess`, when the history is 0 already
and the count is not yet cleared (`Counted`). Nothing can go wrong in that time, because
the goroutine that will clear the count is the only one that could raise it.

**ControlPlaneRefinement**, for one handler (`OneHandler` is a hypothesis of each
theorem, not an assumption of the module). `LoaderIsCalledSpaced`: the loader's part
of every behaviour is a `SpacedSpec` behaviour, because polls are never inside
`SetBackend` (`PollsOnlyScore`) and the handler calls it only when idle. This lets the
proofs about the loader be used here, through `R == INSTANCE LoaderRefinement` with
handlers and polls as threads: `PoolsAreAppendOnly` says that the pools the control
plane fills implement `PoolSpec`, which DataPlane takes for granted, so the chain
from the registry to the data plane is closed for registrations that do not
overlap. `RegisteredBackendsAreActive` adds to `SpacedInv` that a registered backend
is in an active slot, or in a full pool, or in a `SetBackend` on its way
(`PlacedInv`); the steps that end a `SetBackend` leave one of the first two, as the
slot it owns is the first inactive one. `ScoresGoToTheirBackends` adds that polls call the
loader for the TCP pool with their own IP (`ScoresOwn`); that the slot they found is
theirs, and stays so, is `SpacedInv`. `ScoreUpdatesChangeScores` is the property
that `score_race` violates with two handlers.

**DataPlaneProofs.** `OrphansReachNobody` and `FlowsKeepBackends` hold with evictions,
failed inserts and restarts. They rest on `TrackInv`: a remembered slot, and the slot
of a packet on its way, lie in the pool, and a backend that conntrack names for a
TCP flow, or that a mid-flow packet is about to be sent to, serves the client
or is just being sent the SYN by the one CPU that processes the flow. Without that CPU
(`CpuOfAssumption`) another one could find the entry before the SYN has left. The
other three properties have hypotheses, stated in each theorem. `Undisturbed`:
conntrack has room for all flows and all endpoints, inserts succeed, and nobody
restarts. `RepliesFindTheirEntry` needs only this, by `RewriteInv` (a packet about to
leave has its reverse entry). `FlowsHaveOneBackend` adds `DistinctClients`, one flow per
client and protocol, and `RepliesNameTheVIP` adds `FlowsToVIP`, which excludes what
`data_plane_ports` shows; both use `KnownInv` (what serves is what conntrack names).

**UdpBackendProofs**, for any intervals, delays, numbers of runs, losses and lookups.
`BeatingBackendsStay` needs `HeartbeatsAssumption` and the inductive `BeatInv`: there
is one REGISTER and one ACK per run; while the ACK is on its way, the entry is
no older than the ACK; and once the agent beats, the entry is at most one delay
older than the agent's timer, unless the heartbeat that will refresh it is
already on its way. `DeadBackendsArePruned` needs `DeadInv`: what the dead agent has
left in the network is as old as its death, so the entry is made or refreshed
for at most one `MaxDelay` more, and it outlives the threshold by no more than
the time since the pruner's last round.

**RewriteProofs**, for every `Byte` from 3, hence for the machine's 256.
`TwoFoldsAreEnough` bounds any sum of two words' width after two folds, and
`BothProgramsAgree` shows the loop and the two folds to give the same checksum. The three
verdict theorems work modulo `Word - 1`, where folding changes nothing (`FoldAll` is
unfolded by its defining equation, whose existence is proved by giving the
function), swapping the bytes of a word is a multiplication by `Byte`, and the
update of a checksum is a subtraction: a sum verifies exactly if it is congruent to
0 and not 0. That `Header` is never 0 is why its definition adds 1. The 0 of UDP
needs the two representations of 0 apart, which is `UncheckedStayUnchecked`.
`WiresNameBothEnds` has an invariant of its own, `EndsInv`: packets and the
conntrack entry carry configured addresses only.

**Only model-checked**: liveness (`DeadBackendIsRemoved`, `ScoreReachesPool`), which is
out of the proof system's reach. Of the properties that runs violate, two are
proved where they hold, with one handler (`RegisteredBackendsAreActive`,
`ScoreUpdatesChangeScores`).

## 6. What is not modelled, and the plan

Left out for good: topology and benchmark scripts, the baseline load balancers'
configurations, the agents without registration, logging, counters, MAC addresses
(constants of the programs, or written with the IP), parsing of HTTP requests, of
UDP messages and of `/proc/net/arp`, and the bounds checks of the XDP programs, which
pass a short packet on unchanged. `bpf/include/vmlinux.h`, 110 349 lines and nearly
all the C of the repository, is a generated list of the kernel's types without
any code: there is no behaviour in it to model, and any share of lines that
counts it is close to nothing. Of the lines of the two XDP programs, the map
names those that do something to conntrack, pools or packets.

`main.go`'s start-up is a straight line that ends the program when a step fails; it
stands in `Init` and the constants. Fragments of IP packets are forwarded by what
their payload looks like (`xdp_forward.c:300`); Rewrite assumes whole packets.

What could come next: `SystemImplementsDataPlane` is about registrations that do not
overlap, and ControlPlaneRefinement shows the control plane to call the loader so with one
handler (`LoaderIsCalledSpaced`); a module that composes both would say in one theorem what
is now said in two. What the two races of section 4 do to established flows is bounded by
`PacketsFindBackends`: a packet may reach another backend, never none.
