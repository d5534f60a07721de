# lanmesh: a TLA+ model

lanmesh joins computers into virtual LANs. Nodes that know a network's name and
password find each other through signalling servers, a DHT or a cache, punch
through their NATs, and exchange IP packets as encrypted UDP frames, directly or
through a relay. This directory holds TLA+ modules of it, TLC configurations that
check them, and TLAPS proofs. All paths below are relative to `src/`; `engine.go` is
`internal/peer/engine.go`, `session.go` is `internal/app/session.go`, `main.go` is
`cmd/lanmesh-signal/main.go`.

To run: `tlc -config MCPeerTable.cfg MCPeerTable`, `tlapm PeerTableProofs.tla`, and
so on for the other pairs.

## 1. Inventory

| Part | State | Operations | Interacts with | Modelled by |
|---|---|---|---|---|
| Engine (`engine.go`) | networks by tag, peers by id and by address in each network, paths shared by networks (`refs`), counters, replay windows, probes, own addresses | `AddNetworkRelay`, `RemoveNetwork`, `SyncPeers`, `AddProbes`, `tunToNet`, `netToTun`, `maintenance`, `PeerViews`, `SettledForPolling` | Session calls it; three goroutines run it; peers, relay, STUN by UDP; `OnDirectConfirmed` into the cache | `AntiReplay`, `PeerTable`, `PathHealth`, `Reflex`, `Mesh` |
| Session (`session.go`) | networks, their goroutines and `stop` channels, node (socket, TUN, engine), shared DHT node and its count, port-mapping generation, own endpoints | `AddNetworkMode`, `RemoveNetwork`, `Stop`, `bringUpNode`, `tearDownNode`, `registerLoop`, `dhtLoop`, `portmapLoop`, `cacheSaveLoop`, `logLoop` | panel and programs above; engine, cache, port mapping, signalling clients and DHT below | `Session`, `Discovery`, `Endpoints`, `Reflex`, `LogUpload` |
| Endpoint cache (`internal/netcache`) | addresses per network and peer, `dirty`, file and temporary file | `Open`, `Put`, `Get`, `Peers`, `Save` | engine callback, session loops | `NetCache` |
| Log ring (`internal/logbuf`), `diag.go` | lines not yet sent | `Write`, `Drain`, `PutBack` | the standard logger, two kinds of uploader, the servers | `LogUpload` |
| Port mapping (`internal/portmap`) | the mapping in the router, a firewall rule | map, renew, unmap, `AllowInbound`, `RemoveInbound` | router (UPnP, PCP, NAT-PMP), `portmapLoop` | `Endpoints` |
| DHT discovery (`internal/discovery/dhtdisc`) | DHT node, announced keys | `Round`, `Close` | session | its sharing: `Session` |
| Signalling (`main.go`, `worker`, `deploy`) | peers per tag with the time seen, logs | register, logs, sweep | clients of all nodes | `Presence`, `SignalServer` |
| Relay (`cmd/lanmesh-relay`) | address per (tag, peer) with the time seen | bind, forward, expire | engines of all nodes | `Mesh`, in part |
| Signalling and STUN clients (`internal/signal`) | pending requests | one call each | session, engine | `Discovery`, `Reflex`, `LogUpload`, in part |
| Panel (`internal/panel`) | configuration file, session it drives | join, leave, reconnect, settings, invitations | session, browser | no |
| Crypto, ids, invitations, TUN, programs | none, or that of the operating system | codecs, calls | all of the above | no |

What is hard in it, part by part, and what makes it correct:

- *Engine tables.* Every handler locks `e.mu`, but packet loops keep pointers across
  critical sections while networks come and go. A path is shared by networks and
  counted by hand. Correct: counts exact, no path lost by a live network, no
  path of nobody, an address leads to a member, nobody uses a released path.
- *Frames.* Several goroutines seal with one counter, the node restarts, the
  channel is UDP. Correct: no repeat passes, nothing new in the window is refused, a
  restarted peer is heard.
- *Freshness.* Statuses, routing and forgetting compare nine or so timers, some
  of the path and some of the membership. Correct: data goes over to the relay
  without a hole; a live connection is not forgotten; a dead peer is.
- *Paths.* Both nodes may move behind their routers at once, and lists of
  candidates are full of addresses that are dead. Correct: two nodes that can reach each
  other directly do so in the end, and data arrives meanwhile.
- *Own address.* Three sources, none of which forgets, name it over a channel that
  reorders; two goroutines and a channel of one place pass the news on. Correct:
  what is new is announced; what is announced first is an address the node has.
- *Session.* Discovery rounds outlive the network they were started for; node
  life cycles overlap with the clean-up of the previous one; a DHT node is counted.
- *Discovery.* Servers fail, restart empty and disagree. Correct: nodes that register
  find each other and are not parted by one fault.
- *Cache and logs.* Overlapping savers and drainers, failures, process death.
- *Servers.* Limits tested against tables that hold expired entries; restarts;
  a worker whose memory goes at any moment.
- *Panel.* Configuration and session are changed by separate steps of concurrent
  requests, with reverts.

`PROJECT.json` lists every component and every hazard at its line, with the
properties for it or the reason why there is none.

## 2. Modules

| Module | Models | Extended by |
|---|---|---|
| `AntiReplay` | `sendCtr`, `seal`, the wire, `acceptCounter` | `MCAntiReplay`, `AntiReplayProofs` |
| `PeerTable` | `e.nets`, `n.peers`, `n.byIP`, `e.paths`, `refs`; the critical sections that use them | `MCPeerTable`, `PeerTableProofs` |
| `PathHealth` | the ages of one peer's path and memberships; the way of data, frames credited late, forgetting | `MCPathHealth`, `PathHealthProofs` |
| `Mesh` | two engines, relay and signalling server between them, the routers that move them | `MCMesh`; proved about in `NetCacheProofs` |
| `Reflex` | the sources of a node's own address, `reflexCh`, the choice and the announcement | `MCReflex`; proved about in `EndpointsProofs` |
| `Endpoints` | the mapped port over several lives of a node, up to the announcement | `MCEndpoints`, `EndpointsProofs` |
| `Session` | entering and leaving networks, node and DHT node, discovery loops | `MCSession`, `SessionProofs` |
| `Presence` | abstract: what a signalling server promises to the nodes of one network | `Discovery` |
| `SignalServer` | the three signalling servers; implements `Presence` | `MCSignalServer`, `SignalServerProofs` |
| `Discovery` | rounds of registration of all nodes and `SyncPeers`, on top of `Presence` | `MCDiscovery`; proved about in `SignalServerProofs` |
| `NetCache` | one list of the cache, `Save` step by step, the file | `MCNetCache`, `NetCacheProofs` |
| `LogUpload` | the ring, `logLoop` and `SendDiagnostics`, the server's end | `MCLogUpload`, `LogUploadProofs` |

How they compose: `Discovery` extends `Presence` with the nodes, and `SignalServer` is shown
to implement `Presence` with a refinement mapping, so what `Discovery` says of nodes does not
depend on which of the servers they use. `Mesh` takes from `Discovery` that a server's answer comes in the end
and from `Reflex` that a node knows its own address; `Endpoints` and `Reflex` each have the
other's part of `pickExternal` in short form. `Session` leaves what an answer does to the
tables to `PeerTable`, `PathHealth` and `Discovery`.

Definitions keep the names of the functions they translate. A definition marked
*Slip* in a module is a deliberately wrong variant of the one that follows it,
unused by the specification: put in its place, it makes the run fail, which is how
each property was seen to depend on the code.

### AntiReplay

A sender makes *network objects*, one per `AddNetworkRelay` of a tag that is not in
`e.nets`; each has a counter seeded with the clock. A goroutine picks the object
under the lock (`Pick`), takes a counter (`Seal`, an atomic `Add`) and writes the
frame later (`WriteFrame`), so it can still seal with an object that was replaced.
`Crash` loses goroutines and unwritten frames. `wire` only grows: `Deliver` may take
any frame of it at any time and any number of times, or never. The receiver's
`recvBits` is the set of bit positions that are set; bits shifted out of the 64 are
lost by the intersection with `Offsets`. `accepted` and `delivered` are history.
`Forget` is the loss of the `peerState`, with its window: what was accepted before
may pass again, and the model does not hide it (both histories start anew).

Two facts of the environment are assumed, in `Seal`'s guard and in the lack of a
backward `Tick`: frames are sealed slower than nanoseconds pass (`Horizon`), and the
wall clock is not set back across a restart. The second is what the comment of
`sendCtr` relies on and is listed as a hazard. The wrap of a 64-bit
counter of nanoseconds is out of reach and not modelled.

### PeerTable

Pointers matter here, so an object's identity is not its key: the k-th network object
of a tag, the i-th `peerState` of a peer in it, the e-th path of a peer. `rd` and
`td` are what `netToTun` and `tunToNet` hold between their critical sections: after
the snapshot and `Open` of a frame a network object, after the main section a
`peerState` if a `FrameAddr` is to be handled, after the look-up a `peerState` to
send to. Each action is one critical section with everything it calls:
`Rebind` is `acquirePath` for new peerStates and `releasePath` for the ones that go,
`SetEntries` the updates of `n.peers` and `n.byIP`. The key of `n.byIP` is a virtual IP, 24 bits of a
hash of the PeerID, which two peers may share: `VirtualIP` is a constant that need not be
injective, an entry is replaced by whoever is written last (`LastWriters`: in any order, as Go ranges over a map), and
deleted for whoever has the address. Time is left out: which silent
peers a round or a tick drops is any set the code could drop at some moment, so the
properties do not depend on the timers. A nil dereference ends the process
(`panicked`, nothing recovers in the code), which is why deadlock is not checked. Re-joining
a tag already present changes no table and is no step.

### PathHealth

The complement: the timers, for one remote peer. A time is kept as its age in ticks,
capped at the largest threshold it is compared with. `Maintenance` is one tick and the
expiry of learned peers. `SyncListed` and `SyncUnlisted` are `SyncPeers`
with and without the peer in the answer; a server may lose a peer and list it again.
`Way` is `sendFrame` and `sendToAll`. A frame takes two steps, as in `netToTun`: `OpenFrame` with the key of a
network that is joined, and in a later critical section `CreditFrame`, or `DropFrame`. If the network was
removed in between, the frame either teaches it the peer again (`LearnStray`), which leaves
a path that nothing releases (`stray`), or meets the nil path (`Panic`: the next process starts from
nothing). `unlisted` is history: how long ago an answer listed the peer. `useRelay` is fixed per network (the session
never calls `SetNetworkRelay`, and returns early for a tag it already has) and the
relay's address is taken as configured.

### Mesh

An address of a node is its number in the order it has them. `hole[n]` is what n's router lets
in: the addresses n has sent to since it has its present one. `Tick` is one round of
`maintenance`: pings and gossip on a confirmed path, punches to every candidate when the peer has been
silent for longer than `staleProbe`, gossip through the relay without a confirmed path; any
part of what it sends may be lost, so the pace of each timer is left out. `Arrive` and `ArriveByRelay` are
`netToTun` for a frame that opens: `learnPeerLocked`'s path, `active`, `mergeCandidates`, the
pong. `Sync` is `SyncPeers` with an answer that names the peer: `mergeEndpoints` puts the server's address
first; `Merged` is its loop, each turn of which adds like `mergeCandidates`. `bound[n]` is where the relay and the server have n; both are told by n itself and are kept as
one. `heard` is `lastRecv` in three steps: below `staleProbe`, below `peerTimeout`, above. A
node of `Narrow` may end at an address where only the relay gets through (`cut`).
Round-trip times, probes, `FramePeers` and several networks are left out.

### Reflex

`HandleAddr`, `SetRelayReflex` and `MatchSTUN` take one word each from the set of words on the
way, store it, and signal in a second step (`Notify`), as the code stores under `e.mu` and
signals after it. `reflexCh` stands for the engine's channel and the kick it becomes
(`reflexFanout`): both have one place and are passed on at once. `ReadSources` is
`nodeEndpoints` up to `pickExternal`, `Announce` what is done with it after the
request. `stunPending` is the map of requests waited for: a new probe replaces it
(older ones have timed out), the first answer that matches clears it. `stunExt` is
`DiscoverEndpointAny` at the start, which may get no answer. `selfReflex` is assigned and never cleared, as in the code.

### Endpoints

A *life* is one `bringUpNode` to `tearDownNode`. `cascade[l]` is the goroutine of
`portmap.Run` in life l, `loop[l]` is `portmapLoop`, and the `EndWithNode` action the small goroutine that cancels
the mapping when the node stops; all three outlive their node. `gen`, `running` and `addr` are
`s.portmapGen`, `s.portmapCancel`, `s.portmapAddr`; `rule` is the firewall rule
that all lives share. `netsh` may fail or run into its time limit, and the session looks at no error of
`RemoveInbound`: a rule it could not remove is `stuck`, until a loop adds or removes it anew. `reg` is the registration loop with its kick channel. `SetPortMap` may come at any
moment, also between `bringUpNode`'s look at the flag and `startPortMap`. Left out: the
protocols of the router, of which there is only the outcome.

### Session

`op` is the operation that holds `opMu` and how far it is: `AddNetworkMode` is
`AddNetwork`, `BringUpNode`, `AcquireDHT`, `CreateInEngine`, `Enter` (or `FailedEntry`);
`RemoveNetwork` and `Stop` are followed for each network by `CloseStop`, `LeaveEngine`
and, for a DHT network, `ReleaseDHT`, and end in `TearDownNode`. `loop[k]` is the discovery loop of the
k-th `netSession`, with the discoverer it has in hand. What an answer says,
the pace of the rounds and the kick channels are left out; a wait may end at any time.
`s.up` is set and reset together with `s.engine` and is not kept apart. `SetSignalURLs` is left
out; see the observations below.

### Presence and SignalServer

`Presence` has one network: a registration counts for `TTL`, whoever registers is told
who else counts, only a node that does not count may be refused, and a server that is not durable may forget
everybody. `SignalServer` has the registry of all networks with its two caps
(`maxNets`, `maxPeersPerNet`), the log tables (they keep a network in the
registry), `sweep` and restarts for the programs in Go and Deno, and storage, waking,
eviction and the order of write and answer for the worker. The mapping takes
`age` to be the table in memory, or for the worker its storage (`Seen`), with absent
entries as ages that no longer count. The worker's objects know nothing of each other, so it has one
network.

### Discovery

Every node asks the pool in rounds. One server is followed by what `Presence` promises; the rest
fail or answer with any set of nodes. `Ask`, `Served` or `Missed`, `EndRound`
are one round of `registerLoop`, with the merging of answers and `SyncPeers`
(`absentSince`, `peerForget`). Time is discrete: nobody pauses longer than `Slow`
(`registerSlow`), no round takes longer than `Round`. The property is about one fault at
a time, so a failed round, a lost answer and a restart each need `Settled`: nothing is
left of the fault before. Nodes hear nothing of each other directly, which is the hard case for
`SyncPeers`.

### NetCache

`Put` is `Refresh`, which moves a known address to the front, or `Add`, which puts a new one there and cuts
the list. `Kept` is the loop that leaves out what has expired. `Save` is `Copy` (under `c.mu`), `Lock` (`saveMu`),
`Truncate` and `Fill` (the two halves of `os.WriteFile` that the end of the process can
part), `Rename`, `Clean` (under `c.mu` again), with `Fail` for an error of any step of the
file part. Two Saves overlap because `tearDownNode` does not wait for
`cacheSaveLoop`. `Open` is the end of the process at any moment and the next start. A
`Put` advances the clock, so that two confirmations have different times. `Clean` clears `dirty` for the whole
cache, also for what was put after the copy; the history variable `late` has the addresses that may be lost this
way, and `OnlyLateIsLost` says that no others are. Keys never share data, so one is modelled.

### LogUpload

A line is its number. `Write` and `PutBack` trim the ring at its head. An uploader is the `logLoop`
of a life of the node or the user's `SendDiagnostics`; it drains the ring, and after
its requests (`Confirmed`, `Unconfirmed`) the lines are gone or put back. A server may have stored
lines whose answer was lost, or, with a full registry, confirm lines that it drops (`HandleLog`; `dropped` is
history, the client cannot tell). `visible` says whether the session is in a network whose tag
may be used for uploads. The ring's limit is counted in lines; the limit of a batch in bytes
(`maxBody`) is one more reason for a request not to be confirmed.

## 3. Runs

| Run | Checks | Bounds |
|---|---|---|
| `antireplay` | `AtMostOnce`, `NoFalseDrop`, `UniqueCounters`, `RestartHeard` | 2 goroutines, window 3, 3 network objects, clock to 6: frames of three objects in flight, counters inside, at the edge of and beyond the window |
| `peertable` | `RefsExact`, `LiveBacked`, `RoutesAlive`, `PathKept` | 2 tags, 3 peers, two of which have one virtual IP, one learned peer at most per network; `FewMade`: networks joined and peerStates made are four in all, so a tag can be left and joined again, or a peer forgotten and met again, or an address disputed, but not everything at once |
| `pathhealth` | `LearnedIsHeard`, `WayHolds`, `ForgottenWhenGone`, `PathKeptWhole`, `GoneIsForgotten` | a signalling network with relay and a DHT network without; thresholds 1 < 2 < 3 < 4 in the order of 6 s < 60 s < 90 s < 600 s, so every side of each comparison is reached; one frame opened at a time, as in `netToTun` |
| `mesh` | `PathHeals`, `DataArrives` | one node moves twice, the second time perhaps to where only the relay gets through, the other once: both can move at once and again while the first move heals; 2 candidates, so one move fills the list with a dead address; one frame on the way at a time, every other is lost |
| `reflex` | `NewsIsAnnounced`, `SourcesConverge`, `FirstFollows` | 2 STUN servers, one move, 2 words on the way: words from before the move overtake those after it, from the same source and from others |
| `endpoints` | `MappingIsShown`, `NoRuleLeft`, `MappingEnds`, `AnnouncedFollows` | 2 lives, 2 addresses of the router: the loop of the first life is anywhere in its work while the second one maps; the address changes on renewal |
| `session` | `DHTCounted`, `NodeServesNets`, `JoinedIsServed`, `LeftLoopsEnd` | 1 signalling and 2 DHT networks, 3 entries, 2 engines, 2 discoverers: a network can be left and entered again while the others hold the node, and both nodes go down and come up |
| `signalserver` | `KeepsPresence`, `PlacesComeBack` | 2 networks where the registry holds one, 3 nodes where a network holds two, `TTL` 1: both caps are reached, by living nodes and by dead ones |
| `discovery` | `NobodyIsForgotten`, `SomebodyFindsOut` | 2 nodes; a tick is 5 s: `TTL` 12, `Slow` 9, `Round` 2, `PeerForget` 18 (60 s, 45 s, 10 s, 90 s); one failed round in a row. The code's own numbers, because the property is about their order of magnitude |
| `netcache` | `FileNeverTorn`, `FreshFirst`, `OnlyLateIsLost` | 2 savers, 3 addresses in a list of 2, clock to 4, TTL 3: addresses are cut and expire |
| `logupload` | `OnlyOverflowLoses`, `LinesArrive` | a ring of 2 lines, 3 lines written, 2 lives, batches of 2: two uploaders hold lines at once and overflow the ring when both put them back |

The type invariant is checked with `antireplay`, `peertable`, `netcache`, `signalserver`
(it holds both caps) and `mesh` (it holds the cap of the candidates and that no list
has a candidate twice); in the other modules `TypeOK` says what the values of the variables
are. Symmetry is used in `antireplay`, `peertable` and `netcache`, for goroutines, tags and
peers, addresses and savers, which no definition tells apart; the runs with a liveness property
use none. Two runs do not check deadlock: `peertable`, since the model stops when the process
has panicked, and `endpoints`, since the user may take the node down for good.

One run finds what a comment in the code excludes:

- `peertable_nilpath` (`NoNilPath`): a frame is opened, the network is removed,
  the frame is credited to a path that is now nil. The same for `tunToNet` and
  `FrameAddr`. The networks are "added and removed on the fly" (`engine.go:252`).

Where a property holds with an exception only, the property names the exception (`RoutesAlive`, `GoneIsForgotten`,
`OnlyLateIsLost`, `FirstFollows`, `NoRuleLeft`, `OnlyOverflowLoses`), and section 6 has what the code does there.

### Fairness

| Property | Assumed | Why |
|---|---|---|
| `LeftLoopsEnd` | an operation under `opMu` goes on, each loop goes on | all calls return; a goroutine is scheduled; a request has a time limit. The `select` at the end of a round may take the timer although the stop channel is closed; nothing is assumed between the two, and the check after the next round makes the loop end |
| `GoneIsForgotten` | the ticker of `maintenance`; the loop of a joined network gets an answer from time to time | `registerLoop` repeats for ever; servers that never answer again are excluded. Nothing is assumed of the peer or of what the servers list |
| `PlacesComeBack` | `Sweep` | the ticker of `main` |
| `SomebodyFindsOut` | time passes, each node's loop goes on | timers; a request has ten seconds. That the followed server is reached follows from `MaxMissed` |
| `MappingEnds`, `AnnouncedFollows` | cancelling, cascade, `portmapLoop`, kicked rounds | router and `netsh` are called under time limits. The timer of the registration is left out of fairness, so that a kick that was lost shows; so are the user and renewals |
| `SourcesConverge`, `FirstFollows` | strong fairness of a word arriving from relay and STUN; weak of signal, kicked round, announcement | each is asked again and again, and of that something arrives. Again not the timer. Nothing is assumed of peers, of which none may be in reach: `FirstFollows` has as its hypothesis that what they have said is not out of date for good |
| `PathHeals`, `DataArrives` | the server and relay are told and answer; silence ages; strong fairness of a tick whose direct frames are not all lost and of arrivals | timers of `maintenance`; a channel that loses some of what is sent but not everything. It is assumed of the tick, not of each frame: which candidate's frame gets through is not |
| `LinesArrive` | loops and uploads go on, an uploader that is sending again and again is confirmed some time | time limits; servers that never confirm are excluded, and with them a batch over `maxBody`, which 200 lines of usual length never are |

### What the runs show

- The tables of the engine stay consistent under every interleaving, with three exceptions: a loop may meet the nil path of a
  network removed under it; a frame credited too late leaves a path that is never released; and
  of two peers with one virtual IP, which `VirtualIP` accepts, one may be without a route.
- Data goes over from the direct path to the relay without a hole, no live connection is forgotten, and a peer that is gone
  is, with its path unless a late frame has left that behind.
- Both ends find a direct path
  again after both have moved, also with a full list of candidates, as long as the server
  answers: it is `mergeEndpoints` putting the server's address first that makes room.
- News of one's own address is not lost between goroutines, late answers of STUN do not stick,
  and the address of the start gives way to a living one; but what peers once said sticks when they are gone.
- A mapping ends with its node whatever it waits for, and a slow clean-up does not wipe
  what the next life has written. A firewall rule outlives all loops only where `netsh` failed to remove it (or the process was
  killed, which is not modelled).
- The file of the cache is whole and in order, and a failed `Save` clears nothing; an address confirmed while one
  that succeeds is under way may be lost, and no other.
- All three servers keep the one promise the nodes rely on; nodes are not parted by one
  fault, which rests on `peerForget` being longer than TTL and pace together.
- Lines of the log are lost by overflow of the ring, or to servers that confirm them with a full registry and drop them; in no
  other way between the ring and a server's table. They leave the ring in the end.

## 4. Proofs

TLC checks small instances; these theorems hold for every value of the constants.

- `AntiReplayProofs`: `NoReplay`, `NothingLostInWindow`, `CountersNeverReused`,
  `RestartIsHeard`. For the receiver, `AtMostOnce` is not inductive: one must know
  that the bits name exactly the accepted counters of the window (`WindowExact`, which
  is proved with it). A slide shifts both, which is lemma `WindowStep`. For the sender, the invariant is
  that counters of an object lie strictly above its seed and at most at the seed of
  the next object (`CountersOrdered`, `FramesNumbered`), so objects
  never share a counter. `RestartHeard` combines this with: `recvMax` is a counter of
  some frame written.
- `PeerTableProofs`: `CountsExact`, `PathsLive`, `RoutesMatch`, `PathStays`. `RoutesMatch` is for any `VirtualIP`, injective or not. The
  inductive invariant (`IndInv`) adds to the checked properties that every peerState
  holding a path holds the one in `e.paths`, that no object that was not made yet
  holds anything, and that numbers of network objects stay below the number made.
  Lemma `RebindKeeps` is its heart: acquiring for peerStates that hold nothing and
  releasing others of other peers keeps every count, and a path that loses its last
  holder is the only one that goes. Each handler then has one lemma.
- `LeakIsLate` and `PanicIsLate`, in the same module, say what is behind two faults: a path that outlives every network of its
  peer (section 6), and the nil path of the `violation` run. A peerState is `Stray` when it
  counts for a path from outside the tables in use. While none does, a path lives no longer than some network
  has the peer; only `TaughtLate`, a frame credited to a network removed since it was opened,
  makes one; and none is ever released. This needs `Held` besides `IndInv`: a path in the table
  has a holder, which is true of each step because all of them change the table by one pattern (`PathsChange`,
  `StepOfPaths`). For the nil path: that a handler holds a network or a peerState that was removed between its
  two critical sections (`Outlived`) is the only way to it.
- `PathHealthProofs`: `TypeCorrect`, `LearnedStaysByItsFrames`, `WayIsKept`,
  `GoneBeforeForgotten`, `PathOutlivesNetworks`. The invariant (`HealthInv`) adds
  `WaitIsWarranted`: `absentSince` of a listed peer is never older than the last answer that listed it
  (`unlisted`). Without it, `ForgottenWhenGone` would have to trust a wait of unknown origin. `WayIsKept` rests on
  `PathIsOlder`: a path is at least as old as the last frame on it, so when the direct address goes stale
  after `peerTimeout` the shorter `relayGrace` is over.
- `SessionProofs`: `DiscovererCounted`, `EngineServes`, `LoopsServe`, `TypeCorrect`. The three
  properties hold between operations; the invariant (`SessionInv`) says what is `Counted` in `dhtRefs` and what
  is `Served` by the engine at each stage of one (`Entering`, `Leaving`, `Resting`). The count is
  then the size of a set (`CountInv`), and each stage adds one network to it or takes one away.
- `LeftAreStopped`, `StoppedWindDown` and `OperationsEnd`, in the same module, are what `LeftLoopsEnd` has beside fairness.
  Between operations exactly the loops of networks that were left are stopped, although the same network may have been
  entered again and several leave at once (`LeftInv`: until then the operation still has them
  in hand). A stopped loop is never started again, and each of its steps brings it nearer to its end (`ToGo`:
  it asks at most once more). The same is proved of the operation that holds `opMu`: it has at most three
  calls for every network it leaves (`Calls`), so no chain of failures keeps the lock.
- `SignalServerProofs`: `CapsHold`, `ServerKeepsPresence`. Refinement step by step, with a lemma per action
  (`RegisterMaps`, `SweepMaps`, `RestartMaps`, `WorkerMaps`, `TickMaps`). Two facts carry it: a network that has no
  record in memory has an empty table (`MemoryInv`), and what an object of the worker holds
  agrees with its storage on all that counts, but for the registration it is storing (`StorageInv`).
- `OneFaultPartsNobody`, in the same module, is `NobodyIsForgotten` of `Discovery`, for any number of nodes. It is
  about time: `Rest(n)` is how long at most n is still without a registration. While a peer is missing from a list no
  new fault begins, so the time since `absentSince` and `Rest` together do not grow (`AbsenceInv`).
  The hypothesis `Patience` asks that a pause and a round are no longer than TTL, and that
  `peerForget` is longer than the longest fault (`MaxMissed` pauses and rounds, at least one) and
  a round. The code has 45 s + 10 s <= 60 s and 90 s > 55 s + 10 s. This is the exact bound: with `PeerForget` at 13
  ticks (65 s) in place of 18, TLC finds a node that is forgotten, at 14 it finds none.
- `RegisteredNodesMeet`, in the same module, says that of two nodes which are registered and between rounds one
  knows the other, under `Patience`. The server answers with those registered before, so of two nodes the later one
  learns of the other; the invariant (`MeetingInv`) says that its round, if it is still under
  way, can only end with an answer that lists the other, and by `NobodyForgets` it stays so through one fault at a
  time. Registering, which needs fairness, is all that `SomebodyFindsOut` adds.
- `EndpointsProofs`: `TypeCorrect`, `ShownMappingStays`, `RulesAreRemoved`. Only the loop of the last life can be the one
  that runs (`RunningInv`), a life that has not begun has no goroutines (`NewLives`), an offer belongs to the loop
  it is made to (`OfferInv`), what is shown was written by the loop that holds it (`WrittenInv`), and
  some loop that is not over answers for a rule that is not stuck (`RuleInv`).
- `NoNewsIsLost`, in the same module, is `NewsIsAnnounced` of `Reflex`. Of a round under
  way the invariant (`NewsInv`) says what the property says between rounds: unless a signal hangs or is
  to come, it has read what the sources say now.
- `LogUploadProofs`: `TypeCorrect`, `LinesAreInOnePlace`, `OnlyOverflowIsLost`. A line is in the ring or in the hands
  of one uploader, and there once (`OnePlace`). Where a line is lost the ring is full, and a
  full ring holds as many different lines as it has places, so no more can be lost than were
  written beyond those (`FullRingSaves`); lines that a full server confirmed are apart. Hypothesis: the server takes a whole ring in one batch
  (`MaxLines <= LogMaxLines`); both are 200 in the programs (`logbuf.New(200)` in `cmd/lanmesh/main.go` and
  `cmd/lanmesh-gui/main.go`, `logMaxLines` in `main.go`).
- `NetCacheProofs`: `FileWhole`, `OnlyLateConfirmationsAreLost`, `FreshestFirst`, `TypeCorrect`. For the first two: at
  most one goroutine is in the file part, and what it has written so far is what it copied (`SaveInv`). For the
  others: every list there is, in memory, in a Save under way or in a file, is in order, since a restart may read any
  of them (`CacheInv`). What the loop of `Kept` keeps is proved by induction over its turns: the set of the
  turns after which it is right has zero and with each number the next (`NatInd`), which needs no theorem
  with an operator parameter. `OnlyLateConfirmationsAreLost` takes all of these: a confirmation that is not late is in the copy of
  every Save under way, and in the file once nothing is dirty (`SavedInv`), since `Kept` leaves out none that is to be kept (`KeptHas`).
- `CandidatesInOrder`, in the same module, is `TypeOK` of `Mesh`, with the same induction for `mergeEndpoints`. A frame names
  only addresses that its sender has had (`FramesInv`), so what it teaches is an address of the peer.
- `NothingIsCrowdedOut`, in the same module: after every answer of a server the address it names is the first
  candidate, and a candidate gives way only if it is the last of a full list and the server names one that is not in it;
  gossip and frames displace none. `PathHeals` rests on both, since an address that is not in the list is
  never tried. The two lemmas about the merge are `MergedLeads` and `TurnAdds`, with `MergedIs` for its loop.

Assumptions: those of the modules (finite sets of tags and peers, natural
bounds, a window of at least one, at least one network at a server), which TLC evaluates in each run, and the
hypotheses named above. Where a theorem is about the instance of another module, it repeats that
module's assumption as a hypothesis (`TwoNodes`, the first conjunct of `Patience`). The proofs do not
use `FewMade`, the symmetry or the values in the configurations.

With these, every invariant and action property that a run checks is proved, except
that of the `violation` run. Only model-checked is liveness, which is out of the prover's reach:
`PathHeals`, `DataArrives`, `SourcesConverge`, `FirstFollows`, `MappingEnds`, `AnnouncedFollows`, `LinesArrive`,
`LeftLoopsEnd`, `PlacesComeBack`, `SomebodyFindsOut` and `GoneIsForgotten`.

Of four of these the safety half is proved: what `LeftLoopsEnd` needs besides fairness (`LeftAreStopped`,
`StoppedWindDown`, `OperationsEnd`), `SomebodyFindsOut` (`RegisteredNodesMeet`), `GoneIsForgotten` (`GoneBeforeForgotten`,
that nobody is forgotten too early) and `PathHeals` (`NothingIsCrowdedOut`). TLC agreed with each of the
formulas on the instances of section 3 before it was proved. For the last step, from
"each step comes nearer" to "it ends", one needs ENABLED and a rule for well-founded orders that
takes an operator, and the installed provers have neither.

Left open: a joint model of the rounds of `Discovery` on top of `SignalServer` itself. Here they meet in
`Presence`, which the servers implement (`ServerKeepsPresence`) and whose steps `Discovery` takes.

## 5. Not modelled, and why

- *Panel.* Handlers that pass settings on and write a file. Nothing in the repository says what
  concurrent requests should give; the observations have what was seen.
- *DHT discovery.* A wrapper of a third-party DHT. Its sharing by networks is in `Session`, its
  rounds are waits of any length.
- *Probes, `FramePeers`, `FrameHello`, choice of a carrier network, round-trip times, `SettledForPolling`.* A map with
  a cap, an age and a back-off for addresses of strangers; other ways to the same `learnPeerLocked` that
  `PeerTable` has.
- *Relay: expiry and cap of the table.* A node asks to be bound at every tick of a timer much shorter than the TTL.
- *Worker: batches of logs in storage, limits of field lengths.* They touch no registration.
- *Session: choice of the port, names, `SetSignalURLs`, relay settings.* Set while the node is down,
  but for the observation below.
- *Wire protocols of port mapping; cryptography, codecs, TUN devices, windows, web pages, self-update.*
  I/O, formatting or third-party code.

## 6. Observed

Seen while modelling. Where no comment or test of the repository says otherwise, there is nothing to
hold the code against, and no run does.

Engine and paths:

- A peer that signalling once listed, and that left one network, is never forgotten there while it
  talks through another network: `SyncPeers` asks the shared path (`engine.go:745`) where `maintenance`
  asks the membership (`engine.go:1207`). `absentSince` is not cleared by traffic, only by an answer that lists
  the peer, so of two silences in one long absence the second one counts at once.
- Two peers of one virtual IP in a network: the later `SyncPeers` or frame takes the route (`engine.go:731`), and forgetting either
  deletes it (`engine.go:753`, `1209`) until an answer lists the other one again. The comment of `VirtualIP` accepts it.
- A frame opened before its network is removed can teach the removed network a peer (`engine.go:1059`). Nothing releases that
  path, though the comment of `peerPath` has it live "while SOME network has that peer" (`engine.go:192`); with
  `PathOnlyInNetworks` of `PeerTableProofs` as an invariant TLC finds it in a few steps. The path is found again when a network meets the
  peer anew, with its old `firstSeen`: `relayGrace` is then over from the start.
- A peer met by a relayed frame is shown as reachable by relay (`engine.go:1408`) while data to
  it is dropped until `relayGrace` is over (`engine.go:1461`).
- A list of twelve candidates that are all dead lets no new one in from gossip; without a signalling server
  nothing makes room.
- `selfReflex` is never withdrawn, although the comment at `session.go:1563` has the word of peers go out of date on
  disconnect. After a move of the router, a node that no peer reaches directly any more keeps announcing first what a peer
  said before, if that was its choice, although relay and STUN agree on another address (`session.go:1590`), and the dead one stays among
  its candidates. TLC finds it as a counterexample to `FirstFollows` without the hypothesis.

Session and port mapping:

- The goroutines of a round read `s.signalURLs[i]` after their request (`session.go:1295`). If the node went
  down and the list was shortened meanwhile, the index is out of range.
- `registerLoop` looks at its stop channel, then takes `s.mu`, then calls `SyncPeers`
  (`session.go:1341` to 1370): left and entered again in between, the network gets the old answer.
- `SetPortMap(false)` between `bringUpNode`'s look at the flag and `startPortMap` finds nothing to cancel,
  and the mapping is made.
- The loop of an old life may write its address after the new one has, since only the deferred clean-up looks at
  `portmapGen` (`session.go:211`); and its `RemoveInbound` and unmapping may remove what the new life has just set up.
- The error of `RemoveInbound` is looked at nowhere (`session.go:957`), and a process that is killed leaves its rule behind; the next
  `AllowInbound` removes it. What a rule still there admits is bounded by its port and program.
- The state "no router has answered" stands only until the deferred clean-up has reset it.

Servers, cache, logs, panel:

- A server that fails twice in a row for a node, or answers slowly beside a dead one, leaves a gap of more
  than 60 s between registrations at the slow pace of 45 s: the node falls out of the list. The comment
  at `peerTTL` (three missed registrations) holds at the pace of 20 s only.
- A full registry is a 200 with an empty list from the Go server and a 503 from the Deno port. `addLog` of the Go server with a full
  registry answers 200 and drops the lines.
- An address confirmed while `Save` writes the file is in no file and not dirty (`netcache.go:184`), and the Save of
  `tearDownNode` then writes nothing. The comments ask for the contrary: changes "must stay dirty" until they are
  written (`netcache.go:180`), and the last Save is there for the freshest confirmation (`session.go:827`).
- With two uploaders, `PutBack` puts lines at the head that are newer than some it displaces, so what is sacrificed
  is not always the oldest (`logbuf.go:82`). A batch over 256 KB would be refused every time.
- Two requests that switch the uploads may leave one value in the session and the other in the configuration (`api.go:263`).
