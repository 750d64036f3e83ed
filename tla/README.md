# A TLA+ model of relay_X

relay_X relays traffic between *backends* ("server", BE) and *frontends* ("client", FE). Both
register over a TCP control connection, a frontend asks to be paired, the gateway reserves data
ports and sends both a grant, and both then connect to the granted port, where their connections are
joined into a session. The repository holds four generations of it. This project
models the current one, V4 (port pool, TCP and SRT data-plane servers, sessions, control hub), the
relay, sessions, buffer, port manager, reaper and control hub of V1, what V2 changes of the relay, and the slots and
the port manager of V3.

## 1. Inventory

| Component | State | Operations | Interaction |
|---|---|---|---|
| V4 port pool, `v4/ports/pool.go` | `state` and `alloc`, two maps over a port range, one mutex | `Reserve`, `MarkOccupied`, `Release`, `Block`, `TouchReservation`, `ReleaseExpiredReservations` | called by hub, data plane and manager |
| V4 TCP server, `v4/relay/tcp_server.go`, `hello.go` | `listeners`, `pendingS`, `pendingC`, `sessions` under `s.mu` | `acceptLoop`, `handleConn`, `maintainPending` (every 2 s), `tryPair`, `onStop`, `StopAll` | calls the pool with and without `s.mu`; one goroutine per connection, per `tryPair` and per session |
| V4 SRT server, `v4/relay/srt_server.go` | as TCP | as TCP | as TCP |
| V4 session, `v4/relay/session.go` | two connections, `done`, `closeOnce` | `Start`, `pipe` (twice), `Stop`, `onStop` | its end releases the port |
| V4 manager, `v4/relay/manager.go` | both servers, both pools, `ctx` | `heartbeatLoop` (every 3 s) expires reservations and stops silent sessions; `Stop` | shuts the servers down |
| V4 hub, `v4/control/server.go` | `clients`, `servers`, `fe` under `h.mu` | register, unregister, `Broadcast`, `pairLoop` (one goroutine per request) | reserves in both pools; looks servers up by id |
| V1 relay server, `v1/relay/server.go` | per port: listener, accept loop, `busy`, `pendingBE`, `sessions` | `StartRelayPort`, `acceptLoop`, `onStop`, `StopPort`, `SnapshotPortState` | a session's `onStop` calls the port manager and the broadcasts back |
| V1 pipe session, `v1/relay/pipe.go` | two connections, two ring buffers, cause, `keepBE` | four copying goroutines, `Stop`, the closing goroutine | may hand the backend's connection on to the next session |
| V1 ring buffer, `v1/relay/buffer.go` | a list of blocks, two offsets, a condition variable | `Write`, `Read`, `CloseWrite`, `Close`, `Flush` | blocks come from a shared pool |
| V1 port manager, `v1/control/port_manager.go` | reservations by session, by port, by owner | `Acquire`, `AcquireFromReady`, `Release`, `ReleaseAllForOwner`, `ReleaseByPort`, sweep | reads the relay's snapshot; called back by the relay |
| V1 reaper, `v1/control/reaper.go` | kill timers by port | `ScheduleKill`, `CancelKill`, `executeKill` | timers against reconnecting backends |
| V1 hub, `v1/control/hub.go`, `stream.go` | clients by role, `authed`, `closed`, one mutex per client | handlers, broadcasts, telemetry, `Close` and `Unregister` | unregistering releases ports and schedules kills |
| V2, `v2` | as V1 | as V1, with SRT listeners and guessed roles | as V1 |
| V3 slot, `v3/relay/server.go` | one slot per port for TCP and UDP | `acceptTCPLoop`, `onStop`, `ResetPort`, `udpLoop`, `udpSweepLoop` | reset by the control hub |
| V3 port manager, `v3/control/port_manager.go` | as V1 | reserves in two critical sections | as V1 |
| everything else | | configuration, log, error codes, port probing, simulators, test peers (`server_test`, `v4/testing`) | not modelled, section 6 |

What is hard in V4 is that three mutexes (`h.mu`, `s.mu`, the pool's) protect state that only makes
sense together. A reservation is checked under one lock and used under another, a timer
expires it independently of both, and a session's end, its map entry and its port are three separate
steps. The hazards are listed, line by line, in `PROJECT.json`.

What makes each component correct:

* pool: a held port belongs to one session until that session or a time-out gives it back; the two
  maps agree;
* data plane: one server and one client per port, sessions visible to whoever must stop them, no lost
  wake-up, no leaked port, no orphaned connection, no teardown that hits somebody else, no session
  and no Occupied port left after a shutdown;
* V4 hub: consistent maps, limits respected, every request answered, nothing kept by a failed attempt;
* V4 session: it ends for a reason only (a peer that left, silence, shutdown), and then it does end; no write for ever;
* V1 and V2 relay: every connection has one owner through stops, restarts and late `onStop`s, an
  abandoned port closes, an overtaken accept loop ends;
* pipe session: the backend is kept only when the frontend left and is handed on by a session that has
  let go of it;
* ring buffer: no byte lost, repeated or reordered, no block with two owners, no lost wake-up;
* port managers: the maps agree, no reservation is lost without a cause;
* V1 hub: the auth reply comes first, every entry of its maps has somebody who removes it, closing never gets stuck, departures are cleaned up;
* V3 slot: one session, peers never wait for each other, datagrams stay within a pair.

The V1 to V3 relays are hard for other reasons than V4. They reuse names: a port, a connection or a map
entry is found by its port number when the owner it was meant for may already be another (`onStop`,
`ReleaseByPort`, `executeKill`). They do not use deadlines for writes. And they split check and use (V2's accept
loop, V3's port manager).

## 2. Modules

| Module | Models | Notes |
|---|---|---|
| `PortLease` | what a pool promises | abstract: a port is free, tentatively leased, firmly leased or withdrawn. `SpecUnattended` is the same without operators |
| `PortPool` | `pool.go` | one action per method; `ReservedAt` as a saturating age |
| `DataPlane` | `tcp_server.go`, `hello.go`, `session.go`, parts of `manager.go` and `control/server.go` | extends `PortPool`; refines `PortLease` |
| `Hub` | `control/server.go` | two instances of `PortPool`; the data plane is its environment |
| `SRTServer` | `srt_server.go` | extends `DataPlane`, whose actions it reuses; adds listeners and two-step accepts |
| `SessionPipes` | `session.go`, the heartbeat of `manager.go` | one session from the inside |
| `ByteStream` | what a pipe buffer promises | abstract: a FIFO of bytes, cut off by Close and emptied by Flush |
| `RingBuffer` | `v1/relay/buffer.go`, `v1/common/memory.go` | refines `ByteStream` |
| `PipeSession` | `v1/relay/pipe.go` | buffers as bounded counters |
| `RelayServer` | `v1/relay/server.go` | no specification of its own: its two extensions give it an environment |
| `Reaper` | `v1/control/reaper.go`, the backend's part of `hub.go` | extends `RelayServer`: composition of relay, reaper and hub |
| `RelayServerV2` | `v2/relay/server.go` | extends `RelayServer` with what V2 does differently |
| `PortManager` | `v1/control/port_manager.go` | with the relay's states and callbacks and the handlers as environment |
| `ControlHub` | `v1/control/hub.go`, `stream.go` | sends, locks and lives of clients |
| `PortSlot` | `v3/relay/server.go` | |
| `LeaseBook` | `v3/control/port_manager.go`, `hub.go` | |
| `*_proofs` | | theorems |
| `MCDataPlane`, `MCSRTServer`, `MCHub`, `MCRingBuffer`, `MCPortSlot` | | one module each, with its symmetry sets and the constants that a `.cfg` cannot write |
| `MCControlHub` | | an instance of `ControlHub` and the assumptions on its constants |
| `MCSessions`, `MCRelay`, `MCPortManagers` | | the same component of several generations: a behaviour chooses its `version` initially and is one of that version. The properties speak of each version's own state |

`PROJECT.json` maps each definition to its lines. Definitions introduced by "Faulty variant" are
plausible bugs that the properties must detect; no specification uses them.

### PortPool

`state[p]` is `p.state[port]`, `alloc[p]` is `p.alloc[port]` or `NoAlloc` for a missing key (Go's zero
value). `ReservedAt` is only ever compared with `maxAge`, so it is kept as the age in ticks, up to
`AuthTimeout + 1`. `Release` with the empty session id (`None`) is the forced release. Operations that
return an error leave the pool unchanged and are stuttering alternatives.

### DataPlane

* `conn[c]` is a connection: `accepted` (before `ReadHello` returns), `checked` (the hello agreed
  with the pool, `s.mu` not yet taken), `pending`, `paired`. The two pending maps are one function of
  `<<role, port>>`. A slot is used again when its connection is closed.
* `tryq[p]` counts the `tryPair` goroutines that have yet to take `s.mu`. `pairing` and `sweep` are
  the two sections under `s.mu` that call the pool more than once; other sections need `MuFree`, the
  pool's other users do not.
* `sess[f]` is a `Session`, named by its client connection: `start` (in the map, `MarkOccupied` still
  to come), `run`, `stop` (connections closed), `release` (entry deleted, port not yet
  released). A session stops at any time: end of file, errors and the heartbeat's
  6 s are not told apart.
* `offer[s]` is what `tryPairOnce` did for a session id: reserved, granted, or rolled back.
* `Cancel` and `StopAll` are the two parts of `Manager.Stop`; anything may run in between and after, a tick of the heartbeat or of the sweep
  that was taken before the cancel included.

### Hub

* `peer[c]` is a `Client`; its link is `up`, `stalled` (does not read, so a `Send` blocks: there is no
  write deadline), `lost` (gone, not noticed) or `closed` (`Decode` has returned).
* `loop[r]` is a `pairLoop` goroutine with its program counter: `begin` (snapshot of the servers),
  `countZ`, `countS` (one reading of each pool), `zmq`, `srt`, `rollback`, `grant`, `tell` (second
  look-up), `send`. `Backoff` is the 5 s sleep with the attempt counter.
* The code reads a pool with `Snapshot` and then `Allocation` for each port, and both pools for one
  server before the next server; the model reads each pool once, for all servers. The window between
  counting and reserving, the one that matters, is there.
* `DataOccupies`, `DataReleases`, `DataExpires` stand for the data plane. A port becomes Occupied only
  when both peers have received the grant.

### SRTServer

`request` holds the ports whose accept loop has a connection request from gosrt (`Accept2`) that it
has not accepted. `StopAll` closes the listeners but not such a request, so a connection may arrive
after it. Everything else is `DataPlane` on other connections: the two files have the same critical
sections.

### SessionPipes

`pc[x]` is the pipe that reads from side `x`: `check`, `read`, `write` or `exit`. `old` is the set of
sides from which nothing has been read for more than 6 s; a read takes its side out. A peer is `up`, `stalled` (does not
read, so writes to it block) or `left`. `closed` is both connections closed by `Stop`, which any failing pipe,
the heartbeat, `StopAll` or the supervising goroutine calls. `checkHeartbeats` reads the two ages (`HeartbeatFinds`) and
stops the session (`HeartbeatStops`) in two steps, `condemned` in between. A pipe meets errors that mean nothing (its own read deadline every 250 ms, the
other pipe's `Stop`) and errors that mean the end; `EndedForCause` says that it tells them apart. `onStop` comes after both
pipes, which lets `DataPlane` treat the end of a session as one step followed by `onStop`.

### RingBuffer

Blocks are model values with contents in `mem`, so a block that is reused shows its old bytes; `pool`
counts how often a block was returned, so a double return is visible. A `Write` of
several blocks holds the mutex except in `cond.Wait`; each block is one step, so that Close and Flush can come
while it waits. A waiting goroutine is `wait`, then `woken` by a Broadcast, and looks again when it has the mutex.

### PipeSession

`reader[d]` and `writer[d]` are the goroutines of `copyLoop` for each direction, `once` the progress of the
one `Stop` that runs (`marked`, `closed`, `done`); others wait for it, as `sync.Once` makes them. `peer` is
what the far end did, `local` whether our end is closed. A piece of data is only counted. `BufMax` is the
buffer's limit in pieces.

### RelayServer, Reaper, RelayServerV2

* A connection is `hello` (held by a loop), `pending`, `session`, or `lost` when no part of the program refers
  to it any more though it is open. `loop[l]` is an accept loop: `accept`, `check` (it has a
  connection and is about to ask `IsPortBusy`), `hello`, `role` (V2) and `report`, in which it waits for the callback `onStateChange` that it makes itself. It may
  outlive its listener. `Accept` may fail for any reason, after which the listener stays registered and is served by nobody until
  `StopPort`; a port may fail to start.
* `SnapshotPortState` peeks at waiting backends with a deadline that is already over. Whether a departed one is reported as such or as a
  time-out depends on the connection (the `net.Pipe` of `server_snapshot_test.go` reports the departure first), and a byte
  sent before hides it. The model therefore lets a snapshot find it or not, and nothing is claimed to be found.
* A session is named by its frontend's connection: `run`, `stop` (connections closed), `hooks` (its part of
  `onStop` under the mutex is over, the callbacks are to come).
* `stopped` remembers the ports that `StopPort` has touched. `OrderlyUntilStopped` is claimed only for the others: section 4 shows why.
* `Reaper`: `entry[p]` is the timer in `pendingKills`; `stray[p]` counts timers that fired when
  they were replaced or cancelled too late, `exec[p]` the `executeKill`s before the mutex, `kill[p]` those between
  the delete and `StopPort`. `KillBound` limits their number.
* `PortAlloc`, `PortAllocStart`, `PortAllocSet` (`AllocatedPorts`) and `PortAllocCancel` (`CancelKill`) are the four parts of the handling of `port_alloc`; a broadcast
  may unregister the backend in between any two.
* `RelayServerV2` places a connection in a second critical section and guesses the role of a peer without a
  hello. Its port manager, hub, buffer and pipe are copies of V1's.

### PortManager, LeaseBook

Expiry times are a set `overdue`. `PortManager` keeps a history, `sound`: the reservations that nothing has happened
to which might end them. `hooks[p]` counts callbacks that are still to come from sessions that ended; a waiting backend that a snapshot
finds dead (`RelayDrops`) has none. `client[c]`
may be `off` while its handler still runs (a broadcast closed it). In `LeaseBook` a handler goes through
the ports of a snapshot one by one; `raced` remembers that two found the same port free.

### ControlHub

`todo[x]` are the clients sender `x` has yet to write to, `mu[c]` the sender inside `Send` to `c`. Telemetry is a task
bound to a client. Removal is in two steps: `shut` (closed) and `locked` (h.mu held, c.mu awaited). A broadcast whose `Send` failed runs the `Close` itself, and
`closing[x]` keeps it from its next `Send` until `Unregister` is done. `Message` stands
for every message a handler processes: it replies or not, broadcasts or not, and starts telemetry or not; what
`port_alloc` and `port_acquire` do is in `Reaper` and `PortManager`.

### PortSlot

A datagram in flight is `udp`, with `old` set when a reset or sweep overtook it. One slot is modelled: the slots do not interact.

## 3. Runs

| Run | Instance | Question and answer |
|---|---|---|
| `data_plane` | 2 ports, 2 session ids, 1 + 2 connections, 2 waiting `tryPair` | Does the V4 server keep its promises under every interleaving of connections, pairing, sweeps, expiry, session ends and shutdown? One connection per role (`OnePerRole`), running sessions are listed, no pairing is missed (`NoLostPair`), no Occupied port leaks, a connection is admitted only to the port its session was granted, a port is lost only to its own teardown or to a reservation that is too old (`OnlyOwnTeardownFrees`), and the whole is a `PortLease` |
| `data_plane_live` | `SRTServer`, 1 port, 2 session ids, 1 + 1 connections | Do reservations without a peer end, orphaned connections leave, waiting peers meet, stopped sessions free their ports, and do sessions and Occupied ports of late arrivals end after `StopAll`? (A lone pending connection of that time is not promised to be closed.) On the SRT server, which has all of the TCP server's steps and the two-step accept |
| `session_peers` | 1 port, 1 + 1 connections | expected violation, section 4 |
| `hub` | 2 peers, 1 id, `max_conn` 2, 2 requests of 2 attempts, 1 port per pool | Are the three maps consistent and within the limit (`RegistryConsistent`), does a failed attempt keep a port? |
| `hub_live` | 1 request with every combination of needs and wishes, 1 id, `max_conn` 1 | Are requests answered, do lost peers leave? |
| `ring_buffer` | blocks of 2, limit 2, payloads of 1 and 3 bytes, reads of 1 and 3 | Is the buffer a `ByteStream`, with its size right, every block owned once, every wait justified and every waiter released by Close? |
| `sessions` | one V1 or one V4 session, V1 buffers of 1 piece | V1: is the backend kept only when the frontend left, is it quiet when handed on, does Stop end? V4: does a session end only for a cause (`EndedForCause`), and does it end then? |
| `relay` | V1 with reaper, V2 over TCP, V2 over SRT and V2 with ports that want a hello; 1 port, 3 connections, 2 loops, 2 kills | Has each connection one owner, is a port orderly until it is stopped? |
| `relay_live` | V1 and V2, 2 connections | Do abandoned ports close (V1), do accept loops end whose listener was closed (both)? |
| `port_managers` | V1: 3 ports, a frontend, a backend, 2 session ids; V3: 2 ports, 2 clients, 2 session ids | Do V1's maps agree, is every loss of a reservation explained; what survives the race of two V3 handlers? |
| `control_hub` | 2 clients, limits of 1, 1 broadcast task | Is the auth reply first, has every entry of the maps somebody who removes it (`EntriesAttended`), are departures cleaned up, does closing end? |
| `port_slot` | 3 connections, 3 addresses | One session, no vain wait, no stray datagram? |

The pool has no run of its own: its operations run inside `data_plane` (`Reserve`, `MarkOccupied`, `Release`,
`TouchReservation`, the expiry) and `hub`, and its theorems (section 5) also cover `Block` and the forced release.

Type correctness is checked within an invariant of each run (`TypeOK` is a conjunct of `RegistryConsistent`, `SizeAgrees`,
`HandedOverQuiet`, `EndedForCause`, `MapsAgree`, `NoDanglingEntry`, `AuthFirst` and `OneSession`), and is proved with them; for `DataPlane` and `Reaper` it is a theorem of its own.

Why the bounds are enough: with two session ids a port is reserved, expires or is
released, and is reserved again while connections, sweeps and sessions of the first reservation are
still about, which is what every data-plane hazard needs; a second port shows what is keyed by the wrong port, two
client connections give the duplicates. Slots are reused, so the number of connections over time is not bounded. A
time-out of one tick separates "touched in time" (age 0 or 1) from "too old" (2). `TryBound` only limits how many
`tryPair` goroutines wait at once; two suffice for one that finds nothing and one that pairs.
The hub's interesting cases need two competing requests and one port less than they ask for; 2
attempts instead of 50 show a retry and a last failure; one id and two peers are an old and a new connection of
that id. The proofs of section 5 have none of these bounds.

For the older relays the same holds: slots of connections, ids and loops are used again. Three connections are a session of
two and somebody who comes too early or too late; two loops are an old
and a new one of a port; two kills are one that is late and one that is due. Blocks of two
bytes with payloads of up to three make writes and reads that end inside, at and beyond a block. One broadcast task with two
clients suffices for a sender that is stuck at one client while the other leaves. Two handlers are a race.

Symmetry is used only in runs without liveness properties: the action properties and refinements those runs check hold or fail at single steps.

### Deadlock and fairness

The deadlock check is off in `sessions`, whose sessions end. In the other modules something can always happen.

`DataPlane!FairSpec`: goroutines are scheduled (weak fairness on what needs only the
pool); a section that waits for `s.mu` gets it in spite of other users (strong fairness, since
`sync.RWMutex` does not starve a writer); the tickers fire while `ctx` runs; `ReadHello` returns by its
2 s deadline. A session that exists after `StopAll` was started after the cancel, so its pipes leave
before the first read. Nothing is assumed of peers: connections, hellos, the end of
sessions and the cancel itself are not fair.

`Hub!FairSpec`: `pairLoop` proceeds unless a `Send` blocks it, `handleConn` returns after `Decode`
has failed, broadcasts happen while `ctx` runs and no client blocks them. A stalled peer need never
read again.

`SessionPipes` and `PipeSession`: goroutines run, reads return by their deadlines, the heartbeat ticks until
cancellation; a write to a peer that does not read need never return. `RingBuffer`: whoever is woken gets the mutex in the end, and
writers and readers go on with a call they began; nobody must call. `Reaper`: timers fire, `executeKill` and a `port_alloc` handler go on,
accept loops see that their listener is closed and that a hello does not come within its deadline; in `RelayServerV2` the last two.
In both nothing is assumed of sessions and of `onStateChange`, which sends to control clients. `ControlHub`: senders and handlers go on unless
they wait for a client that does not read or for a mutex. `PortManager`, `LeaseBook` and `PortSlot` are checked for safety only and state no fairness.

## 4. What the code does not guarantee

One documented statement is violated, with a run that shows the counterexample:

* **A session's peers carry its session id** (`README.md:188`, run `session_peers`). The hello is compared before `s.mu` is
  taken. If the reservation expires there and the port is reserved again, the connection
  becomes pending under the new reservation and is paired as if it belonged to it.

Reading the code for the model showed other documented statements that it does not keep. The modules contain the
behaviour; the properties are stated so that they hold in spite of it.

* A port with both ends connected is Occupied (`PORT_UNIQUENESS_REPORT.md:17`). The reservation may
  expire between `tryPair`'s `Allocation` and its `MarkOccupied`, whose error is dropped. The session
  runs, the pool calls the port Idle. The same comes of peers of one session id that return between the two halves of `onStop`: the late `Release` names
  their session. `OnePerRole`, proved, says that even then connections
  of two sessions are not mixed: the new peers are refused until the old session ends.
* `auth_timeout` is the window for reclaiming a reservation (`README.md:57`). A waiting peer renews
  it for ever. `LonelyReservationEnds` is what holds: without a waiting peer it ends.
* `max_conn` bounds a server's concurrent sessions (`README.md:126`). Only Occupied ports
  are counted, so grants that are not yet taken up do not count.
* Ids are globally unique (`README.md:125`). They are unique per role.
* V1: `ring_buffer_size` bounds a pipe's buffer (`backend_dev_guide.md:65`). The limit is compared before a block is filled;
  less than a block more is what `SizeAgrees` allows.
* V1: Stop stops the forwarding and the session is reclaimed (`pipe.go:88`, `backend_dev_guide.md:66`). A kept backend that does not
  read holds its writer, and with it the session and the port. `StopEndsOrStalls` shows that this is the only case.
* V1: a port carries one session at a time (`backend_dev_guide.md:280`). The `onStop` of a session from before a `StopPort` clears the
  busy flag of the session after it. `OrderlyUntilStopped` is what holds, on ports that were never stopped.
* V1: a reconnecting backend cancels the kill of its ports (`reaper.go:67`, `hub.go:361`). A timer that has fired cannot be cancelled,
  and the ports are started before the cancel.
* V1: both kinds of port can be asked for at once (`frontend_dev_guide.md:208`). Such requests are refused.
* V1: `max_fe` and `max_be` count connections that are online (`backend_dev_guide.md:63`). A connection whose auth reply failed is counted
  for ever.

No document speaks of these, but properties have to leave them out:

* V1: the relay's callback `ReleaseByPort` comes after the mutex is given back and releases whatever reservation the port has by then,
  a newer one included. `LossExplained` says that a reservation granted while no callback is on its way to its port is lost only to its owner, to time, or to an end of
  a session on its port.
* V3: two handlers that find one port free are both granted it. `LeasesSound` says what remains: no entry without its lease, and exclusive ports
  until a first such race.
* V3: a datagram that a reset or a sweep overtakes may go to a peer of the former pair. `UdpPaired` is about all others.

After `StopAll` two invariants no longer hold as stated and are claimed only before it
(`OnePerRole`, `RunningSessionsListed`): a `tryPair` still under way may create a session whose entry
the `onStop` of an older session on the same port then deletes. `LateArrivalsDrain` shows that these
sessions end all the same, because their pipes look at `ctx`.

`NoLostPair` shows that `TickPair`, documented as compensation for missed pairings
(`tcp_server.go:265`) and called by nobody, is not needed.

## 5. Proofs

Every property of the passing runs that is not a liveness property is a theorem: the invariants, the action
properties and the refinements. The runs check them on small instances.
The theorems hold for every port range, time-out, set of ids and number of connections that satisfies
the named assumptions. For the pool and the data plane these are `RangeAssumption` (what `NewPool` accepts), `TimeoutAssumption` (what the
configuration accepts), `NoneAssumption` (ids are not empty) and `ConnAssumption` (the model's own slots and
nil are distinct).

`PortPool_proofs`: `PoolInv` (types and `AllocIffHeld`) is inductive, method by method
(`PoolTypeCorrect`, `MapsInStep`). `AllocIffHeld` is what the refinement needs: without it a
port without a session id might be leased. Each method then maps to one step of `PortLease` or to a
stutter (`PoolImplementsLease`).

`DataPlane_proofs`: none of the safety properties is inductive by itself. `IndInv` adds what ties
the pieces together:

* `PendingInv`: the pending maps and the connections in phase `pending` are inverse to each other;
* `SessionConnInv`: open connections of sessions are the `paired` ones and are shared by no two
  sessions;
* `MapInv`: a session that has not reached `onStop` is listed under its port until `StopAll`, and the
  map holds nothing else. It is why deleting by port is harmless: nobody can create a session for the
  port before the delete;
* `WakeInv`: nobody waits on a port that has a session. With it `NoLostPair` is inductive: a
  `tryPair` that returns because of a session consumes no wake-up that anybody needs;
* `GrantInv`: an allocation and the hub's offer name each other, so a session id is ever used on
  one port only.

One lemma per action shows that it preserves `IndInv`; `Invariance` combines them. From it follow
`TypeCorrect`, `RolesExclusive`, `SessionsListed`, `NoWakeupLost`, `NoPortLeaks`, `AdmissionSound`.
`DataPlaneImplementsLease` reuses the pool's refinement lemmas through `PoolCalls` (a step of the
server calls the pool at most once), and `TeardownIsOwn` is the action property over the same cases.
`PoolUsedByItsMethods` (`Spec => PoolSpec`) says that the server and the hub touch the pool only by its methods, so what is
proved of the pool alone holds inside the data plane.

`Control_proofs`, the control planes of V1 and V3.

* `PortManager`: `MapsAgree` is inductive, `LossExplained` is not: a reservation that is still sound must also not be overdue,
  and no callback may be on its way to its port (`Causes`). Every operation deletes reservations, grants one after a deletion, or touches
  none; `DeleteKeeps` and `GrantKeeps` show for any values of the maps that deleting and granting keep them in agreement. Assumed are
  `PortAssumption` (ports are positive numbers of one protocol), `SidAssumption` (ids are not empty) and `HookAssumption` (the bound is a number).
* `LeaseBook` (V3, proved through the instance of `MCPortManagers`): `LeasesAlwaysSound`. `NoDanglingEntry` is inductive even when two
  handlers race, because `deleteReservationLocked` removes the port's entry whichever lease it names. `ExclusiveUnlessRaced` needs
  `FoundStaysFree`: until a first race, a port that a handler has found free is free when it reserves it.
  `FirstOfList` (the lowest port of a list is on it) is the well-foundedness of the naturals.
* `ControlHub` (an instance, because every component has a `Next` of its own; `MCControlHub` states what is assumed
  of its constants, `ConnAssumption` and `MaxAssumption`): `AuthReplyFirst`. A message that is not the auth reply can only be the first one if somebody else sends to the client
  before, or its own handler after it failed. `KnownInv` rules out the former (everybody but the handler sends to authed clients only,
  and `Reuse` waits for all of them), `PhaseInv` the latter (a handler outside its loop has nothing else to send), and `SendInv`
  ties the holder of `c.mu` to what it has to send. `MapsInv` says who is in the maps and gives the limits per role.
  `EntriesHaveAttendant`: a handler leaves its loop only by closing its client, and a broadcast that closes one leaves it to `Unregister`, so an entry
  without either is that of a handler that failed at the auth reply (`AttendedInv`).

`PortSlot_proofs`: `IndInv` is `TcpInv /\ UdpInv`, which share no variable but are both changed by `ResetPort`. Three parts strengthen the
checked invariants. `LoopInv`: a slot that was free in the accept loop's first section is not busy in its second, because only the accept
loop pairs; with it `NobodyWaitsInVain` is inductive although `Place` does not look at `tcpBusy` again. `NamedInv`: a session that the slot does not
name was overtaken by a reset. `LostInv`: so was the backend that `onStop` forgets, because a session that is still named finds
nobody waiting in its backend's place. The only assumption is that `None` is no connection and no address.

`Sessions_proofs`: V1's `KeptOnlyIfFELeft` depends on when an error was recorded: `CauseInv` says that a recorded end of file is a peer's, and
that no error recorded before `Stop` closes the connections is one that `Stop` provoked; `OpenInv` and `ClosedInv` say what is open until and after
that moment. `HandedOverQuiet` needs `FlushedInv` (after `Stop` the buffers stay empty and closed, whoever still uses them) and `CloserInv`.
V4's `EndedForCause` (`SessionsEndForCause`) is inductive with the types: a pipe that fails after `Stop`
finds the cause for which `Stop` was called. The only assumption is that the bound on the buffers is a positive number.

`RelayServer_proofs`: `ConnectionExclusive` and `OrderlyUntilStopped` support each other and are proved once for the operations of `RelayServer`, which
V1 (with `Reaper`) and V2 share. `LoopInv` gives an accept loop sole possession of the connection it reads from, `BackendInv` keeps a frontend from being its
own backend. `OneLoopInv` is what V2 needs: it places a connection in a second critical section without another look at `busy`, which is sound
only because a port that was never stopped has one accept loop and nobody else makes it busy. In V1, `KillInv` bounds the reaper's
pending kills. Assumed are `SlotAssumption` (the nils are no ports, loops or connections) and `KillAssumption`; V2's theorem holds for every choice of its SRT
ports and of the ports where the hello is optional.

`RingBuffer_proofs`: `SizeAgrees`, `BlocksOwnedOnce` and `WaitersHaveReason` are proved from `BufferInv`. `LastInv` is the part that is easy to
overlook: the last block is never empty, else a `Read` to the end of the block before it would leave a block with nothing to read and the
counter at 0. `OwnInv` restates single ownership without cardinalities, which the prover cannot count with. `BufferIsStream` is the refinement: under
`ContentInv` (the bytes at the positions between the offsets) a turn of `Write` is a `Put` of `ByteStream` (`PutStep`), a successful `Read` is
a `Get` (`GetStep`), everything else a `Call`, a `GiveUp`, a `Fail`, a `Drop`, an `End` or a stutter (`StreamStep`). `BufferAssumption` asks for a positive block size and
limit, payloads over a set of `Bytes`, and enough blocks that the pool, which allocates in the code, is never empty.

`Hub_proofs`: `RegistryConsistent` needs that a server is found under the id it registered with, and a finite `h.clients` (`RegInv`).
`FailedAttemptHoldsNothing` needs `HoldInv`: a port of either pool is held for the running attempt of a request, in a phase in which that
goroutine knows the port; so the rollback releases the very port that was reserved, and releases, expiries and other goroutines touch only their own.
`LoopInv` adds what the goroutine's next step uses, among others finitely many candidates, without which the sort would have no first
(`BestIsCandidate`). The two pools are instances of `PortPool`, so the lemmas of `PortPool_proofs` are cited for both;
`PoolsAssumption` states what they assume of the two ranges.

Only model-checked: every liveness property (`LonelyReservationEnds`, `OrphanPendingLeaves`, `PeersMeet`, `StoppedSessionFreesPort`, `LateArrivalsDrain`,
`RequestsAnswered`, `LostPeersLeave`, `CloseReleasesAll`, `StopEndsOrStalls`, `SessionEnds`, `AbandonedPortCloses`, `OldLoopsEnd`, `DepartureCleansUp`),
because fairness and `ENABLED` are beyond the prover; and what `SRTServer` does differently from `DataPlane`.

## 6. Not modelled

Contents of the traffic, byte counters, metrics, telemetry and status messages, HTTP `/status`,
tokens, log, configuration parsing, socket options, port probing at start-up. V4's authentication never rejects
anything but an empty token, V1's compares a secret.

V2's pipe, buffer, hub, port manager and reaper and V3's pipe, buffer and hub are copies of V1's with small changes of wording.
The V1 modules are not claimed for them line by line. The simulators and load tests of V4, the echo backend and the interactive client of `server_test` and the numbers in
telemetry, pong and metrics are outside: they change no state that a property is about. The port manager and the relay are composed only
as far as each is the other's environment (`PortManager` has the relay's port states and callbacks, `Reaper` the whole relay); the full product
of relay, pipe sessions, port manager and hub is too large for TLC.

## 7. Plan

1. Proofs about `SRTServer`, whose runs check liveness only: the invariant of `DataPlane_proofs` for its accept loop.
2. `PipeSession` over two real `RingBuffer`s, and `SessionPipes` shown to implement what `DataPlane` assumes of a session.
