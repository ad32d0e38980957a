# A formal model of stealthpipe-relay

The relay (`src/src`, Go) lets a game host behind a firewall be reached: a host
opens a *room* under a six-digit code, clients join the code, and for each
client the relay pairs the client's WebSocket with a second WebSocket of the
host and forwards packets between the two. This directory holds TLA+ modules
translated from that code, TLC configurations that check them on small
instances, and TLAPS proofs of what matters most for instances of any size.

`PROJECT.json` ties every definition to the lines it models, lists the runs, the
mutants that show each property can fail, the hazards and the findings.

Running it, in this directory:

    tlc -workers 2 -config Pairing.cfg MCRelay      # any .cfg of MCRelay
    tlc -workers 2 -config Admission.cfg Admission
    tlc -workers 2 -config Watchdog.cfg Watchdog    # and CreatorHasLock.cfg
    tlc -workers 2 -config Tunnel.cfg Tunnel        # and TunnelFalls.cfg
    tlc -workers 2 -config Signaling.cfg Signaling
    tlapm RelayPairProofs.tla                       # any *Proofs module

The runs of `MCRelay` are Pairing, Rooms, Reuse, Liveness, Waiting and WaitForever.

## 1. Inventory

Paths are relative to `src/src/core`.

| Component | State | Operations | Interacts by |
|---|---|---|---|
| Shared state (`Types.go`, `CoreFuncs.go`) | `app.Rooms` (code → `*Room`) and per room the host, the requests, and the two maps client → data connection and back; recently deleted codes; a connection counter | maps under `RoomsMu` and three mutexes per room | everything else |
| `/create` (`RoomCreation.go`, `ReuseTokens.go`) | the new room | a free code, or a code taken over with a reuse token, evicting its host | `RoomsMu`, released in the middle of an eviction; `CloseWebsocket` |
| `/join` (`ConnectionsCreate.go`) | – | turns away, claims a room for a host, links a data connection to the client that asked | the room's maps; calls the handlers |
| Client handler (`ConnectionsClientToRelay.go`) | its socket, request, partner | registers a request, tells the host (`REQUESTCONNECTION_…`), polls for its data connection, forwards | a write to the host's socket; the maps |
| Host handlers (`ConnectionsSignalFromHost.go`, `ConnectionsHostToRelay.go`) | their socket, partner | wait on the SIGNAL socket; forward from a DATA socket | the maps |
| Teardown (`ConnectionsCleanup.go`, `ConnectionClose.go`) | – | deferred by each handler: unlists the host's room, closes partners | `RoomsMu`; closes *other* goroutines' sockets |
| Sweepers (`CleanTasks.go`) | what their scan found | delete rooms nobody hosted, rooms nobody entered, old closing reasons | scan under a read lock, act under a later write lock |
| Proof of work (`ProofOfWork.go`) | `UsedSalts` | `/pow` challenges, verification, replay check, minute loop | called by `/create` |
| Traffic monitor (`TrafficMonitoring.go`) | `HandshakeCounter`, `CurrentDifficulty`, `LastUpped` | each second swaps the counter and sets the difficulty | atomics shared with `/create` and `/pow` |
| WebRTC signalling (`ConnectionsSignalFromClient.go`, `HandleSignalPacket`) | `WebRTCHandshakeConnectionsMap`, `HostMu` | forwards handshakes between a signalling client and the host, answers pings | the host's socket, shared with the game clients that announce themselves |
| Packet forwarding (the loops of `ConnectionsClientToRelay.go` and `ConnectionsHostToRelay.go`) | an open message per direction | copies each packet of a socket to its partner | writes to the partner's socket, which three goroutines may close |
| Watchdog (`InstanceHealthHandler.go`) | `IsHealthy` | exits if `RoomsMu` cannot be read-locked in 10 s | `RoomsMu` |
| Endpoints, start-up, statistics, benchmark, tests | – | – | – |

**What is hard here.** One goroutine runs per connection, and most of what it does is
between locks: a room is looked up by its code again and again, and the code may name
another room each time, because a reuse token lets a new host take over a code while
handlers of the old room are still leaving. A link between two sockets takes three
critical sections under three mutexes while one of the two goroutines polls. A handler
closes sockets whose goroutines are elsewhere. The sweepers act on what a scan found
earlier. No mutex covers close frames, and the WebSocket library panics when it notices
two writers on one socket; such a panic is recovered by net/http, with whatever lock the
goroutine holds still locked. Requests are answered late, twice or never; ids may
collide; peers leave at any point.

**What makes each component right.**

- Pairing: no two tunnels are crossed; each client is linked once.
- Directory: a room is listed under one code, claimed once, never listed again
  after it was dropped; no hosted room outlives the handler that would unlist it.
- Teardown: a tunnel falls as a whole; a handler that returned left its socket
  closed.
- Waiting: a client does not wait for a room that is gone.
- Counter: never below the handlers that are going to decrement it.
- Sweepers: they delete what they are meant to delete.
- Forwarding: packets arrive whole, once and in order until a tunnel is torn down;
  both of its ends are closed, whatever goes wrong in between.
- Signalling: a listed host is written one packet at a time; an answer goes to who
  asked under that id; `HostMu` is not lost but to a panic.
- `RoomsMu`: writers exclude; who waits is served; a busy instance is not taken for
  a deadlocked one.
- Admission: one solved challenge, one room; used salts are forgotten; the
  difficulty comes down again, after the cooldown.

## 2. Modules

    RelayState  <- Cleanup, JoinHandler, ClientRelay, HostRelay, RoomCreation, CleanTasks
                         \________________________ Relay ________________________/
    RoomDirectory, Matching  <- instantiated by Relay as abstract specifications
    Relay <- RelayInvariant <- MCRelay                       (TLC)
                            <- RelayTypeProofs <- RelayPairProofs, RelayRoomProofs
                                                  <- RelayTunnelProofs
    Admission (also run by TLC) <- AdmissionProofs
    RWMutex <- Watchdog <- WatchdogProofs
    Tunnel <- TunnelProofs;  Pipe is instantiated by Tunnel, once per direction
    Signaling <- SignalingProofs

| Module | Models | Correspondence |
|---|---|---|
| `RelayState` | `ServerData`, `Room`, the goroutines' locals | Variables have the names of the fields. A connection names its goroutine; `pc` is where the goroutine is, `room`, `peer`, `request`, `gameId` its locals. `sock` is `none`, `open`, `gone` (the peer left) or the reason it was closed for. |
| `JoinHandler` | `HandleRelay` | `ClientJoin`, `ClientMissesRoom` + `ClientTurnedAway`, `HostJoin`, `HostRefused`, `DataJoin`, `DataRefused`; then `TakeRequest`, `LinkClient`, `LinkBack`, one per mutex. |
| `ClientRelay` | `clientRelayHandler`, `waitForHostConnectionAndReturnIt`, `handleRequestCleanup` | `ClientEnter`/`ClientRefused`, `RegisterRequest`, `RegisterNilEntry`, `Announce`; a turn of the wait loop is `WaitFails` or `WaitLooksUp` and then `PollFinds`, `PollAgain` or `PollTimesOut`; `ForgetRequest`; `ClientRelayEnds`. |
| `HostRelay` | `HostSignalToRelayHandler`, `handleHostToRelayGameConnection` | `HostEnter`, `HostTooLate` (the early return), `HostSignalEnds`; `DataEnter`, `DataRelayEnds`. |
| `Cleanup` | `handleCleanup`, `CloseWebsocket` | The decision under the lock is `CleanupAsHost`, `CleanupAsMember` or `CleanupWithoutRoom`; each close afterwards is a `CloseOther`, the last one `CloseOwn`. |
| `RoomCreation` | `HandleCreatePath` | `CreateFresh`, `ReuseHostless`; an eviction is `EvictBegin`, `EvictClose`, `EvictFinish`, since the lock is released between them. |
| `CleanTasks` | the three sweepers | `UnusedScan`/`UnusedPrune`; `IdleScan`/`IdleDelete`/`IdleClose`; `ForgetReason`. `Expire` and `BecomeIdle` stand for the clock. |
| `Relay` | all of it, interleaved | `Next`, fairness, properties, the two refinements. |
| `RoomDirectory` | abstract | What `app.Rooms` and `Room.Host` promise: `Open`, `Claim`, `Close`. |
| `Matching` | abstract | What the handshake promises: `Match` a free client with a free data connection, for good. |
| `RelayInvariant` | – | The inductive invariant, in named parts. |
| `Admission` | `ProofOfWork.go`, `TrafficMonitoring.go`, the start of `HandleCreatePath` | On a clock of seconds: `GenerateProofOfWork`, `Verify`, `CheckReplay`, `CountHandshake`, `ForgetSalts`, `MonitorRaises`/`MonitorLowers`/`MonitorKeeps`. |
| `RWMutex` | `sync.RWMutex` (external) | `RLock`, `RUnlock`, `Lock`, `Unlock`, with the readers that wait for a writer and the writer that waits for readers. |
| `Watchdog` | `RoomsMu` over time: `DeadlockWatchdog`, the sleeps and the eviction of `HandleCreatePath` | Readers and writers are all handlers there are. `CreatorSleeps`/`CreatorReturns`; `EvictUnlocks`, `EvictRelocks`, `EvictPanics`; `DogStarts`, `DogHears`, `DogTimesOut`; `Tick` is a second of the clock, and waits while anybody is `Busy`. |
| `Pipe` | abstract | What a direction of a tunnel promises to its listener. |
| `Tunnel` | The loops of `clientRelayHandler` and `handleHostToRelayGameConnection`, `CloseWebsocket`, the part of `handleCleanup` that closes, and gorilla/websocket below them (external) | `ReadPacket`, `CopyEnds`/`CopyFails`, then the writer's `Close`; every write is `FlushChecks`, `FlushWrites`, `FlushEnds`, or `FlushPanics`; `Cleanup` (both sockets, the goroutine's own one only, or none, by what the code names then), `CloseBegins`; `HostCleans` is the host's goroutine. |
| `Signaling` | `ConnectionsSignalFromHost.go`, `ConnectionsSignalFromClient.go`, the announcement in `clientRelayHandler` | One code whose rooms follow each other. `HostPings`, `HostForwards`, `ClientSends`, `PlayerAnnounces` find the room of a packet; `Lock`, then `Pong`, `Announce`, `ForwardToHost` or `NilHostPanics`; `AssignId`; `LookUpId`, `SendToClient`; `WritesCollide` and `MapsCollide` are the panics and the fatal error of library and runtime. |

The four machines share no variables. `Relay` has each handler from its first look at a
room to its last close, with a write to a socket as one step; `Watchdog`, `Tunnel` and
`Signaling` each take one resource that `Relay` abstracts (`RoomsMu`, two sockets,
`HostMu`) and open up the steps it is used in; what the rest of the relay does to it is a
free action there (`WriterWants`, `RoomDeleted`, `RoomMade`).

**Grain.** A step of `Relay` is what a goroutine does between two points where another
can interfere: one critical section, or one write to a socket. Four sequences of the
code's critical sections are one step, because what lies between cannot change the
outcome: the read-locked look at the room before a host's write-locked claim and before
the second look of a data connection (the earlier one refuses with the reason the later
one would have used), the client's look at the room and at its host (a host is set once,
while the room is listed), and `ForgetRequest`, whose code looks the room up, then looks
for its request under the map's read lock, then deletes it under the write lock (whoever
else deletes it in between has done the same, and in a room that was unlisted meanwhile
only late data connections still look). Locks are not variables of `Relay`: a critical
section is one action, which is what `WritesExclude` of `Watchdog` justifies for
`RoomsMu`, as long as no creator panics. In `Tunnel` a step lies between two looks at
the library's flag `isWriting`; in `Watchdog` and `Signaling` locks are variables.

**Abstractions.** Codes, rooms, connections and requests are model values from finite
pools; the pools are the bounds. When a pool is used up nothing more of its kind
arrives, so behaviours of `Relay` may end and its runs set `CHECK_DEADLOCK FALSE`. So do
those of the other modules except `Admission`: packets, players and rooms are used up,
and in `Watchdog` and `Signaling` the process may end. In `Admission` the two loops
always turn, and deadlock is checked. A room's age is the nondeterministic `expired` and
`idle`; the entry of a closed reason is forgotten at any age. A connection's role is
fixed by its pool. Whether a nonce solves a challenge is free. Request ids are not
guessed: a data connection presents one that its host has heard of (`signalled` in the
guards of `DataJoin` and `DataRefused`), where the code only looks for the id in the
map. Each definition whose comment begins with *Variant* is a plausible mistake that no
action uses; `PROJECT.json` pairs each with the property that catches it.

## 3. Runs

| Run | Instance | Properties | Shows |
|---|---|---|---|
| Pairing | 1 room, 1 host, 2 clients, 2 data connections, **1 request id that may collide** | `NoCrossedTunnels`, `TunnelFallsTogether`, `NoStrandedSocket`, `CounterCoversHandlers`, `MatchingSpec` | The handshake never crosses tunnels, even when both clients draw the same id and answers come twice or late; two whole tunnels fall in any order of their ends and the host. |
| Rooms | 2 codes (1 reusable), 3 rooms of which 2 may age, 2 hosts, 1 evicting creator | `TypeOK`, `HostHoldsRoom`, `DirectorySpec` | The directory survives every interleaving of creators, hosts and sweepers. |
| Reuse | 1 code, 2 rooms, 2 hosts, 1 client, 1 data connection, 1 creator | `NoStrandedSocket`, `TunnelFallsTogether`, `WaitersCanBeAnswered`, `IInv` | A code changes rooms while handlers of the first are in any stage; no answer is lost on its way; the invariant of the proofs holds on reachable states. |
| Liveness | 2 rooms, 1 host, 1 client, 1 data connection, 1 creator; host and client may leave | `LostHostLosesRoom`, `TunnelEnds` | What a lost peer must bring about. |
| Waiting | 2 rooms, 2 hosts, 1 client, 1 creator, nobody answers | `WaiterNoticesLostRoom` | The wait ends if the room goes, also when the code lives on. |
| Admission | 2 challenges, 2 salts, 2 requests, lifetime 1, pause 1, clock to 3; thresholds 0 and 1 | `AcceptedOnce`, `SaltsForgotten`, `DifficultyRecovers` | Expiry, the replay check and the loop that forgets salts race; every handshake races the monitor's swap at both thresholds. |
| Watchdog | 1 handler, the watchdog's reader, 3 writers; sleep 5, limit 10, period 5 | `NoFalseAlarm`, `WritesExclude`, `SleepersAreAwaited`, `LockIsGranted` | Creators in a row hold `RoomsMu` for 5 s each, and nobody who reads waits for two of them, or sleeps with no one to wake it; the alarm is for who is stuck. |
| Tunnel | 2 packets, in either direction or both; the client may find another room under its code | `PipeSpec`, `PanicNeedsCloser`, `NoSocketLeftOpen` | Every interleaving of two forwarding loops and three goroutines that close, at the grain of the library's checks: what arrives, who panics, and what is open when all is done. |
| TunnelFalls | 1 packet; the data connection may find another room under its code | `BothEndsFall`, `PipeSpec` | Panics included, both ends of a tunnel in a listed room are closed; what arrives when the data connection closes its own socket only. |
| Signaling | 2 rooms, 2 hosts, 1 signalling client, 1 game client, 1 id | `NilHostNeedsReuse`, `ListedHostHasOneWriter`, `AnswersFollowRequests`, `HostMuHasWriter`, `HostMuIsGranted` | Packets find whichever room the code names by then. |
| WaitForever, CreatorHasLock | the smallest that shows it | one each | Violated: see section 6. |

**Why these bounds are enough to be interesting.** Crossing needs two clients and two
data connections in one room (Pairing). A stale code needs a second room under it, and a
second host to make that room look alive (Reuse, Waiting). A sweeper that hits the wrong
room needs a third one, and a code that a token never opens beside one that it does
(Rooms). A watchdog that is wronged needs one creator asleep, one that waits and one
that comes last (Watchdog); the times are those of the code, in seconds. The state of a
tunnel is bounded but for the packets: one under way in each direction at once, or a
second one after the first that was ended by somebody else, takes two; liveness is
checked with one, which either goroutine may be writing when the closing begins
(TunnelFalls). `Returners` are the goroutines that may find another room under their
code when the tunnel's own is unlisted, and then close their own socket only. It is the
client's in Tunnel and the data connection's in TunnelFalls; with both, Tunnel takes too
long, and the proofs are for any set. `NoSocketLeftOpen` and `BothEndsFall` speak of
listed rooms. A packet that is answered in the wrong room takes two rooms and a host in
each; one client is both the one that joined the first room and the one that the host of
the second finds (Signaling; with two clients the run takes too long, and the proofs of
its four invariants are for any number). Pairing leaves code reuse out and Reuse a
second pair; that their combination breaks neither `NoCrossedTunnels` nor the
refinements is what the proofs add. Tests of this sort are also what the mutants
measure: each property of each passing run fails when one definition is changed as its
mutant says.

**Symmetry** is declared in Pairing, Rooms and Reuse over the members of a pool that the
constants `Leavers` and `AgingRooms` do not tell apart; runs with liveness have none.

**Reading the properties.** `NoStrandedSocket` and `TunnelFallsTogether` speak of rooms
that are still listed: `handleCleanup` returns before it closes anything when its room
is gone (ConnectionsCleanup.go:17), and section 6 says who is left over then.
`TunnelFallsTogether` also asks that request ids be unique or the host's socket be open.
Without that it is false, in 20 steps: a client takes over the id of one that was
announced and fails to announce it to the lost host, so its handler ends; the data
connection that answers the first links to it, and waits for packets of a client that is
done until the host's own cleanup closes it (ConnectionsClientToRelay.go:134-162,
ConnectionsCreate.go:121-165). `WaitersCanBeAnswered` says that a client that waits has
its request in the map, a data connection that took it and will link it, or its link;
since the wait has no time limit (section 6), an answer that got lost between the maps
would leave it waiting until its room goes. Here too ids must be unique: the later of
two clients that draw the same id takes over the request of the earlier one, and nobody
can answer that one any more. `HostHoldsRoom` says of every listed room with a host that
the host's goroutine is at a point from which it still reaches `handleCleanup` for that
very code, so no room is listed for ever. `CounterCoversHandlers` bounds the counter
from below only: `HostTooLate` leaks one. `Pipe` says nothing was missed and nothing
came out of order while a tunnel is up; what it allows during a teardown (cut packets
that look whole, packets that come twice) does happen. `LockIsGranted` and
`HostMuIsGranted` except a lock whose holder has panicked. `NoSocketLeftOpen` is what
`BothEndsFall` rests on and needs no fairness: two goroutines that close the same two
sockets may make each other panic, and a goroutine whose close panics drops the rest of
its list (a data goroutine cleans up once more), but the last of them to end has seen to
both. It speaks of listed rooms, as a goroutine that finds no room closes nothing.
Likewise `SleepersAreAwaited` and `HostMuHasWriter` are the halves of `LockIsGranted`
and `HostMuIsGranted` that do not depend on scheduling: whoever waits, waits for
somebody.

## 4. Fairness

`Fairness` in `Relay` assumes

- `WF` of `Proceed(c)`: a goroutine that can run runs. Go's scheduler is preemptive,
  its `RWMutex` lets neither readers nor writers starve, and every critical section
  is finite. A write to a socket is assumed to finish, which holds while peers read
  or are gone; a peer that stays and never reads is outside the model.
- `WF` of `StopRelaying(c)` only while the socket is not open: a read from a closed
  socket returns an error. A healthy tunnel may last for ever.
- `SF` of `PollTimesOut(c)`: the minute passes. Each turn of the loop leaves the poll
  for a moment, hence strong fairness; the step is enabled only when a poll finds no
  entry, which is when the code looks at the clock.
- `WF` of the second halves of evictions and sweeps that have begun.

Nobody is assumed to join, to answer, to leave or to age. `Admission` assumes that
the clock ticks, that requests proceed, that the loop over the salts and the monitor
turn, and (`SF`) that two turns of the monitor are eventually further apart than the
30 microseconds its cooldown amounts to.

`Watchdog`: readers leave, writers go on, the watchdog and the clock run (`WF`), and a
waiter gets the mutex in the end (`SF` of `WriterLocks`), which `sync.Mutex` gives by its
starvation mode. Neither a panic nor a stall is assumed, nor that anybody comes.

`Tunnel`: goroutines run and writes finish, as above. A read is assumed to fail only on a
socket that the relay itself has closed; the peers may be silent for ever, also in the
middle of a packet.

`Signaling`: a goroutine with a `HostMu` finishes its write, and a host that waits for one
gets it in the end (`SF`, as above). No other goroutine is assumed to go on.

## 5. Proofs

All by TLAPS, for every value of the constants that meets the named assumptions of the
module; for `Relay` these are
`SentinelsAssumption` and `RolesAssumption` (`nil` and "no entry" are no objects and
differ; the three roles are disjoint). Theorems with a further hypothesis name it.

- `TypeCorrect`: `Spec => []TypeOK`. `TypeOK` is not inductive by itself: a step
  reads locals that an earlier step set. `TypeInv` adds `RolesOK` (which labels each
  role can be at, and that partners are of the other kind) and `LocalsOK` (which locals
  are set where). One lemma for each of the three parts, a case per action.
- `NoCrossedTunnelsHolds` and `MatchingRefined` (`Spec => MatchingSpec`). The argument:
  entries and requests are those of clients of that room (`EntriesOfMembers`,
  `RequestsOfMembers`); whoever has taken a request answers a client of its own room
  (`TakersMatchMembers`); a client has **one ticket**, which is its request in the map,
  or the data connection that took it, or its link (`OneTicket`), so a link is never
  overwritten, although the code does not look at what the entry held; so both sides of
  a link agree from the moment of the second write (`LinkedByTaker`, `SidesAgree`), and
  the forwarding loops hold what the maps hold (`LoopsFollowMaps`). Request ids need not
  be unique: a collision removes the older ticket. The proof goes variable by variable
  (`ForwardStep`, `EntriesChange`, `RequestsChange`, `BackLinksChange` say what a step
  can do to each), then conjunct by conjunct.
- `HostHoldsRoomHolds` and `DirectoryRefined` (`Spec => DirectorySpec`), from
  `DirectoryInv`: rooms are listed once (`ListedOnce`), and a host owns the one room it
  claimed (`OwnersClaimed`). Every step that unlists, be it a cleanup, a sweep or an
  eviction, is a `Close` of the abstract directory, or an `Open` in its place.
- `NoStrandedSocketHolds`, from `ListedAtHome`: the room a connection has entered is listed
  under the connection's own code or nowhere, so whoever finds no room under its code and
  leaves its socket open (`CleanupWithoutRoom`, `HostTooLate`) leaves it in a room that is
  gone; and a room is never listed twice.
- `CounterCoversHandlersHolds`: `IsFiniteSet(HostConns \cup ClientConns)` implies
  `Spec => []CounterCoversHandlers`. Each step adds one handler and one to the counter,
  takes one handler away and at most one from the counter, or neither (`CountMove`).
- `TunnelFallsTogetherHolds`. A handler that leaves a listed room has its partner on its
  list of what to close, or closed, until it is done (`LeaversSeeToPartners`). That needs
  the partner to be in the map by then, which holds for a data connection
  (`SidesAgree`); for a client it needs the hardest part, `UnpairedAreUnheard`: in a
  listed room the wait gives up only with a data connection, so a client without one was
  turned away by the write to its host. Either that host is lost, or, with unique ids,
  the host never heard of the client, and data connections answer only what a host has
  heard (`AnswersAreAsked`).
- `InvariantHolds`: `Spec => []IInv`, the conjunction of all of these, which Reuse checks.
- `WaitersCanBeAnsweredHolds`, inductive relative to `IInv` once it also covers clients that
  have registered and not yet announced themselves. A unique request leaves the map only to a
  data connection (`AskedStep`); that one finds an entry of its client, since the host had
  heard of the request and the client makes its entry before it announces itself
  (`TakenStep`, from `UnpairedAreUnheard`); and a link is at most replaced by a link
  (`LinkedStep`).
- `AcceptedOnceHolds`: `MaxPause <= 1` implies `Spec => []AcceptedOnce`. The invariant
  says that until a challenge that passed has expired, the map holds its salt
  (`Remembered`), and that a request makes its second check no later than in the second
  of the expiry (`InTime`). The hypothesis is real: nothing in the code bounds the pause
  of a goroutine between `verifyAndGetPayload` and `isReplay`, and `now > expiry` gives
  it the rest of the second in which the token expires. Salts may collide.
- `PipeRefined` (`Spec => PipeSpec`), `PanicNeedsCloserHolds` and `NoSocketLeftOpenHolds`,
  from the invariant of `TunnelProofs`, for any number of packets and any
  `Returners`. Three arguments:
  - *What arrives.* The third goroutine may end a message that it did not begin, so a frame
    belongs to the open message of its socket's writer or to an earlier one (`FramesOK`),
    and carries the number of either (`ReceivedNext`). As long as a socket takes frames,
    every packet before the last one that was read for it has arrived, and that one too once
    its message is ended, by whomever (`NoneSkipped`): so the next number is the highest
    that arrived plus one, or one from before. While a direction is up, one goroutine
    writes to its socket, and numbers and positions agree (`Orderly`). Every step of the
    tunnel is then a `Deliver`, `DeliverLate` or `Teardown` of `Pipe`, or changes nothing
    it sees (`DirectionStep`).
  - *Who panics first.* While all goroutines loop, a socket's flag is set exactly while the
    other socket's goroutine is between its write and its second look (`FlagsOK`), so nobody
    finds a flag of somebody else's, or misses its own.
  - *Who is left.* A goroutine whose next step is bound to panic is *doomed*: its flag was
    reset, or the message that it was going to end was ended by another. `TeardownOK` says that of
    the two goroutines of a listed tunnel at most one is doomed, that who is done has closed
    both sockets or has left the other one alone and not doomed, and that the last entry of
    a list is reached only with the partner's socket closed. It is inductive, since only the
    other goroutine dooms one, and who panics on a flag panics on the flag of a goroutine that is
    still there (`PanicSpares`).

  TLC has checked this invariant on the instance of Tunnel.
- `WritesExcludeHolds`, `SleepersAreAwaitedHolds` and `NoFalseAlarmHolds`, from `WatchdogInvariant`. Until a creator
  panics, the one past `Lock` holds the inner mutex and is asleep exactly while readers
  from before are inside (`Excluding`), and readers sleep only while it is there. As long as also nobody is stuck, time passes for a
  blocked probe of the watchdog only in the sleep of the creator that it waits for, since
  `Unlock` lets sleeping readers in before the next writer; so its limit stays ahead by
  `Timeout - HoldTime` (`InTime`). For any numbers of readers and writers, and any times
  with `HoldTime < Timeout` (`TimesAssumption`).
- `NilHostNeedsReuseHolds`, `ListedHostHasOneWriterHolds`, `AnswersFollowRequestsHolds` and
  `HostMuHasWriterHolds`, from `SignalingInvariant`: a room gets one host and a host one room (`OneRoomEach`), which
  keeps it (`JoinedHosted`); who writes holds the `HostMu` of the room that it found
  (`LocksHeld`), and as long as a host's room is listed this host finds no other (`OwnRoom`);
  an id is noted, and looked up, after the packet was written (`IdsHeard`).

The proof modules have no other axioms than the assumptions of the modules they
extend, and every one of these is evaluated by TLC in the runs.

Every invariant, action property and refinement that a passing run checks is proved.
Only model-checked is what needs fairness, which is outside the prover's reach:
`LostHostLosesRoom`, `TunnelEnds`, `WaiterNoticesLostRoom`, `SaltsForgotten`,
`DifficultyRecovers`, `LockIsGranted`, `HostMuIsGranted` and `BothEndsFall`. The safety
that five of them rest on is proved: `HostHoldsRoom` for the first,
`TunnelFallsTogether` for the second, `SleepersAreAwaited`, `HostMuHasWriter` and
`NoSocketLeftOpen` for the last three.

## 6. Where code and comments disagree

| Run | The code says | The model shows |
|---|---|---|
| WaitForever | "Cancel if it's taking too long" (ConnectionsClientToRelay.go:86) | The client's nil entry is made before the wait begins, and a nil entry skips the check of the minute: without an answer the wait, a busy loop, lasts as long as the room. |
| CreatorHasLock | "we must delete, since we have the lock" (RoomCreation.go:117) | An eviction writes to the old host's socket with `RoomsMu` released and its `Unlock` deferred. If the library panics there, the deferred call unlocks what another creator has locked, which then deletes without the lock; or it ends the process, if nobody has locked it. |

The model takes the following steps too; no run is spent on them, since each can be read
off the action named.

- "If client leaves, just remove them from the map" (ConnectionsCleanup.go:49):
  `CleanupAsMember` removes nothing; a room that was once entered is never idle.
- "If host leaves, we need to close all clients" (ConnectionsCleanup.go:28):
  `CleanupAsHost` misses a client between its join and its entry, also when the entry is made
  right after; that client fails to announce itself, and its own `CleanupWithoutRoom` closes
  nothing. The socket stays open, with no goroutine left to read it. (An invariant that
  forbids it fails in 13 states.)
- "ensure full deletion" (RoomCreation.go:120): if 50 ms are too short for the old host's
  cleanup, it no longer finds its room after `EvictFinish`, and the old tunnels stay.
- "room creation was too long ago", "Double-check existence and status" (CleanTasks.go:20,
  31): `UnusedPrune` looks only at the code and at `HasHost`. A creator with a reuse token
  that gets `RoomsMu` between the two phases, and keeps it for 5 s, has just put a new room
  there, which is deleted at once. (An action property that forbids it fails in 6 states:
  `CreateFresh`, `Expire`, `UnusedScan`, `ReuseHostless`, `UnusedPrune`.)
- "reuse the same room code that it had used before if it hasn't been taken by someone else
  yet" (TECHNICAL.MD:170): `EvictBegin` and `ReuseHostless` look at no owner. A valid token
  evicts whoever holds the code, since the "chance of collision is too thin"
  (RoomCreation.go:106).
- `CleanIdleRooms` (CleanTasks.go:43-73) says nothing of a room that changes after its scan:
  `IdleDelete` drops whatever room a found code names by then, also one that was filled or
  made anew, and `IdleClose` closes the hosts of the scan only. In the abstract directory
  `Close` is unconditional, so `DirectorySpec` says nothing against either sweeper.
- "cooldown in milliseconds" (Types.go:122): `MonitorLowers` compares with 30 000
  nanoseconds.
- "only this thread will write to the connection" (ConnectionsHostToRelay.go:112), and "it
  only forwards the raw binary and does not manipulate packets" (TECHNICAL.MD:13): while a
  tunnel is torn down, the close frame of another goroutine ends the message that is open,
  and the peer receives a part of a packet as a whole one. `PipeSpec` with a `DeliverLate`
  that is always whole fails.
- "lock to prevent race condition" (ConnectionsSignalFromClient.go:43): the pong to a
  signalling client is written under `HostMu`, but what a host sends to that client is not
  (`SendToClient`); if they meet, `WritesCollide`, and `HostMu` may stay locked.

## 7. Not modelled, and why

- **The contents of packets**, text messages (skipped by every loop) and the rate limiters.
  A packet of at most 2.2 MB never exceeds a limiter's burst (12 MB and 4 MB), so limiters
  of a tunnel only delay; those of signalling end a handler, which `ReadEnds` may do anyway.
  A signalling message longer than one buffered read (16 kB) is cut by `io.ReadAtLeast`
  (ConnectionsSignalFromClient.go:122); the model has no lengths.
- **Peers that stay and never read**: no write has a deadline, so such a peer blocks its
  writer for ever, with `HostMu` if it is a host. The liveness properties assume it away.
- **Ends of the process.** `Relay` has each write to a socket and each access to a map as
  one step. Panics of two writers are in `Tunnel`, `Signaling` and (of an eviction) in
  `Watchdog`; the runtime's fatal error on map accesses is in `Signaling` for the map of ids
  only; a panic in `CleanIdleRooms`, which ends the process, is not. Nothing
  is persisted, so a restart is a new `Init`; reuse tokens outlive it, which is why
  `RoomCreation` lets any reusable code be asked for at any time. Their signature and
  expiry are left out: a valid token exists or not.
- **Garbage collection**: a socket that is left open with no goroutine may be closed by
  a finalizer in the end. The model has it open.
- `healthCheckCorountines` only logs; the counter of connections of signalling clients.
- Endpoints, logging, metrics, configuration, the benchmark driver, the tests.

## 8. Plan

Done, in this order: the relay's core (`RelayState` … `Relay`), its abstract
specifications and their refinement, `Admission`, then the resources that the core
abstracts: `Watchdog`, `Tunnel` with `Pipe`, `Signaling`; the proofs of section 5, of every
property that is not a liveness property.

1. `LockDiscipline`: which mutex guards which map, as an interleaving of begin and end of
   each access.
2. The recent reasons with their ages (`CleanRecentlyDeletedRoomReasons` in two steps), and
   what a client is told of a room that closed.
3. `Signaling` with a third kind of writer to a host, the close frames, as steps of their
   own, composed with the eviction of `Watchdog`.
