-------------------------------- MODULE Relay --------------------------------
(***************************************************************************)
(* The relay: the handlers of all connections, the creators of rooms and   *)
(* the sweepers, interleaved.                                              *)
(***************************************************************************)
EXTENDS Cleanup, JoinHandler, ClientRelay, HostRelay, RoomCreation, CleanTasks

Init ==
    /\ Rooms = [code \in Codes |-> Absent]
    /\ RecentlyDeletedRooms = {}
    /\ Host = [r \in RoomObjs |-> Nil]
    /\ RequestedConnectionsMap = [r \in RoomObjs |-> [q \in Requests |-> Absent]]
    /\ ClientsToHostConnections = [r \in RoomObjs |-> [c \in ClientConns |-> Absent]]
    /\ HostToClientsConnections = [r \in RoomObjs |-> [d \in DataConns |-> Absent]]
    /\ allocated = {}
    /\ expired = {}
    /\ idle = {}
    /\ NumberOfClientsConnected = 0
    /\ sock = [c \in Conns |-> "none"]
    /\ pc = [c \in Conns |-> "none"]
    /\ gameId = [c \in Conns |-> Nil]
    /\ room = [c \in Conns |-> Nil]
    /\ peer = [c \in Conns |-> Nil]
    /\ request = [c \in Conns |-> Nil]
    /\ polled = [c \in ClientConns |-> Nil]
    /\ toClose = [c \in Conns |-> {}]
    /\ signalled = {}
    /\ creatorPc = [p \in Creators |-> "idle"]
    /\ creatorCode = [p \in Creators |-> Nil]
    /\ oldRoom = [p \in Creators |-> Nil]
    /\ staleRooms = {}
    /\ codesToDelete = {}
    /\ idleHosts = {}

\* The network or the program at the other end: the relay only reads an error.
PeerLeaves(c) ==
    /\ c \in Leavers
    /\ sock[c] = "open"
    /\ sock' = [sock EXCEPT ![c] = "gone"]
    /\ UNCHANGED <<Rooms, RecentlyDeletedRooms, roomVars, ageVars, pc, localVars,
                   NumberOfClientsConnected, toClose, signalled, creatorVars,
                   sweeperVars>>

\* New requests reach the relay.
Arrive(code) ==
    \/ \E r \in RoomObjs : CreateFresh(code, r) \/ ReuseHostless(code, r)
    \/ \E p \in Creators : EvictBegin(p, code)
    \/ \E c \in ClientConns : ClientJoin(c, code) \/ ClientMissesRoom(c, code)
    \/ \E h \in HostConns : HostJoin(h, code) \/ HostRefused(h, code)
    \/ \E d \in DataConns, q \in Requests :
            DataJoin(d, code, q) \/ DataRefused(d, code, q)

\* What the goroutine of c does next without waiting for its peer.
Proceed(c) ==
    \/ ClientTurnedAway(c)
    \/ ClientStep(c)
    \/ HostStep(c)
    \/ LinkStep(c)
    \/ DataEnter(c)
    \/ CleanupStep(c)

StopRelaying(c) == ClientRelayEnds(c) \/ HostSignalEnds(c) \/ DataRelayEnds(c)

EvictStep(p) == EvictClose(p) \/ \E r \in RoomObjs : EvictFinish(p, r)

Age ==
    \/ \E r \in AgingRooms : Expire(r) \/ BecomeIdle(r)
    \/ \E code \in Codes : ForgetReason(code)

Next ==
    \/ \E code \in Codes : Arrive(code)
    \/ \E c \in Conns : Proceed(c) \/ StopRelaying(c) \/ PeerLeaves(c)
    \/ \E p \in Creators : EvictStep(p)
    \/ SweepStep
    \/ Age

Spec == Init /\ [][Next]_vars

(***************************************************************************)
(* A goroutine that can run runs, and one that reads from a socket that is *)
(* no longer open gets its error.  The minute of the wait loop passes: a   *)
(* client that keeps finding no entry times out, although each turn of the *)
(* loop disables the step for a while (hence SF).  Nobody has to join, to  *)
(* answer a request or to leave.                                           *)
(***************************************************************************)
Fairness ==
    /\ \A c \in Conns :
        /\ WF_vars(Proceed(c))
        /\ WF_vars(sock[c] # "open" /\ StopRelaying(c))
    /\ \A c \in ClientConns : SF_vars(PollTimesOut(c))
    /\ \A p \in Creators : WF_vars(EvictStep(p))
    /\ WF_vars(UnusedPrune)
    /\ WF_vars(IdleDelete)
    /\ \A h \in HostConns : WF_vars(IdleClose(h))

FairSpec == Spec /\ Fairness

-----------------------------------------------------------------------------
(* Safety *)

\* Two ends of a tunnel forward to each other: no packet of one player ever
\* reaches another (ConnectionsCreate.go:121-159 against the wait loop of
\* ConnectionsClientToRelay.go:42-92 and the lookup of
\* ConnectionsHostToRelay.go:43-50).
NoCrossedTunnels ==
    \A c \in ClientConns, d \in DataConns :
        pc[c] = "relaying" /\ pc[d] = "relaying" =>
            (peer[c] = d <=> peer[d] = c)

\* A registered room that has a host has one whose handler is still going to
\* run handleCleanup for that code: no room outlives its host for good, even
\* when codes are reused while old handlers are leaving.
HostHoldsRoom ==
    \A code \in Codes :
        Rooms[code] # Absent /\ Host[Rooms[code]] # Nil =>
            LET h == Host[Rooms[code]] IN
                /\ gameId[h] = code
                /\ pc[h] \in {"enter", "relaying", "cleanup"}

\* A handler that has returned left its own socket closed, unless its room was
\* gone by then (the early return of ConnectionsCleanup.go:17-20).
NoStrandedSocket ==
    \A c \in Conns :
        pc[c] = "done" /\ Unclosed(c) => ~Registered(room[c])

\* A tunnel falls as a whole: once the handler of one end has returned in a
\* registered room, both sockets of the pair are closed.  Colliding request ids
\* are excused once the host is lost: the client that took over another's id
\* and could not announce it is done before the answer to the other links it.
TunnelFallsTogether ==
    \A c \in ClientConns, d \in DataConns :
        /\ room[c] # Nil
        /\ Registered(room[c])
        /\ UniqueRequests \/ sock[Host[room[c]]] = "open"
        /\ HostToClientsConnections[room[c]][d] = c
        /\ pc[c] = "done" \/ pc[d] = "done"
        => ~Unclosed(c) /\ ~Unclosed(d)

Counted == {"enter", "register", "nilEntry", "announce", "waiting", "polling",
            "forget", "relaying"}

\* NumberOfClientsConnected never falls below the handlers that have yet to
\* decrement it, so it cannot go negative.
CounterCoversHandlers ==
    NumberOfClientsConnected >=
        Cardinality({c \in HostConns \cup ClientConns : pc[c] \in Counted})

-----------------------------------------------------------------------------
(* Refinement *)

\* app.Rooms and Room.Host implement the directory of rooms.
Directory == INSTANCE RoomDirectory
    WITH directory <- Rooms, owner <- Host, made <- allocated
DirectorySpec == Directory!Spec

\* The data connection a client is linked to in the room it entered.
Mate(c) ==
    IF room[c] = Nil \/ ClientsToHostConnections[room[c]][c] \in {Nil, Absent}
    THEN Nil ELSE ClientsToHostConnections[room[c]][c]

\* The two maps of a room and its requests implement a matching.
Pairing == INSTANCE Matching WITH mate <- [c \in ClientConns |-> Mate(c)]
MatchingSpec == Pairing!Spec

Waiting(c) == pc[c] \in {"waiting", "polling"}

Asked(c) == RequestedConnectionsMap[room[c]][request[c]] = c

Taken(c) == \E d \in DataConns : pc[d] = "link" /\ peer[d] = c

\* A client that waits can still be answered: its request is in the map of its
\* room, a data connection has taken it and is about to link, or the link is
\* made.  No answer is lost between the two maps, which have a mutex each
\* (ConnectionsClientToRelay.go:145-166, ConnectionsCreate.go:122-153).
\* Colliding ids are excused: the later client takes over the other's request.
WaitersCanBeAnswered ==
    UniqueRequests =>
        \A c \in ClientConns :
            Waiting(c) => Asked(c) \/ Taken(c) \/ Mate(c) # Nil

-----------------------------------------------------------------------------
(* Liveness *)

\* A host whose socket is no longer open loses its room.
LostHostLosesRoom ==
    \A r \in RoomObjs, h \in HostConns :
        Host[r] = h /\ sock[h] # "open" ~> ~Registered(r)

\* A client that waits for a data connection notices that its room is gone,
\* also when the code has been taken over by another room.
WaiterNoticesLostRoom ==
    \A c \in ClientConns :
        Waiting(c) /\ ~Registered(room[c]) ~> ~Waiting(c)

\* When the data connection of a tunnel has ended, so does the client's
\* handler, unless the room was taken away from both.
TunnelEnds ==
    \A c \in ClientConns, d \in DataConns :
        Mate(c) = d /\ pc[d] = "done"
            ~> pc[c] = "done" \/ ~Registered(room[c])

-----------------------------------------------------------------------------
(* What a comment of the code says of it *)

\* ConnectionsClientToRelay.go:86, "Cancel if it's taking too long": a client
\* does not wait forever for the host to answer.
WaitEnds == \A c \in ClientConns : Waiting(c) ~> ~Waiting(c)
=============================================================================
