------------------------------ MODULE HostRelay ------------------------------
(***************************************************************************)
(* The two handlers of a host's connections: HostSignalToRelayHandler      *)
(* (ConnectionsSignalFromHost.go) for the SIGNAL socket that claimed the   *)
(* room, and handleHostToRelayGameConnection (ConnectionsHostToRelay.go)   *)
(* for each DATA socket.                                                   *)
(***************************************************************************)
EXTENDS RelayState

HostEnter(h) ==
    /\ h \in HostConns
    /\ pc[h] = "enter"
    /\ Rooms[gameId[h]] # Absent
    /\ Goto(h, "relaying")
    /\ UNCHANGED <<Rooms, RecentlyDeletedRooms, roomVars, ageVars, sock, localVars,
                   NumberOfClientsConnected, toClose, signalled, creatorVars,
                   sweeperVars>>

\* The early return: no cleanup is deferred yet and the counter keeps the host.
HostTooLate(h) ==
    /\ h \in HostConns
    /\ pc[h] = "enter"
    /\ Rooms[gameId[h]] = Absent
    /\ Goto(h, "done")
    /\ UNCHANGED <<Rooms, RecentlyDeletedRooms, roomVars, ageVars, sock, localVars,
                   NumberOfClientsConnected, toClose, signalled, creatorVars,
                   sweeperVars>>

\* Variant: leaves the loop without the deferred cleanup.
HostSignalReturns(h) ==
    /\ h \in HostConns
    /\ pc[h] = "relaying"
    /\ NumberOfClientsConnected' = NumberOfClientsConnected - 1
    /\ Goto(h, "done")
    /\ UNCHANGED <<Rooms, RecentlyDeletedRooms, roomVars, ageVars, sock, localVars,
                   toClose, signalled, creatorVars, sweeperVars>>

\* A failed read, the 30 s read deadline, or a host that breaks the limits.
HostSignalEnds(h) ==
    /\ h \in HostConns
    /\ pc[h] = "relaying"
    /\ NumberOfClientsConnected' = NumberOfClientsConnected - 1
    /\ Goto(h, "cleanup")
    /\ UNCHANGED <<Rooms, RecentlyDeletedRooms, roomVars, ageVars, sock, localVars,
                   toClose, signalled, creatorVars, sweeperVars>>

\* What the room now under the code links a data connection to.
ClientOf(d) ==
    IF Rooms[gameId[d]] = Absent THEN Absent
    ELSE HostToClientsConnections[Rooms[gameId[d]]][d]

DataEnter(d) ==
    /\ d \in DataConns
    /\ pc[d] = "enter"
    /\ \/ /\ ClientOf(d) # Absent
          /\ peer' = [peer EXCEPT ![d] = ClientOf(d)]
          /\ Goto(d, "relaying")
       \/ /\ ClientOf(d) = Absent
          /\ Goto(d, "cleanup")
          /\ UNCHANGED peer
    /\ UNCHANGED <<Rooms, RecentlyDeletedRooms, roomVars, ageVars, sock, gameId,
                   NumberOfClientsConnected, room, request, polled, toClose, signalled,
                   creatorVars, sweeperVars>>

DataRelayEnds(d) ==
    /\ d \in DataConns
    /\ pc[d] = "relaying"
    /\ Goto(d, "cleanup")
    /\ UNCHANGED <<Rooms, RecentlyDeletedRooms, roomVars, ageVars, sock, localVars,
                   NumberOfClientsConnected, toClose, signalled, creatorVars,
                   sweeperVars>>

HostStep(h) == HostEnter(h) \/ HostTooLate(h)
=============================================================================
