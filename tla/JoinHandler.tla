----------------------------- MODULE JoinHandler -----------------------------
(***************************************************************************)
(* HandleRelay (ConnectionsCreate.go): what /join does before it hands the *)
(* connection to a handler.  Requests turned down for their version or an  *)
(* empty code touch no shared state and are left out.  The upgrade and the *)
(* first look at app.Rooms are one step: nothing is read in between.       *)
(***************************************************************************)
EXTENDS RelayState

ClientJoin(c, code) ==
    /\ c \in ClientConns
    /\ pc[c] = "none"
    /\ Rooms[code] # Absent
    /\ Accept(c, "enter")
    /\ gameId' = [gameId EXCEPT ![c] = code]
    /\ NumberOfClientsConnected' = NumberOfClientsConnected + 1
    /\ UNCHANGED <<Rooms, RecentlyDeletedRooms, roomVars, ageVars, room, peer,
                   request, polled, toClose, signalled, creatorVars, sweeperVars>>

ClientMissesRoom(c, code) ==
    /\ c \in ClientConns
    /\ pc[c] = "none"
    /\ Rooms[code] = Absent
    /\ Accept(c, "missed")
    /\ gameId' = [gameId EXCEPT ![c] = code]
    /\ UNCHANGED <<Rooms, RecentlyDeletedRooms, roomVars, ageVars, room, peer,
                   NumberOfClientsConnected, request, polled, toClose, signalled,
                   creatorVars, sweeperVars>>

\* RoomsMu is released: the recent list is read under a lock of its own.
ClientTurnedAway(c) ==
    /\ pc[c] = "missed"
    /\ CloseWebsocket(c, IF gameId[c] \in RecentlyDeletedRooms
                         THEN "ROOM_RECENTLY_CLOSED" ELSE "ROOM_NOT_FOUND")
    /\ Goto(c, "done")
    /\ UNCHANGED <<Rooms, RecentlyDeletedRooms, roomVars, ageVars, localVars,
                   NumberOfClientsConnected, toClose, signalled, creatorVars,
                   sweeperVars>>

(***************************************************************************)
(* A host claims the room under RoomsMu.  The read-locked check before it  *)
(* can only refuse a request that the locked one would have refused there, *)
(* with the same reason, so one step stands for both.                      *)
(***************************************************************************)
\* Variant: does not look whether the room has a host.
ClaimableTwice(code) == Rooms[code] # Absent

Claimable(code) == Rooms[code] # Absent /\ Host[Rooms[code]] = Nil

HostJoin(h, code) ==
    /\ h \in HostConns
    /\ pc[h] = "none"
    /\ Claimable(code)
    /\ Accept(h, "enter")
    /\ Host' = [Host EXCEPT ![Rooms[code]] = h]
    /\ idle' = idle \ {Rooms[code]}
    /\ gameId' = [gameId EXCEPT ![h] = code]
    /\ room' = [room EXCEPT ![h] = Rooms[code]]
    /\ NumberOfClientsConnected' = NumberOfClientsConnected + 1
    /\ UNCHANGED <<Rooms, RecentlyDeletedRooms, RequestedConnectionsMap,
                   ClientsToHostConnections, HostToClientsConnections,
                   allocated, expired, peer, request, polled, toClose, signalled,
                   creatorVars, sweeperVars>>

HostRefused(h, code) ==
    /\ h \in HostConns
    /\ pc[h] = "none"
    /\ \/ Rooms[code] = Absent /\ Reject(h, "ROOM_NOT_FOUND")
       \/ /\ Rooms[code] # Absent
          /\ Host[Rooms[code]] # Nil
          /\ Reject(h, "INVALID_ACTION")
    /\ UNCHANGED <<Rooms, RecentlyDeletedRooms, roomVars, ageVars, localVars,
                   NumberOfClientsConnected, toClose, signalled, creatorVars,
                   sweeperVars>>

(***************************************************************************)
(* A data connection answers a request the host has been sent.  A request  *)
(* stays in signalled: a host may answer twice, or answer late.            *)
(***************************************************************************)
DataJoin(d, code, q) ==
    /\ d \in DataConns
    /\ pc[d] = "none"
    /\ <<code, q>> \in signalled
    /\ Rooms[code] # Absent
    /\ Accept(d, "take")
    /\ gameId' = [gameId EXCEPT ![d] = code]
    /\ room' = [room EXCEPT ![d] = Rooms[code]]
    /\ request' = [request EXCEPT ![d] = q]
    /\ UNCHANGED <<Rooms, RecentlyDeletedRooms, roomVars, ageVars, peer, polled, toClose,
                   NumberOfClientsConnected, signalled, creatorVars, sweeperVars>>

DataRefused(d, code, q) ==
    /\ d \in DataConns
    /\ pc[d] = "none"
    /\ <<code, q>> \in signalled
    /\ Rooms[code] = Absent
    /\ Reject(d, "ROOM_NOT_FOUND")
    /\ UNCHANGED <<Rooms, RecentlyDeletedRooms, roomVars, ageVars, localVars,
                   NumberOfClientsConnected, toClose, signalled, creatorVars,
                   sweeperVars>>

\* Under RequestedConnectionsMapMutex: a request is taken once.
TakeRequest(d) ==
    /\ pc[d] = "take"
    /\ LET client == RequestedConnectionsMap[room[d]][request[d]] IN
       \/ /\ client # Absent
          /\ RequestedConnectionsMap' = RequestsWithout(room[d], request[d])
          /\ peer' = [peer EXCEPT ![d] = client]
          /\ Goto(d, "link")
          /\ UNCHANGED sock
       \/ /\ client = Absent
          /\ CloseWebsocket(d, "INVALID_REQUEST_ID")
          /\ Goto(d, "done")
          /\ UNCHANGED <<RequestedConnectionsMap, peer>>
    /\ UNCHANGED <<Rooms, RecentlyDeletedRooms, Host, ClientsToHostConnections,
                   HostToClientsConnections, ageVars, NumberOfClientsConnected,
                   gameId, room, request, polled, toClose, signalled, creatorVars,
                   sweeperVars>>

\* Variant: an entry that is still nil is no client to link.
LinkClientSet(d) ==
    /\ pc[d] = "link"
    /\ \/ /\ ClientsToHostConnections[room[d]][peer[d]] \in DataConns
          /\ ClientsToHostConnections' =
                [ClientsToHostConnections EXCEPT ![room[d]][peer[d]] = d]
          /\ Goto(d, "linkBack")
          /\ UNCHANGED sock
       \/ /\ ClientsToHostConnections[room[d]][peer[d]] \in {Nil, Absent}
          /\ CloseWebsocket(d, "PAIR_LINK_FAILED")
          /\ Goto(d, "done")
          /\ UNCHANGED ClientsToHostConnections
    /\ UNCHANGED <<Rooms, RecentlyDeletedRooms, Host, RequestedConnectionsMap,
                   HostToClientsConnections, ageVars, NumberOfClientsConnected,
                   localVars, toClose, signalled, creatorVars, sweeperVars>>

\* Under ClientsToHostConnectionsMutex: what the entry held does not matter.
LinkClient(d) ==
    /\ pc[d] = "link"
    /\ \/ /\ ClientsToHostConnections[room[d]][peer[d]] # Absent
          /\ ClientsToHostConnections' =
                [ClientsToHostConnections EXCEPT ![room[d]][peer[d]] = d]
          /\ Goto(d, "linkBack")
          /\ UNCHANGED sock
       \/ /\ ClientsToHostConnections[room[d]][peer[d]] = Absent
          /\ CloseWebsocket(d, "PAIR_LINK_FAILED")
          /\ Goto(d, "done")
          /\ UNCHANGED ClientsToHostConnections
    /\ UNCHANGED <<Rooms, RecentlyDeletedRooms, Host, RequestedConnectionsMap,
                   HostToClientsConnections, ageVars, NumberOfClientsConnected,
                   localVars, toClose, signalled, creatorVars, sweeperVars>>

\* Under HostToClientsConnectionsMutex, and LastRoomFilledTime.Store.
LinkBack(d) ==
    /\ pc[d] = "linkBack"
    /\ HostToClientsConnections' =
            [HostToClientsConnections EXCEPT ![room[d]][d] = peer[d]]
    /\ idle' = idle \ {room[d]}
    /\ Goto(d, "enter")
    /\ UNCHANGED <<Rooms, RecentlyDeletedRooms, Host, RequestedConnectionsMap,
                   ClientsToHostConnections, allocated, expired, sock, localVars,
                   NumberOfClientsConnected, toClose, signalled, creatorVars,
                   sweeperVars>>

LinkStep(d) == TakeRequest(d) \/ LinkClient(d) \/ LinkBack(d)
=============================================================================
