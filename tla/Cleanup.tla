------------------------------- MODULE Cleanup -------------------------------
(***************************************************************************)
(* handleCleanup (ConnectionsCleanup.go): the deferred call with which     *)
(* every relay goroutine ends.  Under RoomsMu it decides what to close and *)
(* unregisters the room if its host is leaving; the sockets are closed     *)
(* after the lock is released, one by one, its own last.                   *)
(*                                                                         *)
(* The room is looked up by its code: it need not be the room the          *)
(* goroutine worked in.  baseCloseReason is always UNSPECIFIED, because    *)
(* the arguments of the deferred call are evaluated at the defer statement.*)
(***************************************************************************)
EXTENDS RelayState

\* The value of map key c, or nil if the map does not hold it.
EntryOrNil(map, c) == IF c \in DOMAIN map /\ map[c] # Absent THEN map[c] ELSE Nil

Members(r) ==
    {c \in ClientConns : ClientsToHostConnections[r][c] # Absent}
    \cup ({ClientsToHostConnections[r][c] : c \in ClientConns} \ {Nil, Absent})

\* Variant: looks for the leaving connection among the clients only.
PartnersOfClient(r, c) ==
    {EntryOrNil(ClientsToHostConnections[r], c)} \ {Nil}

\* The two lookups of the branch for clients and data connections.
Partners(r, c) ==
    {EntryOrNil(ClientsToHostConnections[r], c),
     EntryOrNil(HostToClientsConnections[r], c)} \ {Nil}

\* Variant: the room stays listed.
StillRegistered(code) == Rooms

Unregistered(code) == [Rooms EXCEPT ![code] = Absent]

\* The host leaves: its room goes and all its members are to be closed.
CleanupAsHost(c) ==
    /\ pc[c] = "cleanup"
    /\ Rooms[gameId[c]] # Absent
    /\ Host[Rooms[gameId[c]]] = c
    /\ toClose' = [toClose EXCEPT ![c] = Members(Rooms[gameId[c]])]
    /\ Rooms' = Unregistered(gameId[c])
    /\ RecentlyDeletedRooms' = RecentlyDeletedRooms \cup {gameId[c]}
    /\ Goto(c, "closing")
    /\ UNCHANGED <<roomVars, ageVars, NumberOfClientsConnected, sock, localVars,
                   signalled, creatorVars, sweeperVars>>

CleanupAsMember(c) ==
    /\ pc[c] = "cleanup"
    /\ Rooms[gameId[c]] # Absent
    /\ Host[Rooms[gameId[c]]] # c
    /\ toClose' = [toClose EXCEPT ![c] = Partners(Rooms[gameId[c]], c)]
    /\ Goto(c, "closing")
    /\ UNCHANGED <<Rooms, RecentlyDeletedRooms, roomVars, ageVars, sock,
                   NumberOfClientsConnected, localVars, signalled, creatorVars,
                   sweeperVars>>

\* No room under the code: the call returns before it closes anything.
CleanupWithoutRoom(c) ==
    /\ pc[c] = "cleanup"
    /\ Rooms[gameId[c]] = Absent
    /\ Goto(c, "done")
    /\ UNCHANGED <<Rooms, RecentlyDeletedRooms, roomVars, ageVars, sock,
                   NumberOfClientsConnected, localVars, toClose, signalled,
                   creatorVars, sweeperVars>>

CleanupReason(c, other) ==
    IF c \in HostConns
    THEN IF other \in DataConns THEN "SIGNAL_DISCONNECTED" ELSE "HOST_DISCONNECTED"
    ELSE "CLIENT_DISCONNECTED"

CloseOther(c, other) ==
    /\ pc[c] = "closing"
    /\ other \in toClose[c]
    /\ CloseWebsocket(other, CleanupReason(c, other))
    /\ toClose' = [toClose EXCEPT ![c] = @ \ {other}]
    /\ UNCHANGED <<Rooms, RecentlyDeletedRooms, roomVars, ageVars, pc,
                   NumberOfClientsConnected, localVars, signalled, creatorVars,
                   sweeperVars>>

\* Variant: closes the others only.
CloseOthersOnly(c) ==
    /\ pc[c] = "closing"
    /\ toClose[c] = {}
    /\ Goto(c, "done")
    /\ UNCHANGED <<Rooms, RecentlyDeletedRooms, roomVars, ageVars, toClose, sock,
                   NumberOfClientsConnected, localVars, signalled, creatorVars,
                   sweeperVars>>

CloseOwn(c) ==
    /\ pc[c] = "closing"
    /\ toClose[c] = {}
    /\ CloseWebsocket(c, "UNSPECIFIED")
    /\ Goto(c, "done")
    /\ UNCHANGED <<Rooms, RecentlyDeletedRooms, roomVars, ageVars, toClose,
                   NumberOfClientsConnected, localVars, signalled, creatorVars,
                   sweeperVars>>

CleanupStep(c) ==
    \/ CleanupAsHost(c)
    \/ CleanupAsMember(c)
    \/ CleanupWithoutRoom(c)
    \/ \E other \in Conns : CloseOther(c, other)
    \/ CloseOwn(c)
=============================================================================
