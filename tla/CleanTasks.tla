----------------------------- MODULE CleanTasks -----------------------------
(***************************************************************************)
(* The background sweepers of CleanTasks.go.  Each scans under a read lock *)
(* and acts on what it found under a lock it takes later.  Clocks are      *)
(* abstracted: a registered room may at any time become older than         *)
(* RoomEmptyCleanupDelay (expired) or have gone unfilled for longer than   *)
(* RoomIdleNoClientDelay (idle).                                           *)
(***************************************************************************)
EXTENDS RelayState

Expire(r) ==
    /\ Registered(r)
    /\ r \notin expired
    /\ expired' = expired \cup {r}
    /\ UNCHANGED <<Rooms, RecentlyDeletedRooms, roomVars, allocated, idle, sock,
                   pc, NumberOfClientsConnected, localVars, toClose, signalled,
                   creatorVars, sweeperVars>>

BecomeIdle(r) ==
    /\ Registered(r)
    /\ r \notin idle
    /\ idle' = idle \cup {r}
    /\ UNCHANGED <<Rooms, RecentlyDeletedRooms, roomVars, allocated, expired,
                   sock, pc, NumberOfClientsConnected, localVars, toClose,
                   signalled, creatorVars, sweeperVars>>

Unhosted(code) == Rooms[code] # Absent /\ Host[Rooms[code]] = Nil

UnusedScan ==
    /\ staleRooms = {}
    /\ staleRooms' = {code \in Codes : Unhosted(code) /\ Rooms[code] \in expired}
    /\ staleRooms' # {}
    /\ UNCHANGED <<Rooms, RecentlyDeletedRooms, roomVars, ageVars, sock, pc,
                   NumberOfClientsConnected, localVars, toClose, signalled,
                   creatorVars, codesToDelete, idleHosts>>

\* Checks again that the room has no host, but not which room it is.
UnusedPrune ==
    /\ staleRooms # {}
    /\ Rooms' = [code \in Codes |->
                    IF code \in staleRooms /\ Unhosted(code) THEN Absent
                    ELSE Rooms[code]]
    /\ staleRooms' = {}
    /\ UNCHANGED <<RecentlyDeletedRooms, roomVars, ageVars, sock, pc, localVars,
                   NumberOfClientsConnected, toClose, signalled, creatorVars,
                   codesToDelete, idleHosts>>

\* Clients are never taken out of the map, so this is a room none has entered.
NeverEntered(r) == \A c \in ClientConns : ClientsToHostConnections[r][c] = Absent

\* Variant: lists the nil host of a room that has none.
HostsOrNil(codes) == {Host[Rooms[code]] : code \in codes}

HostsOf(codes) == {Host[Rooms[code]] : code \in codes} \ {Nil}

IdleScan ==
    /\ codesToDelete = {}
    /\ idleHosts = {}
    /\ codesToDelete' = {code \in Codes : /\ Rooms[code] \in idle
                                          /\ NeverEntered(Rooms[code])}
    /\ codesToDelete' # {}
    /\ idleHosts' = HostsOf(codesToDelete')
    /\ UNCHANGED <<Rooms, RecentlyDeletedRooms, roomVars, ageVars, sock, pc,
                   NumberOfClientsConnected, localVars, toClose, signalled,
                   creatorVars, staleRooms>>

\* Deletes by code, without a second look at the room.
IdleDelete ==
    /\ codesToDelete # {}
    /\ Rooms' = [code \in Codes |->
                    IF code \in codesToDelete THEN Absent ELSE Rooms[code]]
    /\ codesToDelete' = {}
    /\ UNCHANGED <<RecentlyDeletedRooms, roomVars, ageVars, sock, pc, localVars,
                   NumberOfClientsConnected, toClose, signalled, creatorVars,
                   staleRooms, idleHosts>>

IdleClose(h) ==
    /\ codesToDelete = {}
    /\ h \in idleHosts
    /\ CloseWebsocket(h, "CONNECTION_IDLE")
    /\ idleHosts' = idleHosts \ {h}
    /\ UNCHANGED <<Rooms, RecentlyDeletedRooms, roomVars, ageVars, pc, localVars,
                   NumberOfClientsConnected, toClose, signalled, creatorVars,
                   staleRooms, codesToDelete>>

(***************************************************************************)
(* CleanRecentlyDeletedRoomReasons: a code is queued under a read lock and *)
(* forgotten under a write lock.  It may have been closed again meanwhile, *)
(* so a code can be forgotten at any age.                                  *)
(***************************************************************************)
ForgetReason(code) ==
    /\ code \in RecentlyDeletedRooms
    /\ RecentlyDeletedRooms' = RecentlyDeletedRooms \ {code}
    /\ UNCHANGED <<Rooms, roomVars, ageVars, sock, pc, NumberOfClientsConnected,
                   localVars, toClose, signalled, creatorVars, sweeperVars>>

SweepStep ==
    \/ UnusedScan
    \/ UnusedPrune
    \/ IdleScan
    \/ IdleDelete
    \/ \E h \in HostConns : IdleClose(h)
=============================================================================
