----------------------------- MODULE ClientRelay -----------------------------
(***************************************************************************)
(* clientRelayHandler (ConnectionsClientToRelay.go): a client registers a  *)
(* request, has the host told about it, waits until a data connection is   *)
(* linked to it and then forwards packets until either socket fails.       *)
(***************************************************************************)
EXTENDS RelayState

\* Variant: decrements once itself and once in the deferred call.
ClientLeavesTwice(c) ==
    /\ NumberOfClientsConnected' = NumberOfClientsConnected - 2
    /\ Goto(c, "cleanup")

(***************************************************************************)
(* The handler looks its room up again, and reads the host outside the     *)
(* lock.  A host is set once and only while its room is registered, so one *)
(* step reads what the two reads can read.  ClientLeaves is the deferred   *)
(* decrement with which every way out begins.                              *)
(***************************************************************************)
ClientLeaves(c) ==
    /\ NumberOfClientsConnected' = NumberOfClientsConnected - 1
    /\ Goto(c, "cleanup")

ClientEnter(c) ==
    /\ c \in ClientConns
    /\ pc[c] = "enter"
    /\ Rooms[gameId[c]] # Absent
    /\ Host[Rooms[gameId[c]]] # Nil
    /\ room' = [room EXCEPT ![c] = Rooms[gameId[c]]]
    /\ Goto(c, "register")
    /\ UNCHANGED <<Rooms, RecentlyDeletedRooms, roomVars, ageVars, sock, gameId,
                   NumberOfClientsConnected, peer, request, polled, toClose, signalled,
                   creatorVars, sweeperVars>>

ClientRefused(c) ==
    /\ c \in ClientConns
    /\ pc[c] = "enter"
    /\ \/ Rooms[gameId[c]] = Absent /\ CloseWebsocket(c, "ROOM_NOT_FOUND")
       \/ /\ Rooms[gameId[c]] # Absent
          /\ Host[Rooms[gameId[c]]] = Nil
          /\ CloseWebsocket(c, "ROOM_NO_HOST")
    /\ ClientLeaves(c)
    /\ UNCHANGED <<Rooms, RecentlyDeletedRooms, roomVars, ageVars, localVars,
                   toClose, signalled, creatorVars, sweeperVars>>

\* The id is random (one of 10^7) and not checked against the ones in use.
RegisterRequest(c, q) ==
    /\ pc[c] = "register"
    /\ UniqueRequests => \A other \in ClientConns : request[other] # q
    /\ RequestedConnectionsMap' = [RequestedConnectionsMap EXCEPT ![room[c]][q] = c]
    /\ request' = [request EXCEPT ![c] = q]
    /\ Goto(c, "nilEntry")
    /\ UNCHANGED <<Rooms, RecentlyDeletedRooms, Host, ClientsToHostConnections,
                   HostToClientsConnections, ageVars, NumberOfClientsConnected,
                   sock, gameId, room, peer, polled, toClose, signalled, creatorVars,
                   sweeperVars>>

RegisterNilEntry(c) ==
    /\ pc[c] = "nilEntry"
    /\ ClientsToHostConnections' =
            [ClientsToHostConnections EXCEPT ![room[c]][c] = Nil]
    /\ Goto(c, "announce")
    /\ UNCHANGED <<Rooms, RecentlyDeletedRooms, Host, RequestedConnectionsMap,
                   HostToClientsConnections, ageVars, NumberOfClientsConnected,
                   sock, localVars, toClose, signalled, creatorVars, sweeperVars>>

(***************************************************************************)
(* host.WriteMessage under HostMu.  A write to a peer that left may still  *)
(* be accepted by the kernel; only an open socket delivers it.             *)
(***************************************************************************)
Announce(c) ==
    /\ pc[c] = "announce"
    /\ LET host == sock[Host[room[c]]] IN
       \/ /\ host \in {"open", "gone"}
          /\ signalled' = IF host = "open"
                          THEN signalled \cup {<<gameId[c], request[c]>>}
                          ELSE signalled
          /\ Goto(c, "waiting")
          /\ UNCHANGED NumberOfClientsConnected
       \/ /\ host # "open"
          /\ ClientLeaves(c)
          /\ UNCHANGED signalled
    /\ UNCHANGED <<Rooms, RecentlyDeletedRooms, roomVars, ageVars, sock,
                   localVars, toClose, creatorVars, sweeperVars>>

(***************************************************************************)
(* waitForHostConnectionAndReturnIt: each turn of the loop looks the room  *)
(* up by its code, and then reads this client's entry in that room's map,  *)
(* which may no longer be registered by then.  The one minute limit is     *)
(* looked at only when there is no entry: a turn that reads nil starts the *)
(* next one at once.                                                       *)
(***************************************************************************)
WaitReturns(c, hostConn) ==
    /\ peer' = [peer EXCEPT ![c] = hostConn]
    /\ Goto(c, "forget")
    /\ UNCHANGED <<Rooms, RecentlyDeletedRooms, roomVars, ageVars, sock, gameId,
                   NumberOfClientsConnected, room, request, polled, toClose,
                   signalled, creatorVars, sweeperVars>>

WaitFails(c) ==
    /\ pc[c] = "waiting"
    /\ \/ Rooms[gameId[c]] = Absent
       \/ Rooms[gameId[c]] # Absent /\ Host[Rooms[gameId[c]]] = Nil
    /\ WaitReturns(c, Nil)

WaitLooksUp(c) ==
    /\ pc[c] = "waiting"
    /\ Rooms[gameId[c]] # Absent
    /\ Host[Rooms[gameId[c]]] # Nil
    /\ polled' = [polled EXCEPT ![c] = Rooms[gameId[c]]]
    /\ Goto(c, "polling")
    /\ UNCHANGED <<Rooms, RecentlyDeletedRooms, roomVars, ageVars, sock, gameId,
                   NumberOfClientsConnected, room, peer, request, toClose,
                   signalled, creatorVars, sweeperVars>>

PollFinds(c) ==
    /\ pc[c] = "polling"
    /\ ClientsToHostConnections[polled[c]][c] \in DataConns
    /\ WaitReturns(c, ClientsToHostConnections[polled[c]][c])

\* Either nil, or no entry and the minute is not over.
PollAgain(c) ==
    /\ pc[c] = "polling"
    /\ ClientsToHostConnections[polled[c]][c] \in {Nil, Absent}
    /\ Goto(c, "waiting")
    /\ UNCHANGED <<Rooms, RecentlyDeletedRooms, roomVars, ageVars, sock, localVars,
                   NumberOfClientsConnected, toClose, signalled, creatorVars,
                   sweeperVars>>

\* Variant: waits for ever when the client has no entry, too.
PollNeverTimesOut(c) == pc[c] = "polling" /\ FALSE

PollTimesOut(c) ==
    /\ pc[c] = "polling"
    /\ ClientsToHostConnections[polled[c]][c] = Absent
    /\ WaitReturns(c, Nil)

\* handleRequestCleanup, deferred: the room is looked up by its code again.
ForgetRequest(c) ==
    /\ pc[c] = "forget"
    /\ RequestedConnectionsMap' =
            IF Rooms[gameId[c]] = Absent THEN RequestedConnectionsMap
            ELSE RequestsWithout(Rooms[gameId[c]], request[c])
    /\ \/ /\ peer[c] # Nil
          /\ Goto(c, "relaying")
          /\ UNCHANGED NumberOfClientsConnected
       \/ peer[c] = Nil /\ ClientLeaves(c)
    /\ UNCHANGED <<Rooms, RecentlyDeletedRooms, Host, ClientsToHostConnections,
                   HostToClientsConnections, ageVars, sock, localVars, toClose,
                   signalled, creatorVars, sweeperVars>>

(***************************************************************************)
(* The forwarding loop ends when a read from the own socket or a write to  *)
(* the peer's fails, when a packet is too large or when rate limiting      *)
(* fails: at any time, as far as this state can tell.                      *)
(***************************************************************************)
ClientRelayEnds(c) ==
    /\ c \in ClientConns
    /\ pc[c] = "relaying"
    /\ ClientLeaves(c)
    /\ UNCHANGED <<Rooms, RecentlyDeletedRooms, roomVars, ageVars, sock,
                   localVars, toClose, signalled, creatorVars, sweeperVars>>

ClientStep(c) ==
    \/ ClientEnter(c)
    \/ ClientRefused(c)
    \/ \E q \in Requests : RegisterRequest(c, q)
    \/ RegisterNilEntry(c)
    \/ Announce(c)
    \/ WaitFails(c)
    \/ WaitLooksUp(c)
    \/ PollFinds(c)
    \/ PollAgain(c)
    \/ PollTimesOut(c)
    \/ ForgetRequest(c)
=============================================================================
