----------------------------- MODULE RelayState -----------------------------
(***************************************************************************)
(* The memory of the relay process that its goroutines share (ServerData   *)
(* and Room in Types.go) and the locals of each goroutine that a later     *)
(* step reads.  Every handler module extends this one.                     *)
(*                                                                         *)
(* There is one goroutine per WebSocket connection, so a connection is     *)
(* also the name of its goroutine.  The role of a connection is fixed by   *)
(* the query of its /join request: HostConns carry host=..., DataConns     *)
(* carry host=... and request=..., ClientConns carry neither.              *)
(*                                                                         *)
(* An action is what a goroutine does between two points where another one *)
(* can interfere: one critical section, or one write to a socket.          *)
(***************************************************************************)
EXTENDS Integers, FiniteSets

CONSTANTS
    Codes,          \* room codes
    ReusableCodes,  \* every code but 676767, which a reuse token never opens
    RoomObjs,       \* the *Room values the process can allocate
    HostConns, ClientConns, DataConns,
    Requests,       \* the REQUESTCONNECTION_... messages
    UniqueRequests, \* TRUE: their random parts never collide
    Creators,       \* /create requests that find a hosted room in their way
    Leavers,        \* connections whose peer may go away by itself
    AgingRooms,     \* rooms that may live long enough for the sweepers
    Nil,            \* a nil pointer
    Absent          \* the value of a key that a map does not hold

Conns == HostConns \cup ClientConns \cup DataConns

ASSUME SentinelsAssumption ==
    /\ Nil # Absent
    /\ Nil \notin RoomObjs \cup Conns \cup Requests
    /\ Absent \notin RoomObjs \cup Conns \cup Requests

ASSUME RolesAssumption ==
    /\ HostConns \cap ClientConns = {}
    /\ HostConns \cap DataConns = {}
    /\ ClientConns \cap DataConns = {}
    /\ ReusableCodes \subseteq Codes
    /\ UniqueRequests \in BOOLEAN
    /\ Leavers \subseteq Conns
    /\ AgingRooms \subseteq RoomObjs

VARIABLES
    Rooms,                      \* code -> the room registered under it
    RecentlyDeletedRooms,       \* codes whose room its host closed lately
    Host,                       \* Room.Host (HasHost is Host # nil: set together)
    RequestedConnectionsMap,    \* per room: request -> client
    ClientsToHostConnections,   \* per room: client -> data connection or nil
    HostToClientsConnections,   \* per room: data connection -> client
    allocated,                  \* rooms made so far
    expired,                    \* rooms older than RoomEmptyCleanupDelay
    idle,                       \* rooms not filled for RoomIdleNoClientDelay
    NumberOfClientsConnected,
    sock,                       \* state of each WebSocket, or why it was closed
    pc,                         \* where the goroutine of each connection is
    gameId, room, peer, request,\* its locals
    polled,                     \* the room that the wait loop of a client looked up
    toClose,                    \* handleCleanup's list of other sockets to close
    signalled,                  \* requests that reached the host of a code
    creatorPc, creatorCode, oldRoom,    \* HandleCreatePath while it evicts
    staleRooms,                 \* CleanUnusedRooms between its two phases
    codesToDelete, idleHosts    \* CleanIdleRooms between its phases

roomVars == <<Host, RequestedConnectionsMap, ClientsToHostConnections,
              HostToClientsConnections>>
ageVars == <<allocated, expired, idle>>
localVars == <<gameId, room, peer, request, polled>>
creatorVars == <<creatorPc, creatorCode, oldRoom>>
sweeperVars == <<staleRooms, codesToDelete, idleHosts>>
vars == <<Rooms, RecentlyDeletedRooms, roomVars, ageVars,
          NumberOfClientsConnected, sock, pc, localVars, toClose, signalled,
          creatorVars, sweeperVars>>

Reasons == {"ROOM_NOT_FOUND", "ROOM_RECENTLY_CLOSED", "ROOM_NO_HOST",
            "INVALID_ACTION", "INVALID_REQUEST_ID", "PAIR_LINK_FAILED",
            "SIGNAL_DISCONNECTED", "HOST_DISCONNECTED", "CLIENT_DISCONNECTED",
            "REUSE_TOKEN_PRESENTED", "CONNECTION_IDLE", "UNSPECIFIED"}

Labels == {"none", "missed", "enter", "register", "nilEntry", "announce",
           "waiting", "polling", "forget", "take", "link", "linkBack", "relaying",
           "cleanup", "closing", "done"}

Registered(r) == \E code \in Codes : Rooms[code] = r

\* "open": both ends up; "gone": the peer left and the relay has not closed it.
Unclosed(c) == sock[c] \in {"open", "gone"}

Goto(c, label) == pc' = [pc EXCEPT ![c] = label]

\* CloseWebsocket: the first reason is the one the peer is told.
CloseWebsocket(c, reason) ==
    sock' = [sock EXCEPT ![c] = IF @ \in {"open", "gone"} THEN reason ELSE @]

\* The upgrade of a request that the handler then turns down for good.
Reject(c, reason) ==
    /\ sock' = [sock EXCEPT ![c] = reason]
    /\ Goto(c, "done")

\* Upgrade: the socket is open before the handler looks at the request.
Accept(c, label) ==
    /\ sock' = [sock EXCEPT ![c] = "open"]
    /\ Goto(c, label)

\* Variant: the request stays in the map after it was answered.
RequestsKept(r, q) == RequestedConnectionsMap

\* delete(room.RequestedConnectionsMap, request)
RequestsWithout(r, q) ==
    [RequestedConnectionsMap EXCEPT ![r][q] = Absent]

TypeOK ==
    /\ Rooms \in [Codes -> RoomObjs \cup {Absent}]
    /\ RecentlyDeletedRooms \in SUBSET Codes
    /\ Host \in [RoomObjs -> HostConns \cup {Nil}]
    /\ RequestedConnectionsMap \in [RoomObjs -> [Requests -> ClientConns \cup {Absent}]]
    /\ ClientsToHostConnections \in [RoomObjs -> [ClientConns -> DataConns \cup {Nil, Absent}]]
    /\ HostToClientsConnections \in [RoomObjs -> [DataConns -> ClientConns \cup {Absent}]]
    /\ allocated \in SUBSET RoomObjs
    /\ expired \in SUBSET RoomObjs
    /\ idle \in SUBSET RoomObjs
    /\ NumberOfClientsConnected \in Int
    /\ sock \in [Conns -> {"none", "open", "gone"} \cup Reasons]
    /\ pc \in [Conns -> Labels]
    /\ gameId \in [Conns -> Codes \cup {Nil}]
    /\ room \in [Conns -> RoomObjs \cup {Nil}]
    /\ peer \in [Conns -> Conns \cup {Nil}]
    /\ request \in [Conns -> Requests \cup {Nil}]
    /\ polled \in [ClientConns -> RoomObjs \cup {Nil}]
    /\ toClose \in [Conns -> SUBSET Conns]
    /\ signalled \in SUBSET (Codes \X Requests)
    /\ creatorPc \in [Creators -> {"idle", "evict", "retake", "done"}]
    /\ creatorCode \in [Creators -> Codes \cup {Nil}]
    /\ oldRoom \in [Creators -> RoomObjs \cup {Nil}]
    /\ staleRooms \in SUBSET Codes
    /\ codesToDelete \in SUBSET Codes
    /\ idleHosts \in SUBSET HostConns
=============================================================================
