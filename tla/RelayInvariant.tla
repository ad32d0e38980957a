--------------------------- MODULE RelayInvariant ---------------------------
(***************************************************************************)
(* The inductive invariant behind the safety properties of Relay, in parts *)
(* that are each proved inductive relative to the ones before.             *)
(***************************************************************************)
EXTENDS Relay

\* The places a goroutine of each role can be in, in the order it takes them.
HostLabels == {"none", "enter", "relaying", "cleanup", "closing", "done"}
ClientLabels == {"none", "missed", "enter", "register", "nilEntry", "announce",
                 "waiting", "polling", "forget", "relaying", "cleanup",
                 "closing", "done"}
DataLabels == {"none", "take", "link", "linkBack", "enter", "relaying",
               "cleanup", "closing", "done"}

\* Roles keep to their labels, and peers are of the other kind.
RolesOK ==
    /\ \A h \in HostConns : pc[h] \in HostLabels
    /\ \A c \in ClientConns : /\ pc[c] \in ClientLabels
                              /\ peer[c] \in DataConns \cup {Nil}
    /\ \A d \in DataConns : /\ pc[d] \in DataLabels
                            /\ peer[d] \in ClientConns \cup {Nil}

\* Where a client has not found a room yet, and where it uses what it found.
BeforeRoom == {"none", "missed", "enter"}
BeforeRequest == BeforeRoom \cup {"register"}
BeforeEntry == BeforeRequest \cup {"nilEntry"}
UsesRoom == {"register", "nilEntry", "announce", "waiting", "polling", "forget",
             "relaying"}
UsesRequest == {"nilEntry", "announce", "waiting", "polling", "forget"}

\* The locals that the next step reads have been set.
LocalsOK ==
    /\ \A c \in Conns : pc[c] \notin {"none", "done"} => gameId[c] \in Codes
    /\ \A c \in ClientConns :
        /\ pc[c] \in BeforeRoom => room[c] = Nil
        /\ pc[c] \in UsesRoom => room[c] \in RoomObjs
        /\ pc[c] \in UsesRequest => request[c] \in Requests
        /\ pc[c] = "polling" => polled[c] \in RoomObjs
    /\ \A d \in DataConns :
        /\ pc[d] \in {"take", "link", "linkBack"} =>
                room[d] \in RoomObjs /\ request[d] \in Requests
        /\ pc[d] \in {"link", "linkBack"} => peer[d] \in ClientConns
    /\ \A p \in Creators :
        creatorPc[p] \in {"evict", "retake"} => creatorCode[p] \in Codes

TypeInv == TypeOK /\ RolesOK /\ LocalsOK

\* A client has an entry only in the room it entered, made after its request.
EntriesOfMembers ==
    \A r \in RoomObjs, c \in ClientConns :
        ClientsToHostConnections[r][c] # Absent =>
            room[c] = r /\ pc[c] \notin BeforeEntry

\* A request is the one its client registered in its room.
RequestsOfMembers ==
    \A r \in RoomObjs, q \in Requests, c \in ClientConns :
        RequestedConnectionsMap[r][q] = c =>
            room[c] = r /\ request[c] = q /\ pc[c] \notin BeforeRequest

\* A data connection that holds a request holds one of a member of its room.
TakersMatchMembers ==
    \A d \in DataConns :
        pc[d] = "link" =>
            room[peer[d]] = room[d] /\ pc[peer[d]] \notin BeforeRequest

\* The client's side of a link names the data connection that made it.
LinkedByTaker ==
    \A r \in RoomObjs, c \in ClientConns, d \in DataConns :
        ClientsToHostConnections[r][c] = d =>
            peer[d] = c /\ room[d] = r /\ pc[d] \notin {"none", "take", "link"}

Linked(c) == \E r \in RoomObjs : ClientsToHostConnections[r][c] \in DataConns

(***************************************************************************)
(* A client has at most one ticket to a data connection: its request in    *)
(* the map, a data connection that took it, or the link.                   *)
(***************************************************************************)
OneTicket ==
    /\ \A d \in DataConns : pc[d] = "link" => ~Linked(peer[d])
    /\ \A r \in RoomObjs, q \in Requests, c \in ClientConns :
        RequestedConnectionsMap[r][q] = c =>
            /\ ~Linked(c)
            /\ \A d \in DataConns : ~(pc[d] = "link" /\ peer[d] = c)
    /\ \A d1, d2 \in DataConns :
        pc[d1] = "link" /\ pc[d2] = "link" /\ peer[d1] = peer[d2] => d1 = d2

\* Both sides of a link agree, from the moment the second one is made.
SidesAgree ==
    /\ \A d \in DataConns :
        pc[d] = "linkBack" =>
            ClientsToHostConnections[room[d]][peer[d]] = d
    /\ \A r \in RoomObjs, c \in ClientConns, d \in DataConns :
        HostToClientsConnections[r][d] = c =>
            /\ peer[d] = c
            /\ room[d] = r
            /\ ClientsToHostConnections[r][c] = d
            /\ pc[d] \notin {"none", "take", "link", "linkBack"}

\* What the two forwarding loops hold is what the maps hold.
LoopsFollowMaps ==
    /\ \A c \in ClientConns :
        /\ peer[c] # Nil =>
            /\ room[c] \in RoomObjs
            /\ ClientsToHostConnections[room[c]][c] = peer[c]
        /\ pc[c] = "relaying" => peer[c] # Nil
    /\ \A d \in DataConns :
        pc[d] = "relaying" =>
            \E r \in RoomObjs : HostToClientsConnections[r][d] = peer[d]

PairInv ==
    /\ EntriesOfMembers
    /\ RequestsOfMembers
    /\ TakersMatchMembers
    /\ LinkedByTaker
    /\ OneTicket
    /\ SidesAgree
    /\ LoopsFollowMaps

\* A room is listed once, after it was made.
ListedOnce ==
    /\ \A code \in Codes : Rooms[code] # Absent => Rooms[code] \in allocated
    /\ \A k1, k2 \in Codes :
        Rooms[k1] # Absent /\ Rooms[k1] = Rooms[k2] => k1 = k2

\* A host owns the one room it claimed.
OwnersClaimed ==
    \A r \in RoomObjs, h \in HostConns :
        Host[r] = h => r \in allocated /\ room[h] = r /\ pc[h] # "none"

DirectoryInv == ListedOnce /\ OwnersClaimed /\ HostHoldsRoom

\* The room of a connection is listed under the connection's code, if at all.
ListedAtHome ==
    \A c \in Conns :
        room[c] # Nil =>
            /\ room[c] \in allocated
            /\ \A code \in Codes : Rooms[code] = room[c] => code = gameId[c]

\* A request that reached a host is one of a client, and a data connection
\* that holds a client answers the client's own request.
AnswersAreAsked ==
    /\ \A c \in ClientConns : pc[c] \in BeforeRequest => request[c] = Nil
    /\ \A code \in Codes, q \in Requests :
        <<code, q>> \in signalled => \E c \in ClientConns : request[c] = q
    /\ \A d \in DataConns :
        /\ pc[d] = "none" => request[d] = Nil
        /\ request[d] # Nil => \E code \in Codes : <<code, request[d]>> \in signalled
        /\ peer[d] # Nil => request[d] # Nil /\ request[peer[d]] = request[d]
    /\ UniqueRequests =>
        \A c1, c2 \in ClientConns :
            request[c1] # Nil /\ request[c1] = request[c2] => c1 = c2

Unheard(c) == \A code \in Codes : <<code, request[c]>> \notin signalled

Leaving == {"cleanup", "closing", "done"}

(***************************************************************************)
(* A client leaves a listed room without a data connection only because    *)
(* the host was lost; then, unless ids collide, the host never heard of    *)
(* the client and no data connection asks for it.                          *)
(***************************************************************************)
UnpairedAreUnheard ==
    \A c \in ClientConns :
        /\ room[c] # Nil => Host[room[c]] # Nil
        /\ pc[c] \in UsesRoom \ BeforeEntry =>
                ClientsToHostConnections[room[c]][c] # Absent
        /\ pc[c] \in {"nilEntry", "announce"} /\ UniqueRequests => Unheard(c)
        /\ pc[c] = "polling" /\ Registered(room[c]) => polled[c] = room[c]
        /\ pc[c] = "forget" /\ peer[c] = Nil => ~Registered(room[c])
        /\ pc[c] \in Leaving /\ peer[c] = Nil /\ room[c] # Nil /\ Registered(room[c]) =>
                /\ sock[Host[room[c]]] # "open"
                /\ UniqueRequests => Unheard(c)

\* What a handler that leaves a listed room has done about its partner.
SeesTo(c, other) ==
    /\ pc[c] = "closing" => other \in toClose[c] \/ ~Unclosed(other)
    /\ pc[c] = "done" => ~Unclosed(other)

LeaversSeeToPartners ==
    /\ \A c \in ClientConns :
        peer[c] # Nil /\ Registered(room[c]) => SeesTo(c, peer[c])
    /\ \A c \in ClientConns, d \in DataConns, r \in RoomObjs :
        HostToClientsConnections[r][d] = c /\ Registered(r) => SeesTo(d, c)

TeardownInv ==
    /\ ListedAtHome
    /\ NoStrandedSocket
    /\ AnswersAreAsked
    /\ UnpairedAreUnheard
    /\ LeaversSeeToPartners

\* All that the proofs carry from one step to the next.
IInv == TypeInv /\ PairInv /\ DirectoryInv /\ TeardownInv
=============================================================================
