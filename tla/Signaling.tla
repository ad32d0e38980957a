------------------------------ MODULE Signaling ------------------------------
(***************************************************************************)
(* The WebRTC signalling of one game code: a host's SIGNAL socket          *)
(* (ConnectionsSignalFromHost.go), the SIGNAL sockets of clients           *)
(* (ConnectionsSignalFromClient.go), and game clients that announce        *)
(* themselves to the host (clientRelayHandler).  All of them write to the  *)
(* host's socket, under the HostMu of a room.  For every packet that room  *)
(* is looked up again by the code, so it may be a later one than the room  *)
(* that the socket joined.                                                 *)
(*                                                                         *)
(* Left out: packets that change nothing (pongs, "connection established", *)
(* text, the empty message), and the bytes of the others.  Close frames    *)
(* are only there in that a write may meet one (WritesCollide).            *)
(***************************************************************************)
CONSTANTS
    RoomObjs,   \* the Room objects that are made, one after the other
    Hosts,      \* SIGNAL sockets of hosts, and their goroutines
    Clients,    \* SIGNAL sockets of clients
    Players,    \* game clients
    Ids,        \* what the second byte of a handshake packet may be
    None

Threads == Hosts \cup Clients \cup Players
Handshakes == Ids \cup {None}   \* None: the packet has no second byte

ASSUME KindsAssumption ==
    /\ Hosts \cap Clients = {}
    /\ (Hosts \cup Clients) \cap Players = {}
    /\ None \notin RoomObjs \cup Threads \cup Ids
    /\ {"ping", "announce"} \cap Handshakes = {}

VARIABLES
    listed,     \* app.Rooms[code]
    made,       \* the rooms made so far
    Host,       \* Room.Host; Room.HasHost says whether it is set
    HostMu,     \* who holds Room.HostMu
    WebRTCHandshakeConnectionsMap,
    heard,      \* history: the handshake packets written to each room's host
    pc,
    joined,     \* history: the room that a client's handler was let into
    room,       \* the room that a goroutine found for the packet at hand
    message,    \* that packet: "ping", "announce" or a handshake
    peer,       \* otherSignConn
    up          \* the process lives

roomVars == <<listed, made, Host>>
idVars == <<WebRTCHandshakeConnectionsMap, heard>>
packetVars == <<room, message, peer>>
vars == <<roomVars, idVars, packetVars, HostMu, pc, joined, up>>

Pcs == {"out", "enter", "read", "lock", "write", "assign", "lookup", "send",
        "cleanup", "done"}

TypeOK ==
    /\ listed \in RoomObjs \cup {None}
    /\ made \subseteq RoomObjs
    /\ Host \in [RoomObjs -> Hosts \cup {None}]
    /\ HostMu \in [RoomObjs -> Threads \cup {None}]
    /\ WebRTCHandshakeConnectionsMap \in [RoomObjs -> [Ids -> Clients \cup {None}]]
    /\ heard \subseteq [room : RoomObjs, client : Clients, id : Ids]
    /\ pc \in [Threads -> Pcs]
    /\ joined \in [Clients -> RoomObjs \cup {None}]
    /\ room \in [Threads -> RoomObjs \cup {None}]
    /\ message \in [Threads -> Handshakes \cup {"ping", "announce"}]
    /\ peer \in [Hosts -> Clients \cup {None}]
    /\ up \in BOOLEAN

Init ==
    /\ listed = None
    /\ made = {}
    /\ Host = [r \in RoomObjs |-> None]
    /\ HostMu = [r \in RoomObjs |-> None]
    /\ WebRTCHandshakeConnectionsMap = [r \in RoomObjs |-> [i \in Ids |-> None]]
    /\ heard = {}
    /\ pc = [x \in Threads |-> "out"]
    /\ joined = [c \in Clients |-> None]
    /\ room = [x \in Threads |-> None]
    /\ message = [x \in Threads |-> None]
    /\ peer = [h \in Hosts |-> None]
    /\ up = TRUE

Goto(x, label) == pc' = [pc EXCEPT ![x] = label]

\* On to label, done with the packet at hand.
HandledTo(x, label) ==
    /\ Goto(x, label)
    /\ room' = [room EXCEPT ![x] = None]
    /\ message' = [message EXCEPT ![x] = None]

-----------------------------------------------------------------------------
(* Rooms, as the other parts of the relay make and delete them *)

\* A new room under the code, in the place of the old one if the creator has a
\* reuse token.
RoomMade(r) ==
    /\ r \notin made
    /\ made' = made \cup {r}
    /\ listed' = r
    /\ UNCHANGED <<Host, idVars, packetVars, HostMu, pc, joined, up>>

\* A sweep.
RoomDeleted ==
    /\ listed' = None
    /\ UNCHANGED <<made, Host, idVars, packetVars, HostMu, pc, joined, up>>

-----------------------------------------------------------------------------
(* Coming and going *)

HostJoins(h) ==
    /\ pc[h] = "out"
    /\ listed # None
    /\ Host[listed] = None
    /\ Host' = [Host EXCEPT ![listed] = h]
    /\ Goto(h, "enter")
    /\ UNCHANGED <<listed, made, idVars, packetVars, HostMu, joined, up>>

\* The handler of a host returns at once, with nothing deferred, if it finds no room.
HostEnters(h) ==
    /\ pc[h] = "enter"
    /\ Goto(h, IF listed = None THEN "done" ELSE "read")
    /\ UNCHANGED <<roomVars, idVars, packetVars, HostMu, joined, up>>

\* Variant: does not ask whether there is a host.
LetsIn(r) == r # None

\* The two early returns of the client's handler, after the same look-up in /join.
MayEnter(r) == r # None /\ Host[r] # None

ClientEnters(c) ==
    /\ pc[c] = "out" /\ made # {}
    /\ IF MayEnter(listed)
       THEN Goto(c, "read") /\ joined' = [joined EXCEPT ![c] = listed]
       ELSE Goto(c, "done") /\ UNCHANGED joined
    /\ UNCHANGED <<roomVars, idVars, packetVars, HostMu, up>>

\* A failed read, a peer silent for 30 s, or one that breaks a limit.
ReadEnds(x) ==
    /\ pc[x] = "read"
    /\ Goto(x, "cleanup")
    /\ UNCHANGED <<roomVars, idVars, packetVars, HostMu, joined, up>>

\* handleCleanup: the room goes with its host.
Cleanup(x) ==
    /\ pc[x] = "cleanup"
    /\ listed' = IF listed # None /\ Host[listed] = x THEN None ELSE listed
    /\ Goto(x, "done")
    /\ UNCHANGED <<made, Host, idVars, packetVars, HostMu, joined, up>>

-----------------------------------------------------------------------------
(* Packets: HandleSignalPacket, HandleSignalPacketFromClient *)

\* Goroutine x has packet m, and goes on to label if the code names a room.
Handle(x, m, label) ==
    /\ listed # None
    /\ room' = [room EXCEPT ![x] = listed]
    /\ message' = [message EXCEPT ![x] = m]
    /\ Goto(x, label)
    /\ UNCHANGED <<roomVars, idVars, peer, HostMu, joined, up>>

\* Variant: a host is answered without the lock.
HostPingsUnlocked(h) == pc[h] = "read" /\ Handle(h, "ping", "write")

HostPings(h) == pc[h] = "read" /\ Handle(h, "ping", "lock")

HostForwards(h) ==
    /\ pc[h] = "read"
    /\ \E id \in Ids : Handle(h, id, "lookup")

ClientSends(c) ==
    /\ pc[c] = "read"
    /\ \E m \in Handshakes \cup {"ping"} : Handle(c, m, "lock")

\* The game client's handler finds a room with a host, once.
PlayerAnnounces(p) ==
    /\ pc[p] = "out"
    /\ MayEnter(listed)
    /\ Handle(p, "announce", "lock")

Lock(x) ==
    /\ pc[x] = "lock"
    /\ HostMu[room[x]] = None
    /\ HostMu' = [HostMu EXCEPT ![room[x]] = x]
    /\ Goto(x, "write")
    /\ UNCHANGED <<roomVars, idVars, packetVars, joined, up>>

Unlock(x) == HostMu' = [HostMu EXCEPT ![room[x]] = None]

\* Variant: returns without unlocking.
PongKeepsLock(x) ==
    /\ pc[x] = "write" /\ message[x] = "ping"
    /\ HandledTo(x, "read")
    /\ UNCHANGED <<roomVars, idVars, peer, HostMu, joined, up>>

\* The answer to a ping goes to one's own socket.
Pong(x) ==
    /\ pc[x] = "write" /\ message[x] = "ping"
    /\ Unlock(x)
    /\ HandledTo(x, "read")
    /\ UNCHANGED <<roomVars, idVars, peer, joined, up>>

Announce(p) ==
    /\ pc[p] = "write" /\ message[p] = "announce"
    /\ Unlock(p)
    /\ HandledTo(p, "done")
    /\ UNCHANGED <<roomVars, idVars, peer, joined, up>>

ForwardToHost(c) ==
    /\ pc[c] = "write" /\ message[c] \in Handshakes
    /\ Host[room[c]] # None
    /\ Unlock(c)
    /\ IF message[c] = None
       THEN HandledTo(c, "read") /\ UNCHANGED heard
       ELSE /\ Goto(c, "assign")
            /\ heard' = heard \cup {[room |-> room[c], client |-> c, id |-> message[c]]}
            /\ UNCHANGED <<room, message>>
    /\ UNCHANGED <<roomVars, WebRTCHandshakeConnectionsMap, peer, joined, up>>

\* Variant: a packet for a missing host is dropped, and the id noted.
NilHostIsSkipped(c) ==
    /\ pc[c] = "write" /\ message[c] \in Ids
    /\ Host[room[c]] = None
    /\ Unlock(c)
    /\ Goto(c, "assign")
    /\ UNCHANGED <<roomVars, idVars, packetVars, joined, up>>

\* A room that has no host yet: the write panics with HostMu locked.
NilHostPanics(c) ==
    /\ pc[c] = "write" /\ message[c] \in Handshakes
    /\ Host[room[c]] = None
    /\ HandledTo(c, "cleanup")
    /\ UNCHANGED <<roomVars, idVars, peer, HostMu, joined, up>>

AssignId(c) ==
    /\ pc[c] = "assign"
    /\ WebRTCHandshakeConnectionsMap' =
            [WebRTCHandshakeConnectionsMap EXCEPT ![room[c]][message[c]] = c]
    /\ HandledTo(c, "read")
    /\ UNCHANGED <<roomVars, heard, peer, HostMu, joined, up>>

LookUpId(h) ==
    LET other == WebRTCHandshakeConnectionsMap[room[h]][message[h]] IN
    /\ pc[h] = "lookup"
    /\ peer' = [peer EXCEPT ![h] = other]
    /\ IF other = None THEN HandledTo(h, "read")
       ELSE Goto(h, "send") /\ UNCHANGED <<room, message>>
    /\ UNCHANGED <<roomVars, idVars, HostMu, joined, up>>

\* No lock: the client's own goroutine may be writing a pong.
SendToClient(h) ==
    /\ pc[h] = "send"
    /\ peer' = [peer EXCEPT ![h] = None]
    /\ HandledTo(h, "read")
    /\ UNCHANGED <<roomVars, idVars, HostMu, joined, up>>

-----------------------------------------------------------------------------
(* Panics: those of the handlers are recovered by net/http *)

\* The socket that a goroutine writes a packet to.
WritesTo(x) ==
    CASE pc[x] = "send" -> peer[x]
      [] pc[x] = "write" /\ message[x] = "ping" -> x
      [] pc[x] = "write" /\ message[x] # "ping" -> Host[room[x]]
      [] OTHER -> None

\* The WebSocket library panics when it notices another writer: a host forwards to
\* a client that writes a pong itself, or the close frame of an eviction, a sweep
\* or the host's own end meets a write to the host.  A HostMu stays locked.
WritesCollide(x) ==
    /\ \/ WritesTo(x) \in Hosts
       \/ /\ WritesTo(x) \in Clients
          /\ \E y \in Threads \ {x} : WritesTo(y) = WritesTo(x)
    /\ peer' = [h \in Hosts |-> IF h = x THEN None ELSE peer[h]]
    /\ HandledTo(x, "cleanup")
    /\ UNCHANGED <<roomVars, idVars, HostMu, joined, up>>

\* The Go runtime ends the process when it notices that a map is written to by
\* one goroutine and used by another.
MapsCollide ==
    /\ \E c \in Clients, x \in Threads :
            /\ x # c /\ pc[c] = "assign" /\ pc[x] \in {"assign", "lookup"}
            /\ room[c] = room[x]
    /\ up' = FALSE
    /\ UNCHANGED <<roomVars, idVars, packetVars, HostMu, pc, joined>>

-----------------------------------------------------------------------------
WriteStep(x) ==
    \/ Pong(x)
    \/ x \in Players /\ Announce(x)
    \/ x \in Clients /\ (ForwardToHost(x) \/ NilHostPanics(x))

Next ==
    /\ up
    /\ \/ \E r \in RoomObjs : RoomMade(r)
       \/ RoomDeleted
       \/ \E h \in Hosts : \/ HostJoins(h) \/ HostEnters(h) \/ HostPings(h)
                           \/ HostForwards(h) \/ LookUpId(h) \/ SendToClient(h)
       \/ \E c \in Clients : \/ ClientEnters(c) \/ ClientSends(c)
                             \/ AssignId(c)
       \/ \E p \in Players : PlayerAnnounces(p)
       \/ \E x \in Threads : \/ Lock(x) \/ WriteStep(x) \/ WritesCollide(x)
                             \/ ReadEnds(x) \/ Cleanup(x)
       \/ MapsCollide

Spec == Init /\ [][Next]_vars

(***************************************************************************)
(* A write finishes, which supposes that the peer reads, and sync.Mutex    *)
(* hands a lock to whoever waits for long enough (assumed of hosts only:   *)
(* the property is theirs).                                                *)
(***************************************************************************)
Fairness ==
    /\ \A r \in RoomObjs : WF_vars(up /\ \E x \in Threads : room[x] = r /\ WriteStep(x))
    /\ \A h \in Hosts : SF_vars(up /\ Lock(h))

FairSpec == Spec /\ Fairness

-----------------------------------------------------------------------------
\* A HostMu whose holder has left without unlocking it.
Lost(r) == HostMu[r] # None /\ pc[HostMu[r]] \in {"cleanup", "done"}

\* Only a client that joined an earlier room under the same code comes to write a
\* handshake to a missing Host, and panics: whoever was let into a room found a
\* host there, and a room never loses its host.
NilHostNeedsReuse ==
    \A c \in Clients :
        pc[c] = "write" /\ message[c] \in Handshakes /\ Host[room[c]] = None
            => joined[c] # room[c]

\* A HostMu is held only by a goroutine that is about to write under it, and that
\* unlocks this room's HostMu and no other, although the room under the code may
\* have changed; or it is lost to a panic.  So nobody waits for one HostMu while it
\* holds another.
HostMuHasWriter ==
    \A r \in RoomObjs : HostMu[r] # None =>
        \/ pc[HostMu[r]] = "write" /\ room[HostMu[r]] = r
        \/ Lost(r)

\* A host that waits for a HostMu, to answer a ping, gets it unless it is lost to a
\* panic: the handlers of clients and players all give it back, and nobody waits
\* for another lock while holding it.
HostMuIsGranted ==
    \A h \in Hosts : pc[h] = "lock" ~> pc[h] # "lock" \/ Lost(room[h]) \/ ~up

\* While a room is listed, no two goroutines write packets to its host's socket at
\* a time, although the host's own goroutine takes the HostMu of the room it finds
\* under the code and a game client that of the room it joined.
ListedHostHasOneWriter ==
    listed # None /\ Host[listed] # None =>
        \A x, y \in Threads :
            WritesTo(x) = Host[listed] /\ WritesTo(y) = Host[listed] => x = y

\* What a host says to an id goes to a client that had written to a host under
\* this id before, in the room where it was looked up; that is the host's own room
\* unless another has taken its place.
AnswersFollowRequests ==
    \A h \in Hosts : pc[h] = "send" =>
        /\ [room |-> room[h], client |-> peer[h], id |-> message[h]] \in heard
        /\ Host[room[h]] = h \/ (listed # None => Host[listed] # h)
=============================================================================
