--------------------------- MODULE SignalingProofs ---------------------------
(***************************************************************************)
(* The safety properties of Signaling, for any numbers of rooms, sockets   *)
(* and ids.                                                                *)
(***************************************************************************)
EXTENDS Signaling, TLAPS

Handling == {"lock", "write", "assign", "lookup", "send"}

\* A goroutine that handles a packet has found a room for it.
PacketsTyped ==
    \A x \in Threads :
        /\ pc[x] \in Handling => room[x] \in RoomObjs
        /\ pc[x] = "assign" => x \in Clients /\ message[x] \in Ids
        /\ pc[x] \in {"lookup", "send"} => x \in Hosts /\ message[x] \in Ids
        /\ pc[x] = "send" => peer[x] \in Clients

\* A room gets one host, once it is made, and a host one room.
OneRoomEach ==
    /\ listed # None => listed \in made
    /\ \A r \in RoomObjs : Host[r] # None => r \in made /\ pc[Host[r]] # "out"
    /\ \A r, q \in RoomObjs : Host[r] # None /\ Host[r] = Host[q] => r = q

\* Whoever was let into a room found a host there.
JoinedHosted ==
    \A c \in Clients : joined[c] # None => Host[joined[c]] # None

\* HostMu is held by whoever writes under it, or lost to a panic.
LocksHeld ==
    /\ \A x \in Threads : pc[x] = "write" => HostMu[room[x]] = x
    /\ \A r \in RoomObjs : HostMu[r] # None =>
            \/ pc[HostMu[r]] = "write" /\ room[HostMu[r]] = r
            \/ pc[HostMu[r]] \in {"cleanup", "done"}

\* As long as its room is listed, a host finds no other.
OwnRoom ==
    \A h \in Hosts :
        pc[h] \in Handling /\ listed # None /\ Host[listed] = h => room[h] = listed

\* An id is noted after the packet was written to the room's host.
IdsHeard ==
    /\ \A r \in RoomObjs, i \in Ids :
            WebRTCHandshakeConnectionsMap[r][i] # None =>
                [room |-> r, client |-> WebRTCHandshakeConnectionsMap[r][i], id |-> i] \in heard
    /\ \A c \in Clients : pc[c] = "assign" =>
            [room |-> room[c], client |-> c, id |-> message[c]] \in heard
    /\ \A h \in Hosts : pc[h] = "send" =>
            [room |-> room[h], client |-> peer[h], id |-> message[h]] \in heard

IInv ==
    /\ TypeOK
    /\ PacketsTyped
    /\ OneRoomEach
    /\ JoinedHosted
    /\ LocksHeld
    /\ OwnRoom
    /\ IdsHeard

-----------------------------------------------------------------------------
\* Every step keeps the types.
LEMMA TypeOKNext == ASSUME IInv, Next PROVE TypeOK'
<1> USE KindsAssumption DEF IInv, TypeOK, PacketsTyped, Handling, Threads,
   Handshakes, Pcs
<1>1. ASSUME NEW r \in RoomObjs, RoomMade(r) PROVE TypeOK'
  BY <1>1 DEF RoomMade, Goto, roomVars, idVars, packetVars
<1>2. CASE RoomDeleted
  BY <1>2 DEF RoomDeleted, Goto, roomVars, idVars, packetVars
<1>3. ASSUME NEW h \in Hosts, HostJoins(h) PROVE TypeOK'
  BY <1>3 DEF HostJoins, Goto, roomVars, idVars, packetVars
<1>4. ASSUME NEW h \in Hosts, HostEnters(h) PROVE TypeOK'
  BY <1>4 DEF HostEnters, Goto, roomVars, idVars, packetVars
<1>5. ASSUME NEW h \in Hosts, HostPings(h) PROVE TypeOK'
  BY <1>5 DEF HostPings, Handle, Goto, roomVars, idVars, packetVars
<1>6. ASSUME NEW h \in Hosts, HostForwards(h) PROVE TypeOK'
  BY <1>6 DEF HostForwards, Handle, Goto, roomVars, idVars, packetVars
<1>7. ASSUME NEW h \in Hosts, LookUpId(h) PROVE TypeOK'
  <2> DEFINE other == WebRTCHandshakeConnectionsMap[room[h]][message[h]]
  <2>1. pc[h] = "lookup" /\ room[h] \in RoomObjs /\ message[h] \in Ids
    BY <1>7 DEF LookUpId
  <2>2. other \in Clients \cup {None}
    BY <2>1
  <2>3. CASE other = None
    <3>1. HandledTo(h, "read") /\ peer' = [peer EXCEPT ![h] = None]
      BY <1>7, <2>3 DEF LookUpId
    <3>2. QED
      BY <1>7, <2>1, <3>1 DEF LookUpId, HandledTo, Goto, roomVars, idVars,
         packetVars
  <2>4. CASE other # None
    BY <1>7, <2>1, <2>2, <2>4 DEF LookUpId, Goto, roomVars, idVars, packetVars
  <2>5. QED
    BY <2>3, <2>4
<1>8. ASSUME NEW h \in Hosts, SendToClient(h) PROVE TypeOK'
  BY <1>8 DEF SendToClient, HandledTo, Goto, roomVars, idVars, packetVars
<1>9. ASSUME NEW c \in Clients, ClientEnters(c) PROVE TypeOK'
  BY <1>9 DEF ClientEnters, MayEnter, Goto, roomVars, idVars, packetVars
<1>10. ASSUME NEW c \in Clients, ClientSends(c) PROVE TypeOK'
  BY <1>10 DEF ClientSends, Handle, Goto, roomVars, idVars, packetVars
<1>11. ASSUME NEW c \in Clients, AssignId(c) PROVE TypeOK'
  BY <1>11 DEF AssignId, HandledTo, Goto, roomVars, idVars, packetVars
<1>12. ASSUME NEW p \in Players, PlayerAnnounces(p) PROVE TypeOK'
  BY <1>12 DEF PlayerAnnounces, MayEnter, Handle, Goto, roomVars, idVars, packetVars
<1>13. ASSUME NEW x \in Threads, Lock(x) PROVE TypeOK'
  BY <1>13 DEF Lock, Goto, roomVars, idVars, packetVars
<1>14. ASSUME NEW x \in Threads, Pong(x) PROVE TypeOK'
  BY <1>14 DEF Pong, Unlock, HandledTo, Goto, roomVars, idVars, packetVars
<1>15. ASSUME NEW x \in Players, Announce(x) PROVE TypeOK'
  BY <1>15 DEF Announce, Unlock, HandledTo, Goto, roomVars, idVars, packetVars
<1>16. ASSUME NEW x \in Clients, ForwardToHost(x) PROVE TypeOK'
  <2>1. pc[x] = "write" /\ x \in Threads /\ room[x] \in RoomObjs
    BY <1>16 DEF ForwardToHost
  <2>2. CASE message[x] = None
    <3>1. HandledTo(x, "read") /\ UNCHANGED heard
      BY <1>16, <2>2 DEF ForwardToHost
    <3>2. QED
      BY <1>16, <2>1, <3>1 DEF ForwardToHost, Unlock, HandledTo, Goto, roomVars,
         idVars, packetVars
  <2>3. CASE message[x] # None
    BY <1>16, <2>1, <2>3 DEF ForwardToHost, Unlock, Goto, roomVars, idVars,
       packetVars
  <2>4. QED
    BY <2>2, <2>3
<1>17. ASSUME NEW x \in Clients, NilHostPanics(x) PROVE TypeOK'
  BY <1>17 DEF NilHostPanics, HandledTo, Goto, roomVars, idVars, packetVars
<1>18. ASSUME NEW x \in Threads, ReadEnds(x) PROVE TypeOK'
  BY <1>18 DEF ReadEnds, Goto, roomVars, idVars, packetVars
<1>19. ASSUME NEW x \in Threads, Cleanup(x) PROVE TypeOK'
  BY <1>19 DEF Cleanup, Goto, roomVars, idVars, packetVars
<1>20. CASE MapsCollide
  BY <1>20 DEF MapsCollide, Goto, roomVars, idVars, packetVars
<1>21. ASSUME NEW x \in Threads, WritesCollide(x) PROVE TypeOK'
  BY <1>21 DEF WritesCollide, WritesTo, HandledTo, Goto, roomVars, idVars, packetVars
<1>22. QED
  BY <1>1, <1>2, <1>3, <1>4, <1>5, <1>6, <1>7, <1>8, <1>9, <1>10, <1>11, <1>12,
     <1>13, <1>14, <1>15, <1>16, <1>17, <1>18, <1>19, <1>20, <1>21
     DEF Next, WriteStep

\* Every step keeps PacketsTyped: who goes to a label has what is needed there.
LEMMA PacketsTypedNext == ASSUME IInv, Next PROVE PacketsTyped'
<1> USE KindsAssumption DEF IInv, TypeOK, PacketsTyped, Handling, Threads,
   Handshakes, Pcs
<1>1. ASSUME NEW r \in RoomObjs, RoomMade(r) PROVE PacketsTyped'
  BY <1>1 DEF RoomMade, Goto, roomVars, idVars, packetVars
<1>2. CASE RoomDeleted
  BY <1>2 DEF RoomDeleted, Goto, roomVars, idVars, packetVars
<1>3. ASSUME NEW h \in Hosts, HostJoins(h) PROVE PacketsTyped'
  BY <1>3 DEF HostJoins, Goto, roomVars, idVars, packetVars
<1>4. ASSUME NEW h \in Hosts, HostEnters(h) PROVE PacketsTyped'
  BY <1>4 DEF HostEnters, Goto, roomVars, idVars, packetVars
<1>5. ASSUME NEW h \in Hosts, HostPings(h) PROVE PacketsTyped'
  BY <1>5 DEF HostPings, Handle, Goto, roomVars, idVars, packetVars
<1>6. ASSUME NEW h \in Hosts, HostForwards(h) PROVE PacketsTyped'
  BY <1>6 DEF HostForwards, Handle, Goto, roomVars, idVars, packetVars
<1>7. ASSUME NEW h \in Hosts, LookUpId(h) PROVE PacketsTyped'
  BY <1>7 DEF LookUpId, HandledTo, Goto, roomVars, idVars, packetVars
<1>8. ASSUME NEW h \in Hosts, SendToClient(h) PROVE PacketsTyped'
  BY <1>8 DEF SendToClient, HandledTo, Goto, roomVars, idVars, packetVars
<1>9. ASSUME NEW c \in Clients, ClientEnters(c) PROVE PacketsTyped'
  BY <1>9 DEF ClientEnters, MayEnter, Goto, roomVars, idVars, packetVars
<1>10. ASSUME NEW c \in Clients, ClientSends(c) PROVE PacketsTyped'
  BY <1>10 DEF ClientSends, Handle, Goto, roomVars, idVars, packetVars
<1>11. ASSUME NEW c \in Clients, AssignId(c) PROVE PacketsTyped'
  BY <1>11 DEF AssignId, HandledTo, Goto, roomVars, idVars, packetVars
<1>12. ASSUME NEW p \in Players, PlayerAnnounces(p) PROVE PacketsTyped'
  BY <1>12 DEF PlayerAnnounces, MayEnter, Handle, Goto, roomVars, idVars, packetVars
<1>13. ASSUME NEW x \in Threads, Lock(x) PROVE PacketsTyped'
  BY <1>13 DEF Lock, Goto, roomVars, idVars, packetVars
<1>14. ASSUME NEW x \in Threads, Pong(x) PROVE PacketsTyped'
  BY <1>14 DEF Pong, Unlock, HandledTo, Goto, roomVars, idVars, packetVars
<1>15. ASSUME NEW x \in Players, Announce(x) PROVE PacketsTyped'
  BY <1>15 DEF Announce, Unlock, HandledTo, Goto, roomVars, idVars, packetVars
<1>16. ASSUME NEW x \in Clients, ForwardToHost(x) PROVE PacketsTyped'
  BY <1>16 DEF ForwardToHost, Unlock, HandledTo, Goto, roomVars, idVars, packetVars
<1>17. ASSUME NEW x \in Clients, NilHostPanics(x) PROVE PacketsTyped'
  BY <1>17 DEF NilHostPanics, HandledTo, Goto, roomVars, idVars, packetVars
<1>18. ASSUME NEW x \in Threads, ReadEnds(x) PROVE PacketsTyped'
  BY <1>18 DEF ReadEnds, Goto, roomVars, idVars, packetVars
<1>19. ASSUME NEW x \in Threads, Cleanup(x) PROVE PacketsTyped'
  BY <1>19 DEF Cleanup, Goto, roomVars, idVars, packetVars
<1>20. CASE MapsCollide
  BY <1>20 DEF MapsCollide, Goto, roomVars, idVars, packetVars
<1>21. ASSUME NEW x \in Threads, WritesCollide(x) PROVE PacketsTyped'
  BY <1>21 DEF WritesCollide, WritesTo, HandledTo, Goto, roomVars, idVars, packetVars
<1>22. QED
  BY <1>1, <1>2, <1>3, <1>4, <1>5, <1>6, <1>7, <1>8, <1>9, <1>10, <1>11, <1>12,
     <1>13, <1>14, <1>15, <1>16, <1>17, <1>18, <1>19, <1>20, <1>21
     DEF Next, WriteStep

\* Every step keeps OneRoomEach: /join sets a host once, and only in a listed room.
LEMMA OneRoomEachNext == ASSUME IInv, Next PROVE OneRoomEach'
<1> USE KindsAssumption DEF IInv, TypeOK, OneRoomEach, Threads, Pcs
<1>1. ASSUME NEW r \in RoomObjs, RoomMade(r) PROVE OneRoomEach'
  BY <1>1 DEF RoomMade, Goto, roomVars, idVars, packetVars
<1>2. CASE RoomDeleted
  BY <1>2 DEF RoomDeleted, Goto, roomVars, idVars, packetVars
<1>3. ASSUME NEW h \in Hosts, HostJoins(h) PROVE OneRoomEach'
  BY <1>3 DEF HostJoins, Goto, roomVars, idVars, packetVars
<1>4. ASSUME NEW h \in Hosts, HostEnters(h) PROVE OneRoomEach'
  BY <1>4 DEF HostEnters, Goto, roomVars, idVars, packetVars
<1>5. ASSUME NEW h \in Hosts, HostPings(h) PROVE OneRoomEach'
  BY <1>5 DEF HostPings, Handle, Goto, roomVars, idVars, packetVars
<1>6. ASSUME NEW h \in Hosts, HostForwards(h) PROVE OneRoomEach'
  BY <1>6 DEF HostForwards, Handle, Goto, roomVars, idVars, packetVars
<1>7. ASSUME NEW h \in Hosts, LookUpId(h) PROVE OneRoomEach'
  BY <1>7 DEF LookUpId, HandledTo, Goto, roomVars, idVars, packetVars
<1>8. ASSUME NEW h \in Hosts, SendToClient(h) PROVE OneRoomEach'
  BY <1>8 DEF SendToClient, HandledTo, Goto, roomVars, idVars, packetVars
<1>9. ASSUME NEW c \in Clients, ClientEnters(c) PROVE OneRoomEach'
  BY <1>9 DEF ClientEnters, MayEnter, Goto, roomVars, idVars, packetVars
<1>10. ASSUME NEW c \in Clients, ClientSends(c) PROVE OneRoomEach'
  BY <1>10 DEF ClientSends, Handle, Goto, roomVars, idVars, packetVars
<1>11. ASSUME NEW c \in Clients, AssignId(c) PROVE OneRoomEach'
  BY <1>11 DEF AssignId, HandledTo, Goto, roomVars, idVars, packetVars
<1>12. ASSUME NEW p \in Players, PlayerAnnounces(p) PROVE OneRoomEach'
  BY <1>12 DEF PlayerAnnounces, MayEnter, Handle, Goto, roomVars, idVars, packetVars
<1>13. ASSUME NEW x \in Threads, Lock(x) PROVE OneRoomEach'
  BY <1>13 DEF Lock, Goto, roomVars, idVars, packetVars
<1>14. ASSUME NEW x \in Threads, Pong(x) PROVE OneRoomEach'
  BY <1>14 DEF Pong, Unlock, HandledTo, Goto, roomVars, idVars, packetVars
<1>15. ASSUME NEW x \in Players, Announce(x) PROVE OneRoomEach'
  BY <1>15 DEF Announce, Unlock, HandledTo, Goto, roomVars, idVars, packetVars
<1>16. ASSUME NEW x \in Clients, ForwardToHost(x) PROVE OneRoomEach'
  BY <1>16 DEF ForwardToHost, Unlock, HandledTo, Goto, roomVars, idVars, packetVars
<1>17. ASSUME NEW x \in Clients, NilHostPanics(x) PROVE OneRoomEach'
  BY <1>17 DEF NilHostPanics, HandledTo, Goto, roomVars, idVars, packetVars
<1>18. ASSUME NEW x \in Threads, ReadEnds(x) PROVE OneRoomEach'
  BY <1>18 DEF ReadEnds, Goto, roomVars, idVars, packetVars
<1>19. ASSUME NEW x \in Threads, Cleanup(x) PROVE OneRoomEach'
  BY <1>19 DEF Cleanup, Goto, roomVars, idVars, packetVars
<1>20. CASE MapsCollide
  BY <1>20 DEF MapsCollide, Goto, roomVars, idVars, packetVars
<1>21. ASSUME NEW x \in Threads, WritesCollide(x) PROVE OneRoomEach'
  BY <1>21 DEF WritesCollide, WritesTo, HandledTo, Goto, roomVars, idVars, packetVars
<1>22. QED
  BY <1>1, <1>2, <1>3, <1>4, <1>5, <1>6, <1>7, <1>8, <1>9, <1>10, <1>11, <1>12,
     <1>13, <1>14, <1>15, <1>16, <1>17, <1>18, <1>19, <1>20, <1>21
     DEF Next, WriteStep

\* Every step keeps JoinedHosted: a Room.Host is never reset.
LEMMA JoinedHostedNext == ASSUME IInv, Next PROVE JoinedHosted'
<1> USE KindsAssumption DEF IInv, TypeOK, JoinedHosted, Threads, Pcs
<1>1. ASSUME NEW r \in RoomObjs, RoomMade(r) PROVE JoinedHosted'
  BY <1>1 DEF RoomMade, Goto, roomVars, idVars, packetVars
<1>2. CASE RoomDeleted
  BY <1>2 DEF RoomDeleted, Goto, roomVars, idVars, packetVars
<1>3. ASSUME NEW h \in Hosts, HostJoins(h) PROVE JoinedHosted'
  BY <1>3 DEF HostJoins, Goto, roomVars, idVars, packetVars
<1>4. ASSUME NEW h \in Hosts, HostEnters(h) PROVE JoinedHosted'
  BY <1>4 DEF HostEnters, Goto, roomVars, idVars, packetVars
<1>5. ASSUME NEW h \in Hosts, HostPings(h) PROVE JoinedHosted'
  BY <1>5 DEF HostPings, Handle, Goto, roomVars, idVars, packetVars
<1>6. ASSUME NEW h \in Hosts, HostForwards(h) PROVE JoinedHosted'
  BY <1>6 DEF HostForwards, Handle, Goto, roomVars, idVars, packetVars
<1>7. ASSUME NEW h \in Hosts, LookUpId(h) PROVE JoinedHosted'
  BY <1>7 DEF LookUpId, HandledTo, Goto, roomVars, idVars, packetVars
<1>8. ASSUME NEW h \in Hosts, SendToClient(h) PROVE JoinedHosted'
  BY <1>8 DEF SendToClient, HandledTo, Goto, roomVars, idVars, packetVars
<1>9. ASSUME NEW c \in Clients, ClientEnters(c) PROVE JoinedHosted'
  BY <1>9 DEF ClientEnters, MayEnter, Goto, roomVars, idVars, packetVars
<1>10. ASSUME NEW c \in Clients, ClientSends(c) PROVE JoinedHosted'
  BY <1>10 DEF ClientSends, Handle, Goto, roomVars, idVars, packetVars
<1>11. ASSUME NEW c \in Clients, AssignId(c) PROVE JoinedHosted'
  BY <1>11 DEF AssignId, HandledTo, Goto, roomVars, idVars, packetVars
<1>12. ASSUME NEW p \in Players, PlayerAnnounces(p) PROVE JoinedHosted'
  BY <1>12 DEF PlayerAnnounces, MayEnter, Handle, Goto, roomVars, idVars, packetVars
<1>13. ASSUME NEW x \in Threads, Lock(x) PROVE JoinedHosted'
  BY <1>13 DEF Lock, Goto, roomVars, idVars, packetVars
<1>14. ASSUME NEW x \in Threads, Pong(x) PROVE JoinedHosted'
  BY <1>14 DEF Pong, Unlock, HandledTo, Goto, roomVars, idVars, packetVars
<1>15. ASSUME NEW x \in Players, Announce(x) PROVE JoinedHosted'
  BY <1>15 DEF Announce, Unlock, HandledTo, Goto, roomVars, idVars, packetVars
<1>16. ASSUME NEW x \in Clients, ForwardToHost(x) PROVE JoinedHosted'
  BY <1>16 DEF ForwardToHost, Unlock, HandledTo, Goto, roomVars, idVars, packetVars
<1>17. ASSUME NEW x \in Clients, NilHostPanics(x) PROVE JoinedHosted'
  BY <1>17 DEF NilHostPanics, HandledTo, Goto, roomVars, idVars, packetVars
<1>18. ASSUME NEW x \in Threads, ReadEnds(x) PROVE JoinedHosted'
  BY <1>18 DEF ReadEnds, Goto, roomVars, idVars, packetVars
<1>19. ASSUME NEW x \in Threads, Cleanup(x) PROVE JoinedHosted'
  BY <1>19 DEF Cleanup, Goto, roomVars, idVars, packetVars
<1>20. CASE MapsCollide
  BY <1>20 DEF MapsCollide, Goto, roomVars, idVars, packetVars
<1>21. ASSUME NEW x \in Threads, WritesCollide(x) PROVE JoinedHosted'
  BY <1>21 DEF WritesCollide, WritesTo, HandledTo, Goto, roomVars, idVars, packetVars
<1>22. QED
  BY <1>1, <1>2, <1>3, <1>4, <1>5, <1>6, <1>7, <1>8, <1>9, <1>10, <1>11, <1>12,
     <1>13, <1>14, <1>15, <1>16, <1>17, <1>18, <1>19, <1>20, <1>21
     DEF Next, WriteStep

\* Every step keeps LocksHeld: only panics leave HostMu behind.
LEMMA LocksHeldNext == ASSUME IInv, Next PROVE LocksHeld'
<1> USE KindsAssumption DEF IInv, TypeOK, PacketsTyped, JoinedHosted, LocksHeld,
   Handling, Threads, Handshakes, Pcs
<1>1. ASSUME NEW r \in RoomObjs, RoomMade(r) PROVE LocksHeld'
  BY <1>1 DEF RoomMade, Goto, roomVars, idVars, packetVars
<1>2. CASE RoomDeleted
  BY <1>2 DEF RoomDeleted, Goto, roomVars, idVars, packetVars
<1>3. ASSUME NEW h \in Hosts, HostJoins(h) PROVE LocksHeld'
  BY <1>3 DEF HostJoins, Goto, roomVars, idVars, packetVars
<1>4. ASSUME NEW h \in Hosts, HostEnters(h) PROVE LocksHeld'
  BY <1>4 DEF HostEnters, Goto, roomVars, idVars, packetVars
<1>5. ASSUME NEW h \in Hosts, HostPings(h) PROVE LocksHeld'
  BY <1>5 DEF HostPings, Handle, Goto, roomVars, idVars, packetVars
<1>6. ASSUME NEW h \in Hosts, HostForwards(h) PROVE LocksHeld'
  BY <1>6 DEF HostForwards, Handle, Goto, roomVars, idVars, packetVars
<1>7. ASSUME NEW h \in Hosts, LookUpId(h) PROVE LocksHeld'
  <2> DEFINE other == WebRTCHandshakeConnectionsMap[room[h]][message[h]]
  <2>1. pc[h] = "lookup" /\ room[h] \in RoomObjs /\ message[h] \in Ids
    BY <1>7 DEF LookUpId
  <2>2. other \in Clients \cup {None}
    BY <2>1
  <2>3. CASE other = None
    <3>1. HandledTo(h, "read") /\ peer' = [peer EXCEPT ![h] = None]
      BY <1>7, <2>3 DEF LookUpId
    <3>2. QED
      BY <1>7, <2>1, <3>1 DEF LookUpId, HandledTo, Goto, roomVars, idVars,
         packetVars
  <2>4. CASE other # None
    BY <1>7, <2>1, <2>2, <2>4 DEF LookUpId, Goto, roomVars, idVars, packetVars
  <2>5. QED
    BY <2>3, <2>4
<1>8. ASSUME NEW h \in Hosts, SendToClient(h) PROVE LocksHeld'
  BY <1>8 DEF SendToClient, HandledTo, Goto, roomVars, idVars, packetVars
<1>9. ASSUME NEW c \in Clients, ClientEnters(c) PROVE LocksHeld'
  BY <1>9 DEF ClientEnters, MayEnter, Goto, roomVars, idVars, packetVars
<1>10. ASSUME NEW c \in Clients, ClientSends(c) PROVE LocksHeld'
  BY <1>10 DEF ClientSends, Handle, Goto, roomVars, idVars, packetVars
<1>11. ASSUME NEW c \in Clients, AssignId(c) PROVE LocksHeld'
  BY <1>11 DEF AssignId, HandledTo, Goto, roomVars, idVars, packetVars
<1>12. ASSUME NEW p \in Players, PlayerAnnounces(p) PROVE LocksHeld'
  BY <1>12 DEF PlayerAnnounces, MayEnter, Handle, Goto, roomVars, idVars, packetVars
<1>13. ASSUME NEW x \in Threads, Lock(x) PROVE LocksHeld'
  BY <1>13 DEF Lock, Goto, roomVars, idVars, packetVars
<1>14. ASSUME NEW x \in Threads, Pong(x) PROVE LocksHeld'
  BY <1>14 DEF Pong, Unlock, HandledTo, Goto, roomVars, idVars, packetVars
<1>15. ASSUME NEW x \in Players, Announce(x) PROVE LocksHeld'
  BY <1>15 DEF Announce, Unlock, HandledTo, Goto, roomVars, idVars, packetVars
<1>16. ASSUME NEW x \in Clients, ForwardToHost(x) PROVE LocksHeld'
  <2>1. pc[x] = "write" /\ x \in Threads /\ room[x] \in RoomObjs /\ HostMu[room[x]] = x
    BY <1>16 DEF ForwardToHost
  <2>2. \A y \in Threads : y # x => pc'[y] = pc[y] /\ room'[y] = room[y]
    BY <1>16, <2>1 DEF ForwardToHost, HandledTo, Goto
  <2>3. pc'[x] \in {"read", "assign"}
    BY <1>16, <2>1 DEF ForwardToHost, HandledTo, Goto
  <2>4. HostMu' = [HostMu EXCEPT ![room[x]] = None]
    BY <1>16 DEF ForwardToHost, Unlock
  <2>5. ASSUME NEW y \in Threads, pc'[y] = "write" PROVE HostMu'[room'[y]] = y
    <3>1. y # x /\ pc[y] = "write" /\ room'[y] = room[y] /\ HostMu[room[y]] = y
      BY <2>2, <2>3, <2>5
    <3>2. QED
      BY <2>1, <2>4, <3>1
  <2>6. ASSUME NEW r \in RoomObjs, HostMu'[r] # None
        PROVE \/ pc'[HostMu'[r]] = "write" /\ room'[HostMu'[r]] = r
              \/ pc'[HostMu'[r]] \in {"cleanup", "done"}
    <3>1. r # room[x] /\ HostMu'[r] = HostMu[r]
      BY <2>1, <2>4, <2>6
    <3>2. HostMu[r] \in Threads /\ HostMu[r] # x
      BY <2>1, <2>6, <3>1
    <3>3. QED
      BY <2>2, <2>6, <3>1, <3>2
  <2>7. QED
    BY <2>5, <2>6
<1>17. ASSUME NEW x \in Clients, NilHostPanics(x) PROVE LocksHeld'
  BY <1>17 DEF NilHostPanics, HandledTo, Goto, roomVars, idVars, packetVars
<1>18. ASSUME NEW x \in Threads, ReadEnds(x) PROVE LocksHeld'
  BY <1>18 DEF ReadEnds, Goto, roomVars, idVars, packetVars
<1>19. ASSUME NEW x \in Threads, Cleanup(x) PROVE LocksHeld'
  BY <1>19 DEF Cleanup, Goto, roomVars, idVars, packetVars
<1>20. CASE MapsCollide
  BY <1>20 DEF MapsCollide, Goto, roomVars, idVars, packetVars
<1>21. ASSUME NEW x \in Threads, WritesCollide(x) PROVE LocksHeld'
  BY <1>21 DEF WritesCollide, WritesTo, HandledTo, Goto, roomVars, idVars, packetVars
<1>22. QED
  BY <1>1, <1>2, <1>3, <1>4, <1>5, <1>6, <1>7, <1>8, <1>9, <1>10, <1>11, <1>12,
     <1>13, <1>14, <1>15, <1>16, <1>17, <1>18, <1>19, <1>20, <1>21
     DEF Next, WriteStep

\* Every step keeps OwnRoom: a room that was replaced is never listed again.
LEMMA OwnRoomNext == ASSUME IInv, Next PROVE OwnRoom'
<1> USE KindsAssumption DEF IInv, TypeOK, PacketsTyped, OneRoomEach, OwnRoom,
   Handling, Threads, Handshakes, Pcs
<1>1. ASSUME NEW r \in RoomObjs, RoomMade(r) PROVE OwnRoom'
  BY <1>1 DEF RoomMade, Goto, roomVars, idVars, packetVars
<1>2. CASE RoomDeleted
  BY <1>2 DEF RoomDeleted, Goto, roomVars, idVars, packetVars
<1>3. ASSUME NEW h \in Hosts, HostJoins(h) PROVE OwnRoom'
  BY <1>3 DEF HostJoins, Goto, roomVars, idVars, packetVars
<1>4. ASSUME NEW h \in Hosts, HostEnters(h) PROVE OwnRoom'
  BY <1>4 DEF HostEnters, Goto, roomVars, idVars, packetVars
<1>5. ASSUME NEW h \in Hosts, HostPings(h) PROVE OwnRoom'
  BY <1>5 DEF HostPings, Handle, Goto, roomVars, idVars, packetVars
<1>6. ASSUME NEW h \in Hosts, HostForwards(h) PROVE OwnRoom'
  BY <1>6 DEF HostForwards, Handle, Goto, roomVars, idVars, packetVars
<1>7. ASSUME NEW h \in Hosts, LookUpId(h) PROVE OwnRoom'
  BY <1>7 DEF LookUpId, HandledTo, Goto, roomVars, idVars, packetVars
<1>8. ASSUME NEW h \in Hosts, SendToClient(h) PROVE OwnRoom'
  BY <1>8 DEF SendToClient, HandledTo, Goto, roomVars, idVars, packetVars
<1>9. ASSUME NEW c \in Clients, ClientEnters(c) PROVE OwnRoom'
  BY <1>9 DEF ClientEnters, MayEnter, Goto, roomVars, idVars, packetVars
<1>10. ASSUME NEW c \in Clients, ClientSends(c) PROVE OwnRoom'
  BY <1>10 DEF ClientSends, Handle, Goto, roomVars, idVars, packetVars
<1>11. ASSUME NEW c \in Clients, AssignId(c) PROVE OwnRoom'
  BY <1>11 DEF AssignId, HandledTo, Goto, roomVars, idVars, packetVars
<1>12. ASSUME NEW p \in Players, PlayerAnnounces(p) PROVE OwnRoom'
  BY <1>12 DEF PlayerAnnounces, MayEnter, Handle, Goto, roomVars, idVars, packetVars
<1>13. ASSUME NEW x \in Threads, Lock(x) PROVE OwnRoom'
  BY <1>13 DEF Lock, Goto, roomVars, idVars, packetVars
<1>14. ASSUME NEW x \in Threads, Pong(x) PROVE OwnRoom'
  BY <1>14 DEF Pong, Unlock, HandledTo, Goto, roomVars, idVars, packetVars
<1>15. ASSUME NEW x \in Players, Announce(x) PROVE OwnRoom'
  BY <1>15 DEF Announce, Unlock, HandledTo, Goto, roomVars, idVars, packetVars
<1>16. ASSUME NEW x \in Clients, ForwardToHost(x) PROVE OwnRoom'
  BY <1>16 DEF ForwardToHost, Unlock, HandledTo, Goto, roomVars, idVars, packetVars
<1>17. ASSUME NEW x \in Clients, NilHostPanics(x) PROVE OwnRoom'
  BY <1>17 DEF NilHostPanics, HandledTo, Goto, roomVars, idVars, packetVars
<1>18. ASSUME NEW x \in Threads, ReadEnds(x) PROVE OwnRoom'
  BY <1>18 DEF ReadEnds, Goto, roomVars, idVars, packetVars
<1>19. ASSUME NEW x \in Threads, Cleanup(x) PROVE OwnRoom'
  BY <1>19 DEF Cleanup, Goto, roomVars, idVars, packetVars
<1>20. CASE MapsCollide
  BY <1>20 DEF MapsCollide, Goto, roomVars, idVars, packetVars
<1>21. ASSUME NEW x \in Threads, WritesCollide(x) PROVE OwnRoom'
  BY <1>21 DEF WritesCollide, WritesTo, HandledTo, Goto, roomVars, idVars, packetVars
<1>22. QED
  BY <1>1, <1>2, <1>3, <1>4, <1>5, <1>6, <1>7, <1>8, <1>9, <1>10, <1>11, <1>12,
     <1>13, <1>14, <1>15, <1>16, <1>17, <1>18, <1>19, <1>20, <1>21
     DEF Next, WriteStep

\* Every step keeps IdsHeard: the packet is written before its id is noted.
LEMMA IdsHeardNext == ASSUME IInv, Next PROVE IdsHeard'
<1> USE KindsAssumption DEF IInv, TypeOK, PacketsTyped, IdsHeard, Handling,
   Threads, Handshakes, Pcs
<1>1. ASSUME NEW r \in RoomObjs, RoomMade(r) PROVE IdsHeard'
  BY <1>1 DEF RoomMade, Goto, roomVars, idVars, packetVars
<1>2. CASE RoomDeleted
  BY <1>2 DEF RoomDeleted, Goto, roomVars, idVars, packetVars
<1>3. ASSUME NEW h \in Hosts, HostJoins(h) PROVE IdsHeard'
  BY <1>3 DEF HostJoins, Goto, roomVars, idVars, packetVars
<1>4. ASSUME NEW h \in Hosts, HostEnters(h) PROVE IdsHeard'
  BY <1>4 DEF HostEnters, Goto, roomVars, idVars, packetVars
<1>5. ASSUME NEW h \in Hosts, HostPings(h) PROVE IdsHeard'
  BY <1>5 DEF HostPings, Handle, Goto, roomVars, idVars, packetVars
<1>6. ASSUME NEW h \in Hosts, HostForwards(h) PROVE IdsHeard'
  BY <1>6 DEF HostForwards, Handle, Goto, roomVars, idVars, packetVars
<1>7. ASSUME NEW h \in Hosts, LookUpId(h) PROVE IdsHeard'
  <2> DEFINE other == WebRTCHandshakeConnectionsMap[room[h]][message[h]]
  <2>1. pc[h] = "lookup" /\ room[h] \in RoomObjs /\ message[h] \in Ids
    BY <1>7 DEF LookUpId
  <2>2. other \in Clients \cup {None}
    BY <2>1
  <2>3. CASE other = None
    <3>1. HandledTo(h, "read") /\ peer' = [peer EXCEPT ![h] = None]
      BY <1>7, <2>3 DEF LookUpId
    <3>2. QED
      BY <1>7, <2>1, <3>1 DEF LookUpId, HandledTo, Goto, roomVars, idVars,
         packetVars
  <2>4. CASE other # None
    BY <1>7, <2>1, <2>2, <2>4 DEF LookUpId, Goto, roomVars, idVars, packetVars
  <2>5. QED
    BY <2>3, <2>4
<1>8. ASSUME NEW h \in Hosts, SendToClient(h) PROVE IdsHeard'
  BY <1>8 DEF SendToClient, HandledTo, Goto, roomVars, idVars, packetVars
<1>9. ASSUME NEW c \in Clients, ClientEnters(c) PROVE IdsHeard'
  BY <1>9 DEF ClientEnters, MayEnter, Goto, roomVars, idVars, packetVars
<1>10. ASSUME NEW c \in Clients, ClientSends(c) PROVE IdsHeard'
  BY <1>10 DEF ClientSends, Handle, Goto, roomVars, idVars, packetVars
<1>11. ASSUME NEW c \in Clients, AssignId(c) PROVE IdsHeard'
  BY <1>11 DEF AssignId, HandledTo, Goto, roomVars, idVars, packetVars
<1>12. ASSUME NEW p \in Players, PlayerAnnounces(p) PROVE IdsHeard'
  BY <1>12 DEF PlayerAnnounces, MayEnter, Handle, Goto, roomVars, idVars, packetVars
<1>13. ASSUME NEW x \in Threads, Lock(x) PROVE IdsHeard'
  BY <1>13 DEF Lock, Goto, roomVars, idVars, packetVars
<1>14. ASSUME NEW x \in Threads, Pong(x) PROVE IdsHeard'
  BY <1>14 DEF Pong, Unlock, HandledTo, Goto, roomVars, idVars, packetVars
<1>15. ASSUME NEW x \in Players, Announce(x) PROVE IdsHeard'
  BY <1>15 DEF Announce, Unlock, HandledTo, Goto, roomVars, idVars, packetVars
<1>16. ASSUME NEW x \in Clients, ForwardToHost(x) PROVE IdsHeard'
  <2>1. pc[x] = "write" /\ x \in Threads /\ room[x] \in RoomObjs
    BY <1>16 DEF ForwardToHost
  <2>2. CASE message[x] = None
    <3>1. HandledTo(x, "read") /\ UNCHANGED heard
      BY <1>16, <2>2 DEF ForwardToHost
    <3>2. QED
      BY <1>16, <2>1, <3>1 DEF ForwardToHost, Unlock, HandledTo, Goto, roomVars,
         idVars, packetVars
  <2>3. CASE message[x] # None
    BY <1>16, <2>1, <2>3 DEF ForwardToHost, Unlock, Goto, roomVars, idVars,
       packetVars
  <2>4. QED
    BY <2>2, <2>3
<1>17. ASSUME NEW x \in Clients, NilHostPanics(x) PROVE IdsHeard'
  BY <1>17 DEF NilHostPanics, HandledTo, Goto, roomVars, idVars, packetVars
<1>18. ASSUME NEW x \in Threads, ReadEnds(x) PROVE IdsHeard'
  BY <1>18 DEF ReadEnds, Goto, roomVars, idVars, packetVars
<1>19. ASSUME NEW x \in Threads, Cleanup(x) PROVE IdsHeard'
  BY <1>19 DEF Cleanup, Goto, roomVars, idVars, packetVars
<1>20. CASE MapsCollide
  BY <1>20 DEF MapsCollide, Goto, roomVars, idVars, packetVars
<1>21. ASSUME NEW x \in Threads, WritesCollide(x) PROVE IdsHeard'
  BY <1>21 DEF WritesCollide, WritesTo, HandledTo, Goto, roomVars, idVars, packetVars
<1>22. QED
  BY <1>1, <1>2, <1>3, <1>4, <1>5, <1>6, <1>7, <1>8, <1>9, <1>10, <1>11, <1>12,
     <1>13, <1>14, <1>15, <1>16, <1>17, <1>18, <1>19, <1>20, <1>21
     DEF Next, WriteStep

-----------------------------------------------------------------------------
\* The invariant holds at first.
LEMMA InvInit == Init => IInv
BY KindsAssumption
   DEF Init, IInv, TypeOK, PacketsTyped, OneRoomEach, JoinedHosted, LocksHeld, OwnRoom,
       IdsHeard, Handling, Threads, Handshakes, Pcs

\* A step that changes nothing keeps it.
LEMMA InvStutters == ASSUME IInv, UNCHANGED vars PROVE IInv'
BY DEF IInv, TypeOK, PacketsTyped, OneRoomEach, JoinedHosted, LocksHeld, OwnRoom,
       IdsHeard, vars, roomVars, idVars, packetVars

\* The inductive invariant holds in every reachable state.
THEOREM SignalingInvariant == Spec => []IInv
<1>1. IInv /\ [Next]_vars => IInv'
  <2>1. ASSUME IInv, Next PROVE IInv'
    BY <2>1, TypeOKNext, PacketsTypedNext, OneRoomEachNext, JoinedHostedNext,
       LocksHeldNext, OwnRoomNext, IdsHeardNext DEF IInv
  <2>2. QED
    BY <2>1, InvStutters
<1>2. QED
  BY InvInit, <1>1, PTL DEF Spec

\* HandleSignalPacketFromClient writes to a nil Host, and panics, only for a client
\* that joined an earlier room of the code.
THEOREM NilHostNeedsReuseHolds == Spec => []NilHostNeedsReuse
<1>1. IInv => NilHostNeedsReuse
  BY KindsAssumption
     DEF IInv, PacketsTyped, JoinedHosted, NilHostNeedsReuse, Handling, Threads
<1>2. QED
  BY SignalingInvariant, <1>1, PTL

\* The HostMu of a listed room keeps its host's socket to one writer, whichever way
\* each goroutine came by the room.
THEOREM ListedHostHasOneWriterHolds == Spec => []ListedHostHasOneWriter
<1>1. ASSUME IInv, listed # None, Host[listed] # None,
             NEW x \in Threads, WritesTo(x) = Host[listed]
      PROVE HostMu[listed] = x
  <2>1. listed \in RoomObjs /\ Host[listed] \in Hosts
    BY <1>1 DEF IInv, TypeOK
  <2>2. pc[x] = "write"
    <3>1. pc[x] # "send"
      BY <1>1, <2>1, KindsAssumption DEF IInv, PacketsTyped, WritesTo
    <3>2. QED
      BY <1>1, <3>1 DEF WritesTo
  <2>3. room[x] \in RoomObjs /\ HostMu[room[x]] = x
    BY <1>1, <2>2 DEF IInv, PacketsTyped, LocksHeld, Handling
  <2>4. CASE message[x] = "ping"
    <3>1. x = Host[listed]
      BY <1>1, <2>2, <2>4 DEF WritesTo
    <3>2. room[x] = listed
      BY <1>1, <2>1, <2>2, <3>1 DEF IInv, OwnRoom, Handling
    <3>3. QED
      BY <2>3, <3>2
  <2>5. CASE message[x] # "ping"
    <3>1. Host[room[x]] = Host[listed]
      BY <1>1, <2>2, <2>5 DEF WritesTo
    <3>2. room[x] = listed
      BY <1>1, <2>1, <2>3, <3>1 DEF IInv, OneRoomEach
    <3>3. QED
      BY <2>3, <3>2
  <2>6. QED
    BY <2>4, <2>5
<1>2. IInv => ListedHostHasOneWriter
  BY <1>1 DEF ListedHostHasOneWriter
<1>3. QED
  BY SignalingInvariant, <1>2, PTL

\* A host's packet for an id only reaches a client that had used the id in the room
\* where HandleSignalPacket looked it up.
THEOREM AnswersFollowRequestsHolds == Spec => []AnswersFollowRequests
<1>1. IInv => AnswersFollowRequests
  BY DEF IInv, IdsHeard, OwnRoom, Handling, AnswersFollowRequests
<1>2. QED
  BY SignalingInvariant, <1>1, PTL
\* A HostMu is only ever held by somebody who writes under it and then unlocks it, or
\* whom a panic has taken out of its handler (HandleSignalPacket,
\* HandleSignalPacketFromClient, clientRelayHandler).
THEOREM HostMuHasWriterHolds == Spec => []HostMuHasWriter
<1>1. IInv => HostMuHasWriter
  BY DEF IInv, LocksHeld, HostMuHasWriter, Lost
<1>2. QED
  BY SignalingInvariant, <1>1, PTL
=============================================================================
