-------------------------- MODULE RelayRoomProofs --------------------------
(***************************************************************************)
(* Rooms and what handlers leave behind in them, for every number of       *)
(* codes, rooms and connections.  HostHoldsRoom and the refinement of      *)
(* RoomDirectory follow from which steps change the directory and how far  *)
(* a host's handler gets meanwhile; NoStrandedSocket from where a room can *)
(* be listed: only under the code by which the handlers of its members     *)
(* look it up; CounterCoversHandlers from which steps begin and end a      *)
(* handler.                                                                *)
(***************************************************************************)
EXTENDS RelayTypeProofs, FiniteSetTheorems

USE DEF Conns, Goto, Accept, Reject, CloseWebsocket, roomVars, ageVars, localVars,
        creatorVars, sweeperVars

-----------------------------------------------------------------------------
(* The directory *)

\* The steps that change the directory.
DirectoryMove ==
    \/ UNCHANGED <<Rooms, Host, allocated>>
    \/ \E code \in Codes, r \in RoomObjs : Allocate(code, r) /\ UNCHANGED Host
    \/ \E h \in HostConns, code \in Codes : HostJoin(h, code)
    \/ \E c \in Conns : CleanupAsHost(c)
    \/ UnusedPrune
    \/ IdleDelete

\* Where a host's handler is still going to run its cleanup.
Holding == {"enter", "relaying", "cleanup"}

\* A host keeps its code and its room, and stops holding only by cleaning up.
HostStays(h) ==
    /\ pc[h] # "none" =>
        /\ pc'[h] # "none"
        /\ gameId'[h] = gameId[h]
        /\ room'[h] = room[h]
    /\ pc[h] \in Holding =>
        \/ pc'[h] \in Holding
        \/ HostTooLate(h)
        \/ CleanupAsHost(h)
        \/ CleanupAsMember(h)
        \/ CleanupWithoutRoom(h)

LEMMA DirectoryMoves ==
    ASSUME TypeInv, [Next]_vars
    PROVE  DirectoryMove
<1>1. ASSUME NEW code \in Codes, Arrive(code) PROVE DirectoryMove
  BY <1>1, CodeKnown DEF Arrive, CreateFresh, ReuseHostless,
     EvictBegin, ClientJoin, ClientMissesRoom, HostJoin, HostRefused, DataJoin,
     DataRefused, DirectoryMove
<1>2. ASSUME NEW c \in Conns, ClientTurnedAway(c) \/ ClientStep(c)
      PROVE  DirectoryMove
  BY <1>2, CodeKnown DEF ClientStep, WaitReturns, ClientTurnedAway,
     ClientEnter, ClientRefused, RegisterRequest, RegisterNilEntry, Announce,
     WaitFails, WaitLooksUp, PollFinds, PollAgain, PollTimesOut, ForgetRequest,
     DirectoryMove
<1>3. ASSUME NEW c \in Conns, HostStep(c) \/ LinkStep(c) \/ DataEnter(c)
      PROVE  DirectoryMove
  BY <1>3, CodeKnown DEF HostStep, LinkStep, HostEnter, HostTooLate,
     TakeRequest, LinkClient, LinkBack, DataEnter, DirectoryMove
<1>4. ASSUME NEW c \in Conns, CleanupStep(c) PROVE DirectoryMove
  BY <1>4, CodeKnown DEF CleanupStep, CleanupAsHost, CleanupAsMember,
     CleanupWithoutRoom, CloseOther, CloseOwn, DirectoryMove
<1>5. ASSUME NEW c \in Conns, StopRelaying(c) \/ PeerLeaves(c)
      PROVE  DirectoryMove
  BY <1>5, CodeKnown DEF StopRelaying, ClientRelayEnds, HostSignalEnds,
     DataRelayEnds, PeerLeaves, DirectoryMove
<1>6. ASSUME NEW p \in Creators, EvictStep(p) PROVE DirectoryMove
  BY <1>6 DEF TypeInv, LocalsOK, EvictStep, EvictClose, EvictFinish, DirectoryMove
<1>7. ASSUME SweepStep PROVE DirectoryMove
  BY <1>7, CodeKnown DEF SweepStep, UnusedScan, UnusedPrune, IdleScan,
     IdleDelete, IdleClose, DirectoryMove
<1>8. ASSUME Age PROVE DirectoryMove
  BY <1>8, CodeKnown DEF Age, Expire, BecomeIdle, ForgetReason, DirectoryMove
<1>9. CASE UNCHANGED vars
  BY <1>9 DEF vars, DirectoryMove
<1> QED
  BY <1>1, <1>2, <1>3, <1>4, <1>5, <1>6, <1>7, <1>8, <1>9 DEF Next, Proceed

LEMMA HostsStay ==
    ASSUME TypeInv, NEW h \in HostConns, [Next]_vars
    PROVE  HostStays(h)
<1>1. ASSUME NEW c \in ClientConns, NEW code \in Codes, ClientJoin(c, code)
      PROVE  HostStays(h)
  BY <1>1, RolesAssumption DEF ClientJoin, HostStays, Holding, TypeInv,
     TypeOK
<1>2. ASSUME NEW c \in ClientConns, NEW code \in Codes, ClientMissesRoom(c, code)
      PROVE  HostStays(h)
  BY <1>2, RolesAssumption DEF ClientMissesRoom, HostStays, Holding, TypeInv,
     TypeOK
<1>3. ASSUME NEW g \in HostConns, NEW code \in Codes, HostJoin(g, code)
      PROVE  HostStays(h)
  BY <1>3, RolesAssumption DEF HostJoin, Claimable, HostStays, Holding,
     TypeInv, TypeOK
<1>4. ASSUME NEW g \in HostConns, NEW code \in Codes, HostRefused(g, code)
      PROVE  HostStays(h)
  BY <1>4, RolesAssumption DEF HostRefused, HostStays, Holding, TypeInv,
     TypeOK
<1>5. ASSUME NEW d \in DataConns, NEW code \in Codes, NEW q \in Requests, DataJoin(d, code, q)
      PROVE  HostStays(h)
  BY <1>5, RolesAssumption DEF DataJoin, HostStays, Holding, TypeInv, TypeOK
<1>6. ASSUME NEW d \in DataConns, NEW code \in Codes, NEW q \in Requests, DataRefused(d, code, q)
      PROVE  HostStays(h)
  BY <1>6, RolesAssumption DEF DataRefused, HostStays, Holding, TypeInv,
     TypeOK
<1>7. ASSUME NEW c \in Conns, ClientTurnedAway(c) PROVE HostStays(h)
  BY <1>7, RolesAssumption DEF ClientTurnedAway, HostStays, Holding, TypeInv,
     TypeOK
<1>8. ASSUME NEW c \in Conns, ClientEnter(c) PROVE HostStays(h)
  BY <1>8, RolesAssumption DEF ClientEnter, HostStays, Holding, TypeInv,
     TypeOK
<1>9. ASSUME NEW c \in Conns, ClientRefused(c) PROVE HostStays(h)
  BY <1>9, RolesAssumption DEF ClientRefused, ClientLeaves, HostStays,
     Holding, TypeInv, TypeOK
<1>10. ASSUME NEW c \in Conns, NEW q \in Requests, RegisterRequest(c, q)
      PROVE  HostStays(h)
  BY <1>10, RolesAssumption DEF RegisterRequest, HostStays, Holding, TypeInv,
     TypeOK
<1>11. ASSUME NEW c \in Conns, RegisterNilEntry(c) PROVE HostStays(h)
  BY <1>11, RolesAssumption DEF RegisterNilEntry, HostStays, Holding,
     TypeInv, TypeOK
<1>12. ASSUME NEW c \in Conns, Announce(c) PROVE HostStays(h)
  BY <1>12, RolesAssumption DEF Announce, ClientLeaves, HostStays, Holding,
     TypeInv, TypeOK
<1>13. ASSUME NEW c \in Conns, WaitFails(c) PROVE HostStays(h)
  BY <1>13, RolesAssumption DEF WaitFails, WaitReturns, HostStays, Holding,
     TypeInv, TypeOK
<1>14. ASSUME NEW c \in Conns, WaitLooksUp(c) PROVE HostStays(h)
  BY <1>14, RolesAssumption DEF WaitLooksUp, HostStays, Holding, TypeInv,
     TypeOK
<1>15. ASSUME NEW c \in Conns, PollFinds(c) PROVE HostStays(h)
  BY <1>15, RolesAssumption DEF PollFinds, WaitReturns, HostStays, Holding,
     TypeInv, TypeOK
<1>16. ASSUME NEW c \in Conns, PollAgain(c) PROVE HostStays(h)
  BY <1>16, RolesAssumption DEF PollAgain, HostStays, Holding, TypeInv,
     TypeOK
<1>17. ASSUME NEW c \in Conns, PollTimesOut(c) PROVE HostStays(h)
  BY <1>17, RolesAssumption DEF PollTimesOut, WaitReturns, HostStays,
     Holding, TypeInv, TypeOK
<1>18. ASSUME NEW c \in Conns, ForgetRequest(c) PROVE HostStays(h)
  BY <1>18, RolesAssumption DEF ForgetRequest, ClientLeaves, RequestsWithout,
     HostStays, Holding, TypeInv, TypeOK
<1>19. ASSUME NEW c \in Conns, HostEnter(c) PROVE HostStays(h)
  BY <1>19, RolesAssumption DEF HostEnter, HostStays, Holding, TypeInv,
     TypeOK
<1>20. ASSUME NEW c \in Conns, HostTooLate(c) PROVE HostStays(h)
  BY <1>20, RolesAssumption DEF HostTooLate, HostStays, Holding, TypeInv,
     TypeOK
<1>21. ASSUME NEW c \in Conns, TakeRequest(c) PROVE HostStays(h)
  BY <1>21, RolesAssumption DEF TakeRequest, RequestsWithout, HostStays,
     Holding, TypeInv, TypeOK
<1>22. ASSUME NEW c \in Conns, LinkClient(c) PROVE HostStays(h)
  BY <1>22, RolesAssumption DEF LinkClient, HostStays, Holding, TypeInv,
     TypeOK
<1>23. ASSUME NEW c \in Conns, LinkBack(c) PROVE HostStays(h)
  BY <1>23, RolesAssumption DEF LinkBack, HostStays, Holding, TypeInv, TypeOK
<1>24. ASSUME NEW c \in Conns, DataEnter(c) PROVE HostStays(h)
  BY <1>24, RolesAssumption DEF DataEnter, ClientOf, HostStays, Holding,
     TypeInv, TypeOK
<1>25. ASSUME NEW c \in Conns, CleanupAsHost(c) PROVE HostStays(h)
  BY <1>25, RolesAssumption DEF CleanupAsHost, Unregistered, HostStays,
     Holding, TypeInv, TypeOK
<1>26. ASSUME NEW c \in Conns, CleanupAsMember(c) PROVE HostStays(h)
  BY <1>26, RolesAssumption DEF CleanupAsMember, HostStays, Holding, TypeInv,
     TypeOK
<1>27. ASSUME NEW c \in Conns, CleanupWithoutRoom(c) PROVE HostStays(h)
  BY <1>27, RolesAssumption DEF CleanupWithoutRoom, HostStays, Holding,
     TypeInv, TypeOK
<1>28. ASSUME NEW c \in Conns, CloseOwn(c) PROVE HostStays(h)
  BY <1>28, RolesAssumption DEF CloseOwn, HostStays, Holding, TypeInv, TypeOK
<1>29. ASSUME NEW c \in Conns, ClientRelayEnds(c) PROVE HostStays(h)
  BY <1>29, RolesAssumption DEF ClientRelayEnds, ClientLeaves, HostStays,
     Holding, TypeInv, TypeOK
<1>30. ASSUME NEW c \in Conns, HostSignalEnds(c) PROVE HostStays(h)
  BY <1>30, RolesAssumption DEF HostSignalEnds, HostStays, Holding, TypeInv,
     TypeOK
<1>31. ASSUME NEW c \in Conns, DataRelayEnds(c) PROVE HostStays(h)
  BY <1>31, RolesAssumption DEF DataRelayEnds, HostStays, Holding, TypeInv,
     TypeOK
<1>32. CASE UNCHANGED <<pc, gameId, room>>
  BY <1>32 DEF HostStays, Holding
<1> QED
  BY <1>1, <1>2, <1>3, <1>4, <1>5, <1>6, <1>7, <1>8, <1>9, <1>10, <1>11,
     <1>12, <1>13, <1>14, <1>15, <1>16, <1>17, <1>18, <1>19, <1>20, <1>21,
     <1>22, <1>23, <1>24, <1>25, <1>26, <1>27, <1>28, <1>29, <1>30, <1>31, <1>32
     DEF Next, Arrive, Proceed, StopRelaying, ClientStep, HostStep, LinkStep,
     CleanupStep, EvictStep, SweepStep, Age, vars, CreateFresh, ReuseHostless,
     EvictBegin, CloseOther, PeerLeaves, EvictClose, EvictFinish, UnusedScan,
     UnusedPrune, IdleScan, IdleDelete, IdleClose, Expire, BecomeIdle,
     ForgetReason

\* A room is listed under one code, and from its creation on.
LEMMA ListedStep ==
    ASSUME TypeInv, DirectoryInv, [Next]_vars
    PROVE  ListedOnce'
<1>1. CASE UNCHANGED <<Rooms, Host, allocated>>
  BY <1>1 DEF DirectoryInv, ListedOnce
<1>2. ASSUME NEW code \in Codes, NEW r \in RoomObjs, Allocate(code, r), UNCHANGED Host
      PROVE  ListedOnce'
  BY <1>2 DEF Allocate, DirectoryInv, ListedOnce, TypeInv, TypeOK
<1>3. ASSUME NEW h \in HostConns, NEW code \in Codes, HostJoin(h, code)
      PROVE  ListedOnce'
  BY <1>3 DEF HostJoin, DirectoryInv, ListedOnce
<1>4. ASSUME NEW c \in Conns, CleanupAsHost(c) PROVE ListedOnce'
  BY <1>4, CodeKnown
  DEF CleanupAsHost, Unregistered, DirectoryInv, ListedOnce, TypeInv, TypeOK
<1>5. CASE UnusedPrune
  BY <1>5 DEF UnusedPrune, DirectoryInv, ListedOnce
<1>6. CASE IdleDelete
  BY <1>6 DEF IdleDelete, DirectoryInv, ListedOnce
<1> QED
  BY <1>1, <1>2, <1>3, <1>4, <1>5, <1>6, DirectoryMoves DEF DirectoryMove

\* A host claims once.
LEMMA OwnersStep ==
    ASSUME TypeInv, DirectoryInv, [Next]_vars
    PROVE  OwnersClaimed'
<1> SUFFICES ASSUME NEW r \in RoomObjs, NEW h \in HostConns, Host'[r] = h
             PROVE  r \in allocated' /\ room'[h] = r /\ pc'[h] # "none"
  BY DEF OwnersClaimed
<1>1. allocated \subseteq allocated'
  BY DirectoryMoves
  DEF DirectoryMove, Allocate, HostJoin, CleanupAsHost, UnusedPrune, IdleDelete
<1>2. CASE Host[r] = h
  BY <1>1, <1>2, HostsStay DEF HostStays, DirectoryInv, OwnersClaimed
<1>3. CASE Host[r] # h
  <2>1. PICK g \in HostConns, code \in Codes : HostJoin(g, code)
    BY <1>3, DirectoryMoves
    DEF DirectoryMove, CleanupAsHost, UnusedPrune, IdleDelete
  <2>2. Rooms[code] \in RoomObjs /\ Rooms[code] \in allocated
    BY <2>1 DEF HostJoin, Claimable, DirectoryInv, ListedOnce, TypeInv, TypeOK
  <2>3. g = h /\ r = Rooms[code]
    BY <1>3, <2>1, <2>2 DEF HostJoin, TypeInv, TypeOK
  <2> QED
    BY <1>1, <2>1, <2>2, <2>3 DEF HostJoin, TypeInv, TypeOK
<1> QED
  BY <1>2, <1>3

\* A host that holds a room is never in a place that does not close it: where a
\* handler leaves without unregistering, its code has lost the room before.
LEMMA HoldersStay ==
    ASSUME TypeInv, DirectoryInv, [Next]_vars, NEW code \in Codes,
           NEW h \in HostConns, Rooms[code] # Absent, Rooms'[code] = Rooms[code],
           Host[Rooms[code]] = h
    PROVE  gameId'[h] = code /\ pc'[h] \in Holding
<1>1. gameId[h] = code /\ pc[h] \in Holding /\ Host[Rooms[code]] # Nil
  BY SentinelsAssumption DEF DirectoryInv, HostHoldsRoom, Holding, Conns
<1>2. gameId'[h] = code
  BY <1>1, HostsStay DEF HostStays, Holding
<1>3. ~HostTooLate(h) /\ ~CleanupAsMember(h) /\ ~CleanupWithoutRoom(h)
  BY <1>1 DEF HostTooLate, CleanupAsMember, CleanupWithoutRoom
<1>4. ~CleanupAsHost(h)
  BY <1>1 DEF CleanupAsHost, Unregistered, TypeInv, TypeOK
<1> QED
  BY <1>1, <1>2, <1>3, <1>4, HostsStay DEF HostStays

LEMMA HoldsStep ==
    ASSUME TypeInv, DirectoryInv, [Next]_vars
    PROVE  HostHoldsRoom'
<1> SUFFICES ASSUME NEW code \in Codes, Rooms'[code] # Absent,
                    Host'[Rooms'[code]] # Nil
             PROVE  /\ gameId'[Host'[Rooms'[code]]] = code
                    /\ pc'[Host'[Rooms'[code]]] \in Holding
  BY DEF HostHoldsRoom, Holding
<1>1. ASSUME Rooms'[code] = Rooms[code], Host' = Host
      PROVE  /\ gameId'[Host'[Rooms'[code]]] = code
             /\ pc'[Host'[Rooms'[code]]] \in Holding
  <2>1. Host[Rooms[code]] \in HostConns
    BY <1>1 DEF TypeInv, TypeOK
  <2> QED
    BY <1>1, <2>1, HoldersStay
<1>2. ASSUME NEW k \in Codes, NEW r \in RoomObjs, Allocate(k, r), UNCHANGED Host
      PROVE  Rooms'[code] = Rooms[code]
  BY <1>2 DEF Allocate, DirectoryInv, OwnersClaimed, TypeInv, TypeOK
<1>3. ASSUME NEW h \in HostConns, NEW k \in Codes, HostJoin(h, k)
      PROVE  /\ gameId'[Host'[Rooms'[code]]] = code
             /\ pc'[Host'[Rooms'[code]]] \in Holding
  <2>1. Rooms' = Rooms /\ Rooms[k] \in RoomObjs /\ Rooms[code] \in RoomObjs
    BY <1>3 DEF HostJoin, Claimable, TypeInv, TypeOK
  <2>2. CASE code = k
    BY <1>3, <2>1, <2>2 DEF HostJoin, Holding, TypeInv, TypeOK
  <2>3. CASE code # k
    <3>1. Rooms[code] # Rooms[k]
      BY <1>3, <2>1, <2>3 DEF HostJoin, DirectoryInv, ListedOnce
    <3>2. Host'[Rooms[code]] = Host[Rooms[code]]
      BY <1>3, <2>1, <3>1 DEF HostJoin, TypeInv, TypeOK
    <3>3. Host[Rooms[code]] \in HostConns
      BY <2>1, <3>2 DEF TypeInv, TypeOK
    <3> QED
      BY <2>1, <3>2, <3>3, HoldersStay
  <2> QED
    BY <2>2, <2>3
<1>4. ASSUME NEW c \in Conns, CleanupAsHost(c)
      PROVE  Rooms'[code] = Rooms[code] /\ Host' = Host
  BY <1>4, CodeKnown DEF CleanupAsHost, Unregistered, TypeInv, TypeOK
<1>5. ASSUME UnusedPrune \/ IdleDelete
      PROVE  Rooms'[code] = Rooms[code] /\ Host' = Host
  BY <1>5 DEF UnusedPrune, IdleDelete
<1> QED
  BY <1>1, <1>2, <1>3, <1>4, <1>5, DirectoryMoves DEF DirectoryMove

LEMMA DirectoryInit ==
    ASSUME Init
    PROVE  DirectoryInv
BY SentinelsAssumption
DEF Init, DirectoryInv, ListedOnce, OwnersClaimed, HostHoldsRoom, Conns

LEMMA DirectoryInductive == Spec => [](TypeInv /\ DirectoryInv)
<1>1. Init => TypeInv /\ DirectoryInv
  BY TypeInit, DirectoryInit
<1>2. TypeInv /\ DirectoryInv /\ [Next]_vars => (TypeInv /\ DirectoryInv)'
  BY TypeStep, ListedStep, OwnersStep, HoldsStep DEF DirectoryInv
<1> QED
  BY <1>1, <1>2, PTL DEF Spec

\* For any number of codes, rooms, hosts and creators: a registered room with a
\* host has one whose handler is still going to close it.
THEOREM HostHoldsRoomHolds == Spec => []HostHoldsRoom
BY DirectoryInductive, PTL DEF DirectoryInv

\* Rooms and Room.Host implement the directory of rooms.
THEOREM DirectoryRefined == Spec => DirectorySpec
<1>1. Init => Directory!Init
  BY DEF Init, Directory!Init
<1>2. ASSUME TypeInv, DirectoryInv, [Next]_vars
      PROVE  [Directory!Next]_<<Rooms, Host, allocated>>
  <2>1. ASSUME NEW code \in Codes, NEW r \in RoomObjs, Allocate(code, r),
               UNCHANGED Host
        PROVE  Directory!Open(code, r)
    BY <2>1 DEF Allocate, Directory!Open
  <2>2. ASSUME NEW h \in HostConns, NEW code \in Codes, HostJoin(h, code)
        PROVE  Directory!Claim(code, h)
    BY <1>2, <2>2
    DEF HostJoin, Claimable, Directory!Claim, DirectoryInv, OwnersClaimed,
        TypeInv, TypeOK
  <2>3. ASSUME NEW c \in Conns, CleanupAsHost(c)
        PROVE  gameId[c] \in Codes /\ Directory!Close({gameId[c]})
    BY <1>2, <2>3, CodeKnown
    DEF CleanupAsHost, Unregistered, Directory!Close, TypeInv, TypeOK
  <2>4. ASSUME UnusedPrune
        PROVE  Directory!Close({code \in staleRooms : Unhosted(code)})
    BY <2>4 DEF UnusedPrune, Directory!Close
  <2>5. ASSUME IdleDelete
        PROVE  Directory!Close(codesToDelete)
    BY <2>5 DEF IdleDelete, Directory!Close
  <2>6. staleRooms \in SUBSET Codes /\ codesToDelete \in SUBSET Codes
    BY <1>2 DEF TypeInv, TypeOK
  <2>7. {code \in staleRooms : Unhosted(code)} \in SUBSET Codes
    BY <2>6
  <2> QED
    BY <1>2, <2>1, <2>2, <2>3, <2>4, <2>5, <2>6, <2>7, DirectoryMoves
    DEF DirectoryMove, Directory!Next
<1> QED
  BY <1>1, <1>2, DirectoryInductive, PTL
  DEF Spec, DirectorySpec, Directory!Spec, Directory!dirVars

-----------------------------------------------------------------------------
(* Sockets left behind, and the counter *)

\* A connection takes the room that its code names, and keeps it.
KeepsRoom(c) == room'[c] = room[c] /\ gameId'[c] = gameId[c]

TakesRoom(c) ==
    /\ UNCHANGED <<Rooms, allocated>>
    /\ gameId'[c] \in Codes
    /\ Rooms[gameId'[c]] # Absent
    /\ room'[c] = Rooms[gameId'[c]]

\* A handler that leaves its socket unclosed has found no room.
MemberMove(c) ==
    /\ KeepsRoom(c) \/ TakesRoom(c) \/ room'[c] = Nil
    /\ pc'[c] = "done" /\ Unclosed(c)' =>
        /\ KeepsRoom(c)
        /\ \/ pc[c] = "done" /\ Unclosed(c)
           \/ /\ pc[c] # "done" /\ gameId[c] \in Codes
              /\ Rooms[gameId[c]] = Absent
              /\ UNCHANGED Rooms

Handlers == HostConns \cup ClientConns

Handling == {c \in Handlers : pc[c] \in Counted}

\* The steps that begin or end a handler, and what they do to the counter.
SameBut(c) ==
    \A other \in Handlers \ {c} : pc'[other] \in Counted <=> pc[other] \in Counted

CountMove ==
    \/ /\ \A c \in Handlers : pc'[c] \in Counted <=> pc[c] \in Counted
       /\ UNCHANGED NumberOfClientsConnected
    \/ \E c \in Handlers :
        /\ SameBut(c)
        /\ pc[c] \notin Counted
        /\ pc'[c] \in Counted
        /\ NumberOfClientsConnected' = NumberOfClientsConnected + 1
    \/ \E c \in Handlers :
        /\ SameBut(c)
        /\ pc[c] \in Counted
        /\ pc'[c] \notin Counted
        /\ NumberOfClientsConnected' \in
                {NumberOfClientsConnected - 1, NumberOfClientsConnected}

LEMMA MembersMove ==
    ASSUME TypeInv, NEW c \in Conns, [Next]_vars
    PROVE  MemberMove(c)
<1>1. ASSUME NEW g \in ClientConns, NEW code \in Codes, ClientJoin(g, code)
      PROVE  MemberMove(c)
  BY <1>1, SentinelsAssumption, RolesAssumption DEF ClientJoin, MemberMove,
     KeepsRoom, TakesRoom, Unclosed, Reasons, TypeInv, TypeOK, RolesOK,
     LocalsOK, HostLabels, ClientLabels, DataLabels, BeforeRoom
<1>2. ASSUME NEW g \in ClientConns, NEW code \in Codes, ClientMissesRoom(g, code)
      PROVE  MemberMove(c)
  BY <1>2, SentinelsAssumption, RolesAssumption DEF ClientMissesRoom,
     MemberMove, KeepsRoom, TakesRoom, Unclosed, Reasons, TypeInv, TypeOK,
     RolesOK, LocalsOK, HostLabels, ClientLabels, DataLabels, BeforeRoom
<1>3. ASSUME NEW g \in HostConns, NEW code \in Codes, HostJoin(g, code)
      PROVE  MemberMove(c)
  BY <1>3, SentinelsAssumption, RolesAssumption DEF HostJoin, Claimable,
     MemberMove, KeepsRoom, TakesRoom, Unclosed, Reasons, TypeInv, TypeOK,
     RolesOK, LocalsOK, HostLabels, ClientLabels, DataLabels, BeforeRoom
<1>4. ASSUME NEW g \in HostConns, NEW code \in Codes, HostRefused(g, code)
      PROVE  MemberMove(c)
  BY <1>4, SentinelsAssumption, RolesAssumption DEF HostRefused, MemberMove,
     KeepsRoom, TakesRoom, Unclosed, Reasons, TypeInv, TypeOK, RolesOK,
     LocalsOK, HostLabels, ClientLabels, DataLabels, BeforeRoom
<1>5. ASSUME NEW g \in DataConns, NEW code \in Codes, NEW q \in Requests, DataJoin(g, code, q)
      PROVE  MemberMove(c)
  BY <1>5, SentinelsAssumption, RolesAssumption DEF DataJoin, MemberMove,
     KeepsRoom, TakesRoom, Unclosed, Reasons, TypeInv, TypeOK, RolesOK,
     LocalsOK, HostLabels, ClientLabels, DataLabels, BeforeRoom
<1>6. ASSUME NEW g \in DataConns, NEW code \in Codes, NEW q \in Requests, DataRefused(g, code, q)
      PROVE  MemberMove(c)
  BY <1>6, SentinelsAssumption, RolesAssumption DEF DataRefused, MemberMove,
     KeepsRoom, TakesRoom, Unclosed, Reasons, TypeInv, TypeOK, RolesOK,
     LocalsOK, HostLabels, ClientLabels, DataLabels, BeforeRoom
<1>7. ASSUME NEW g \in Conns, ClientTurnedAway(g)
      PROVE  MemberMove(c)
  BY <1>7, SentinelsAssumption, RolesAssumption DEF ClientTurnedAway,
     MemberMove, KeepsRoom, TakesRoom, Unclosed, Reasons, TypeInv, TypeOK,
     RolesOK, LocalsOK, HostLabels, ClientLabels, DataLabels, BeforeRoom
<1>8. ASSUME NEW g \in Conns, ClientEnter(g)
      PROVE  MemberMove(c)
  BY <1>8, SentinelsAssumption, RolesAssumption DEF ClientEnter, MemberMove,
     KeepsRoom, TakesRoom, Unclosed, Reasons, TypeInv, TypeOK, RolesOK,
     LocalsOK, HostLabels, ClientLabels, DataLabels, BeforeRoom
<1>9. ASSUME NEW g \in Conns, ClientRefused(g)
      PROVE  MemberMove(c)
  BY <1>9, SentinelsAssumption, RolesAssumption DEF ClientRefused,
     ClientLeaves, MemberMove, KeepsRoom, TakesRoom, Unclosed, Reasons,
     TypeInv, TypeOK, RolesOK, LocalsOK, HostLabels, ClientLabels, DataLabels,
     BeforeRoom
<1>10. ASSUME NEW g \in Conns, NEW q \in Requests, RegisterRequest(g, q)
      PROVE  MemberMove(c)
  BY <1>10, SentinelsAssumption, RolesAssumption DEF RegisterRequest,
     MemberMove, KeepsRoom, TakesRoom, Unclosed, Reasons, TypeInv, TypeOK,
     RolesOK, LocalsOK, HostLabels, ClientLabels, DataLabels, BeforeRoom
<1>11. ASSUME NEW g \in Conns, RegisterNilEntry(g)
      PROVE  MemberMove(c)
  BY <1>11, SentinelsAssumption, RolesAssumption DEF RegisterNilEntry,
     MemberMove, KeepsRoom, TakesRoom, Unclosed, Reasons, TypeInv, TypeOK,
     RolesOK, LocalsOK, HostLabels, ClientLabels, DataLabels, BeforeRoom
<1>12. ASSUME NEW g \in Conns, Announce(g)
      PROVE  MemberMove(c)
  BY <1>12, SentinelsAssumption, RolesAssumption DEF Announce, ClientLeaves,
     MemberMove, KeepsRoom, TakesRoom, Unclosed, Reasons, TypeInv, TypeOK,
     RolesOK, LocalsOK, HostLabels, ClientLabels, DataLabels, BeforeRoom
<1>13. ASSUME NEW g \in Conns, WaitFails(g)
      PROVE  MemberMove(c)
  BY <1>13, SentinelsAssumption, RolesAssumption DEF WaitFails, WaitReturns,
     MemberMove, KeepsRoom, TakesRoom, Unclosed, Reasons, TypeInv, TypeOK,
     RolesOK, LocalsOK, HostLabels, ClientLabels, DataLabels, BeforeRoom
<1>14. ASSUME NEW g \in Conns, WaitLooksUp(g)
      PROVE  MemberMove(c)
  BY <1>14, SentinelsAssumption, RolesAssumption DEF WaitLooksUp, MemberMove,
     KeepsRoom, TakesRoom, Unclosed, Reasons, TypeInv, TypeOK, RolesOK,
     LocalsOK, HostLabels, ClientLabels, DataLabels, BeforeRoom
<1>15. ASSUME NEW g \in Conns, PollFinds(g)
      PROVE  MemberMove(c)
  BY <1>15, SentinelsAssumption, RolesAssumption DEF PollFinds, WaitReturns,
     MemberMove, KeepsRoom, TakesRoom, Unclosed, Reasons, TypeInv, TypeOK,
     RolesOK, LocalsOK, HostLabels, ClientLabels, DataLabels, BeforeRoom
<1>16. ASSUME NEW g \in Conns, PollAgain(g)
      PROVE  MemberMove(c)
  BY <1>16, SentinelsAssumption, RolesAssumption DEF PollAgain, MemberMove,
     KeepsRoom, TakesRoom, Unclosed, Reasons, TypeInv, TypeOK, RolesOK,
     LocalsOK, HostLabels, ClientLabels, DataLabels, BeforeRoom
<1>17. ASSUME NEW g \in Conns, PollTimesOut(g)
      PROVE  MemberMove(c)
  BY <1>17, SentinelsAssumption, RolesAssumption DEF PollTimesOut,
     WaitReturns, MemberMove, KeepsRoom, TakesRoom, Unclosed, Reasons,
     TypeInv, TypeOK, RolesOK, LocalsOK, HostLabels, ClientLabels, DataLabels,
     BeforeRoom
<1>18. ASSUME NEW g \in Conns, ForgetRequest(g)
      PROVE  MemberMove(c)
  BY <1>18, SentinelsAssumption, RolesAssumption DEF ForgetRequest,
     ClientLeaves, MemberMove, KeepsRoom, TakesRoom, Unclosed, Reasons,
     TypeInv, TypeOK, RolesOK, LocalsOK, HostLabels, ClientLabels, DataLabels,
     BeforeRoom
<1>19. ASSUME NEW g \in Conns, HostEnter(g)
      PROVE  MemberMove(c)
  BY <1>19, SentinelsAssumption, RolesAssumption DEF HostEnter, MemberMove,
     KeepsRoom, TakesRoom, Unclosed, Reasons, TypeInv, TypeOK, RolesOK,
     LocalsOK, HostLabels, ClientLabels, DataLabels, BeforeRoom
<1>20. ASSUME NEW g \in Conns, HostTooLate(g)
      PROVE  MemberMove(c)
  BY <1>20, SentinelsAssumption, RolesAssumption DEF HostTooLate, MemberMove,
     KeepsRoom, TakesRoom, Unclosed, Reasons, TypeInv, TypeOK, RolesOK,
     LocalsOK, HostLabels, ClientLabels, DataLabels, BeforeRoom
<1>21. ASSUME NEW g \in Conns, TakeRequest(g)
      PROVE  MemberMove(c)
  BY <1>21, SentinelsAssumption, RolesAssumption DEF TakeRequest, MemberMove,
     KeepsRoom, TakesRoom, Unclosed, Reasons, TypeInv, TypeOK, RolesOK,
     LocalsOK, HostLabels, ClientLabels, DataLabels, BeforeRoom
<1>22. ASSUME NEW g \in Conns, LinkClient(g)
      PROVE  MemberMove(c)
  BY <1>22, SentinelsAssumption, RolesAssumption DEF LinkClient, MemberMove,
     KeepsRoom, TakesRoom, Unclosed, Reasons, TypeInv, TypeOK, RolesOK,
     LocalsOK, HostLabels, ClientLabels, DataLabels, BeforeRoom
<1>23. ASSUME NEW g \in Conns, LinkBack(g)
      PROVE  MemberMove(c)
  BY <1>23, SentinelsAssumption, RolesAssumption DEF LinkBack, MemberMove,
     KeepsRoom, TakesRoom, Unclosed, Reasons, TypeInv, TypeOK, RolesOK,
     LocalsOK, HostLabels, ClientLabels, DataLabels, BeforeRoom
<1>24. ASSUME NEW g \in Conns, DataEnter(g)
      PROVE  MemberMove(c)
  BY <1>24, SentinelsAssumption, RolesAssumption DEF DataEnter, MemberMove,
     KeepsRoom, TakesRoom, Unclosed, Reasons, TypeInv, TypeOK, RolesOK,
     LocalsOK, HostLabels, ClientLabels, DataLabels, BeforeRoom
<1>25. ASSUME NEW g \in Conns, CleanupAsHost(g)
      PROVE  MemberMove(c)
  BY <1>25, SentinelsAssumption, RolesAssumption DEF CleanupAsHost,
     MemberMove, KeepsRoom, TakesRoom, Unclosed, Reasons, TypeInv, TypeOK,
     RolesOK, LocalsOK, HostLabels, ClientLabels, DataLabels, BeforeRoom
<1>26. ASSUME NEW g \in Conns, CleanupAsMember(g)
      PROVE  MemberMove(c)
  BY <1>26, SentinelsAssumption, RolesAssumption DEF CleanupAsMember,
     MemberMove, KeepsRoom, TakesRoom, Unclosed, Reasons, TypeInv, TypeOK,
     RolesOK, LocalsOK, HostLabels, ClientLabels, DataLabels, BeforeRoom
<1>27. ASSUME NEW g \in Conns, CleanupWithoutRoom(g)
      PROVE  MemberMove(c)
  BY <1>27, SentinelsAssumption, RolesAssumption DEF CleanupWithoutRoom,
     MemberMove, KeepsRoom, TakesRoom, Unclosed, Reasons, TypeInv, TypeOK,
     RolesOK, LocalsOK, HostLabels, ClientLabels, DataLabels, BeforeRoom
<1>28. ASSUME NEW g \in Conns, NEW other \in Conns, CloseOther(g, other)
      PROVE  MemberMove(c)
  BY <1>28, SentinelsAssumption, RolesAssumption DEF CloseOther, MemberMove,
     KeepsRoom, TakesRoom, Unclosed, Reasons, TypeInv, TypeOK, RolesOK,
     LocalsOK, HostLabels, ClientLabels, DataLabels, BeforeRoom
<1>29. ASSUME NEW g \in Conns, CloseOwn(g)
      PROVE  MemberMove(c)
  BY <1>29, SentinelsAssumption, RolesAssumption DEF CloseOwn, MemberMove,
     KeepsRoom, TakesRoom, Unclosed, Reasons, TypeInv, TypeOK, RolesOK,
     LocalsOK, HostLabels, ClientLabels, DataLabels, BeforeRoom
<1>30. ASSUME NEW g \in Conns, ClientRelayEnds(g)
      PROVE  MemberMove(c)
  BY <1>30, SentinelsAssumption, RolesAssumption DEF ClientRelayEnds,
     ClientLeaves, MemberMove, KeepsRoom, TakesRoom, Unclosed, Reasons,
     TypeInv, TypeOK, RolesOK, LocalsOK, HostLabels, ClientLabels, DataLabels,
     BeforeRoom
<1>31. ASSUME NEW g \in Conns, HostSignalEnds(g)
      PROVE  MemberMove(c)
  BY <1>31, SentinelsAssumption, RolesAssumption DEF HostSignalEnds,
     MemberMove, KeepsRoom, TakesRoom, Unclosed, Reasons, TypeInv, TypeOK,
     RolesOK, LocalsOK, HostLabels, ClientLabels, DataLabels, BeforeRoom
<1>32. ASSUME NEW g \in Conns, DataRelayEnds(g)
      PROVE  MemberMove(c)
  BY <1>32, SentinelsAssumption, RolesAssumption DEF DataRelayEnds,
     MemberMove, KeepsRoom, TakesRoom, Unclosed, Reasons, TypeInv, TypeOK,
     RolesOK, LocalsOK, HostLabels, ClientLabels, DataLabels, BeforeRoom
<1>33. ASSUME NEW g \in Conns, PeerLeaves(g)
      PROVE  MemberMove(c)
  BY <1>33, SentinelsAssumption, RolesAssumption DEF PeerLeaves, MemberMove,
     KeepsRoom, TakesRoom, Unclosed, Reasons, TypeInv, TypeOK, RolesOK,
     LocalsOK, HostLabels, ClientLabels, DataLabels, BeforeRoom
<1>34. ASSUME NEW p \in Creators, EvictClose(p)
      PROVE  MemberMove(c)
  BY <1>34, SentinelsAssumption, RolesAssumption DEF EvictClose, MemberMove,
     KeepsRoom, TakesRoom, Unclosed, Reasons, TypeInv, TypeOK, RolesOK,
     LocalsOK, HostLabels, ClientLabels, DataLabels, BeforeRoom
<1>35. ASSUME NEW g \in HostConns, IdleClose(g)
      PROVE  MemberMove(c)
  BY <1>35, SentinelsAssumption, RolesAssumption DEF IdleClose, MemberMove,
     KeepsRoom, TakesRoom, Unclosed, Reasons, TypeInv, TypeOK, RolesOK,
     LocalsOK, HostLabels, ClientLabels, DataLabels, BeforeRoom
<1>36. CASE UNCHANGED <<pc, sock, gameId, room>>
  BY <1>36 DEF MemberMove, KeepsRoom, Unclosed
<1> QED
  BY <1>1, <1>2, <1>3, <1>4, <1>5, <1>6, <1>7, <1>8, <1>9, <1>10, <1>11,
     <1>12, <1>13, <1>14, <1>15, <1>16, <1>17, <1>18, <1>19, <1>20, <1>21,
     <1>22, <1>23, <1>24, <1>25, <1>26, <1>27, <1>28, <1>29, <1>30, <1>31,
     <1>32, <1>33, <1>34, <1>35, <1>36 DEF Next, Arrive, Proceed,
     StopRelaying, ClientStep, HostStep, LinkStep, CleanupStep, EvictStep,
     SweepStep, Age, vars, CreateFresh, ReuseHostless, EvictBegin,
     EvictFinish, UnusedScan, UnusedPrune, IdleScan, IdleDelete, Expire,
     BecomeIdle, ForgetReason

LEMMA CountMoves ==
    ASSUME TypeInv, [Next]_vars
    PROVE  CountMove
<1>1. ASSUME NEW g \in ClientConns, NEW code \in Codes, ClientJoin(g, code)
      PROVE  CountMove
  BY <1>1, SentinelsAssumption, RolesAssumption DEF ClientJoin, CountMove,
     SameBut, Handlers, Counted, TypeInv, TypeOK, RolesOK, HostLabels,
     ClientLabels, DataLabels
<1>2. ASSUME NEW g \in ClientConns, NEW code \in Codes, ClientMissesRoom(g, code)
      PROVE  CountMove
  BY <1>2, SentinelsAssumption, RolesAssumption DEF ClientMissesRoom,
     CountMove, SameBut, Handlers, Counted, TypeInv, TypeOK, RolesOK,
     HostLabels, ClientLabels, DataLabels
<1>3. ASSUME NEW g \in HostConns, NEW code \in Codes, HostJoin(g, code)
      PROVE  CountMove
  BY <1>3, SentinelsAssumption, RolesAssumption DEF HostJoin, Claimable,
     CountMove, SameBut, Handlers, Counted, TypeInv, TypeOK, RolesOK,
     HostLabels, ClientLabels, DataLabels
<1>4. ASSUME NEW g \in HostConns, NEW code \in Codes, HostRefused(g, code)
      PROVE  CountMove
  BY <1>4, SentinelsAssumption, RolesAssumption DEF HostRefused, CountMove,
     SameBut, Handlers, Counted, TypeInv, TypeOK, RolesOK, HostLabels,
     ClientLabels, DataLabels
<1>5. ASSUME NEW g \in DataConns, NEW code \in Codes, NEW q \in Requests, DataJoin(g, code, q)
      PROVE  CountMove
  BY <1>5, SentinelsAssumption, RolesAssumption DEF DataJoin, CountMove,
     SameBut, Handlers, Counted, TypeInv, TypeOK, RolesOK, HostLabels,
     ClientLabels, DataLabels
<1>6. ASSUME NEW g \in DataConns, NEW code \in Codes, NEW q \in Requests, DataRefused(g, code, q)
      PROVE  CountMove
  BY <1>6, SentinelsAssumption, RolesAssumption DEF DataRefused, CountMove,
     SameBut, Handlers, Counted, TypeInv, TypeOK, RolesOK, HostLabels,
     ClientLabels, DataLabels
<1>7. ASSUME NEW g \in Conns, ClientTurnedAway(g)
      PROVE  CountMove
  BY <1>7, SentinelsAssumption, RolesAssumption DEF ClientTurnedAway,
     CountMove, SameBut, Handlers, Counted, TypeInv, TypeOK, RolesOK,
     HostLabels, ClientLabels, DataLabels
<1>8. ASSUME NEW g \in Conns, ClientEnter(g)
      PROVE  CountMove
  BY <1>8, SentinelsAssumption, RolesAssumption DEF ClientEnter, CountMove,
     SameBut, Handlers, Counted, TypeInv, TypeOK, RolesOK, HostLabels,
     ClientLabels, DataLabels
<1>9. ASSUME NEW g \in Conns, ClientRefused(g)
      PROVE  CountMove
  BY <1>9, SentinelsAssumption, RolesAssumption DEF ClientRefused,
     ClientLeaves, CountMove, SameBut, Handlers, Counted, TypeInv, TypeOK,
     RolesOK, HostLabels, ClientLabels, DataLabels
<1>10. ASSUME NEW g \in Conns, NEW q \in Requests, RegisterRequest(g, q)
      PROVE  CountMove
  BY <1>10, SentinelsAssumption, RolesAssumption DEF RegisterRequest,
     CountMove, SameBut, Handlers, Counted, TypeInv, TypeOK, RolesOK,
     HostLabels, ClientLabels, DataLabels
<1>11. ASSUME NEW g \in Conns, RegisterNilEntry(g)
      PROVE  CountMove
  BY <1>11, SentinelsAssumption, RolesAssumption DEF RegisterNilEntry,
     CountMove, SameBut, Handlers, Counted, TypeInv, TypeOK, RolesOK,
     HostLabels, ClientLabels, DataLabels
<1>12. ASSUME NEW g \in Conns, Announce(g)
      PROVE  CountMove
  <2>1. g \in ClientConns /\ g \in Handlers /\ pc[g] = "announce"
    BY <1>12, RolesAssumption DEF Announce, Handlers, TypeInv, RolesOK, HostLabels, DataLabels
  <2>2. SameBut(g)
    BY <1>12 DEF Announce, ClientLeaves, SameBut, Handlers, TypeInv, TypeOK
  <2>3. CASE ClientLeaves(g)
    BY <2>1, <2>2, <2>3 DEF ClientLeaves, CountMove, Counted, TypeInv, TypeOK
  <2>4. CASE ~ClientLeaves(g)
    <3>1. pc'[g] \in Counted /\ UNCHANGED NumberOfClientsConnected
      BY <1>12, <2>1, <2>4 DEF Announce, Counted, TypeInv, TypeOK
    <3> QED
      BY <2>1, <2>2, <3>1 DEF CountMove, SameBut, Counted
  <2> QED
    BY <2>3, <2>4
<1>13. ASSUME NEW g \in Conns, WaitFails(g)
      PROVE  CountMove
  BY <1>13, SentinelsAssumption, RolesAssumption DEF WaitFails, WaitReturns,
     CountMove, SameBut, Handlers, Counted, TypeInv, TypeOK, RolesOK,
     HostLabels, ClientLabels, DataLabels
<1>14. ASSUME NEW g \in Conns, WaitLooksUp(g)
      PROVE  CountMove
  BY <1>14, SentinelsAssumption, RolesAssumption DEF WaitLooksUp, CountMove,
     SameBut, Handlers, Counted, TypeInv, TypeOK, RolesOK, HostLabels,
     ClientLabels, DataLabels
<1>15. ASSUME NEW g \in Conns, PollFinds(g)
      PROVE  CountMove
  BY <1>15, SentinelsAssumption, RolesAssumption DEF PollFinds, WaitReturns,
     CountMove, SameBut, Handlers, Counted, TypeInv, TypeOK, RolesOK,
     HostLabels, ClientLabels, DataLabels
<1>16. ASSUME NEW g \in Conns, PollAgain(g)
      PROVE  CountMove
  BY <1>16, SentinelsAssumption, RolesAssumption DEF PollAgain, CountMove,
     SameBut, Handlers, Counted, TypeInv, TypeOK, RolesOK, HostLabels,
     ClientLabels, DataLabels
<1>17. ASSUME NEW g \in Conns, PollTimesOut(g)
      PROVE  CountMove
  BY <1>17, SentinelsAssumption, RolesAssumption DEF PollTimesOut,
     WaitReturns, CountMove, SameBut, Handlers, Counted, TypeInv, TypeOK,
     RolesOK, HostLabels, ClientLabels, DataLabels
<1>18. ASSUME NEW g \in Conns, ForgetRequest(g)
      PROVE  CountMove
  <2>1. g \in ClientConns /\ g \in Handlers /\ pc[g] = "forget"
    BY <1>18, RolesAssumption DEF ForgetRequest, Handlers, TypeInv, RolesOK, HostLabels, DataLabels
  <2>2. SameBut(g)
    BY <1>18 DEF ForgetRequest, ClientLeaves, SameBut, Handlers, TypeInv, TypeOK
  <2>3. CASE ClientLeaves(g)
    BY <2>1, <2>2, <2>3 DEF ClientLeaves, CountMove, Counted, TypeInv, TypeOK
  <2>4. CASE ~ClientLeaves(g)
    <3>1. pc'[g] \in Counted /\ UNCHANGED NumberOfClientsConnected
      BY <1>18, <2>1, <2>4 DEF ForgetRequest, Counted, TypeInv, TypeOK
    <3> QED
      BY <2>1, <2>2, <3>1 DEF CountMove, SameBut, Counted
  <2> QED
    BY <2>3, <2>4
<1>19. ASSUME NEW g \in Conns, HostEnter(g)
      PROVE  CountMove
  BY <1>19, SentinelsAssumption, RolesAssumption DEF HostEnter, CountMove,
     SameBut, Handlers, Counted, TypeInv, TypeOK, RolesOK, HostLabels,
     ClientLabels, DataLabels
<1>20. ASSUME NEW g \in Conns, HostTooLate(g)
      PROVE  CountMove
  BY <1>20, SentinelsAssumption, RolesAssumption DEF HostTooLate, CountMove,
     SameBut, Handlers, Counted, TypeInv, TypeOK, RolesOK, HostLabels,
     ClientLabels, DataLabels
<1>21. ASSUME NEW g \in Conns, TakeRequest(g)
      PROVE  CountMove
  BY <1>21, SentinelsAssumption, RolesAssumption DEF TakeRequest, CountMove,
     SameBut, Handlers, Counted, TypeInv, TypeOK, RolesOK, HostLabels,
     ClientLabels, DataLabels
<1>22. ASSUME NEW g \in Conns, LinkClient(g)
      PROVE  CountMove
  BY <1>22, SentinelsAssumption, RolesAssumption DEF LinkClient, CountMove,
     SameBut, Handlers, Counted, TypeInv, TypeOK, RolesOK, HostLabels,
     ClientLabels, DataLabels
<1>23. ASSUME NEW g \in Conns, LinkBack(g)
      PROVE  CountMove
  BY <1>23, SentinelsAssumption, RolesAssumption DEF LinkBack, CountMove,
     SameBut, Handlers, Counted, TypeInv, TypeOK, RolesOK, HostLabels,
     ClientLabels, DataLabels
<1>24. ASSUME NEW g \in Conns, DataEnter(g)
      PROVE  CountMove
  BY <1>24, SentinelsAssumption, RolesAssumption DEF DataEnter, CountMove,
     SameBut, Handlers, Counted, TypeInv, TypeOK, RolesOK, HostLabels,
     ClientLabels, DataLabels
<1>25. ASSUME NEW g \in Conns, CleanupAsHost(g)
      PROVE  CountMove
  BY <1>25, SentinelsAssumption, RolesAssumption DEF CleanupAsHost, CountMove,
     SameBut, Handlers, Counted, TypeInv, TypeOK, RolesOK, HostLabels,
     ClientLabels, DataLabels
<1>26. ASSUME NEW g \in Conns, CleanupAsMember(g)
      PROVE  CountMove
  BY <1>26, SentinelsAssumption, RolesAssumption DEF CleanupAsMember,
     CountMove, SameBut, Handlers, Counted, TypeInv, TypeOK, RolesOK,
     HostLabels, ClientLabels, DataLabels
<1>27. ASSUME NEW g \in Conns, CleanupWithoutRoom(g)
      PROVE  CountMove
  BY <1>27, SentinelsAssumption, RolesAssumption DEF CleanupWithoutRoom,
     CountMove, SameBut, Handlers, Counted, TypeInv, TypeOK, RolesOK,
     HostLabels, ClientLabels, DataLabels
<1>28. ASSUME NEW g \in Conns, NEW other \in Conns, CloseOther(g, other)
      PROVE  CountMove
  BY <1>28, SentinelsAssumption, RolesAssumption DEF CloseOther, CountMove,
     SameBut, Handlers, Counted, TypeInv, TypeOK, RolesOK, HostLabels,
     ClientLabels, DataLabels
<1>29. ASSUME NEW g \in Conns, CloseOwn(g)
      PROVE  CountMove
  BY <1>29, SentinelsAssumption, RolesAssumption DEF CloseOwn, CountMove,
     SameBut, Handlers, Counted, TypeInv, TypeOK, RolesOK, HostLabels,
     ClientLabels, DataLabels
<1>30. ASSUME NEW g \in Conns, ClientRelayEnds(g)
      PROVE  CountMove
  BY <1>30, SentinelsAssumption, RolesAssumption DEF ClientRelayEnds,
     ClientLeaves, CountMove, SameBut, Handlers, Counted, TypeInv, TypeOK,
     RolesOK, HostLabels, ClientLabels, DataLabels
<1>31. ASSUME NEW g \in Conns, HostSignalEnds(g)
      PROVE  CountMove
  BY <1>31, SentinelsAssumption, RolesAssumption DEF HostSignalEnds,
     CountMove, SameBut, Handlers, Counted, TypeInv, TypeOK, RolesOK,
     HostLabels, ClientLabels, DataLabels
<1>32. ASSUME NEW g \in Conns, DataRelayEnds(g)
      PROVE  CountMove
  BY <1>32, SentinelsAssumption, RolesAssumption DEF DataRelayEnds, CountMove,
     SameBut, Handlers, Counted, TypeInv, TypeOK, RolesOK, HostLabels,
     ClientLabels, DataLabels
<1>33. ASSUME NEW g \in Conns, PeerLeaves(g)
      PROVE  CountMove
  BY <1>33, SentinelsAssumption, RolesAssumption DEF PeerLeaves, CountMove,
     SameBut, Handlers, Counted, TypeInv, TypeOK, RolesOK, HostLabels,
     ClientLabels, DataLabels
<1>34. ASSUME NEW p \in Creators, EvictClose(p)
      PROVE  CountMove
  BY <1>34, SentinelsAssumption, RolesAssumption DEF EvictClose, CountMove,
     SameBut, Handlers, Counted, TypeInv, TypeOK, RolesOK, HostLabels,
     ClientLabels, DataLabels
<1>35. ASSUME NEW g \in HostConns, IdleClose(g)
      PROVE  CountMove
  BY <1>35, SentinelsAssumption, RolesAssumption DEF IdleClose, CountMove,
     SameBut, Handlers, Counted, TypeInv, TypeOK, RolesOK, HostLabels,
     ClientLabels, DataLabels
<1>36. CASE UNCHANGED <<pc, NumberOfClientsConnected>>
  BY <1>36 DEF CountMove
<1> QED
  BY <1>1, <1>2, <1>3, <1>4, <1>5, <1>6, <1>7, <1>8, <1>9, <1>10, <1>11,
     <1>12, <1>13, <1>14, <1>15, <1>16, <1>17, <1>18, <1>19, <1>20, <1>21,
     <1>22, <1>23, <1>24, <1>25, <1>26, <1>27, <1>28, <1>29, <1>30, <1>31,
     <1>32, <1>33, <1>34, <1>35, <1>36 DEF Next, Arrive, Proceed,
     StopRelaying, ClientStep, HostStep, LinkStep, CleanupStep, EvictStep,
     SweepStep, Age, vars, CreateFresh, ReuseHostless, EvictBegin,
     EvictFinish, UnusedScan, UnusedPrune, IdleScan, IdleDelete, Expire,
     BecomeIdle, ForgetReason

\* A room that was made and is not listed under a code is not listed there again.
LEMMA NotListedAgain ==
    ASSUME TypeInv, [Next]_vars, NEW code \in Codes, NEW r \in RoomObjs,
           r \in allocated, Rooms'[code] = r
    PROVE  Rooms[code] = r
<1>1. r # Absent
  BY SentinelsAssumption
<1>2. ASSUME NEW k \in Codes, NEW other \in RoomObjs, Allocate(k, other)
      PROVE  Rooms[code] = r
  BY <1>2 DEF Allocate, TypeInv, TypeOK
<1>3. ASSUME NEW g \in Conns, CleanupAsHost(g) PROVE Rooms[code] = r
  BY <1>1, <1>3, CodeKnown DEF CleanupAsHost, Unregistered, TypeInv, TypeOK
<1>4. ASSUME UnusedPrune \/ IdleDelete PROVE Rooms[code] = r
  BY <1>1, <1>4 DEF UnusedPrune, IdleDelete
<1> QED
  BY <1>2, <1>3, <1>4, DirectoryMoves DEF DirectoryMove, HostJoin

\* A room is listed where its members look it up, for as long as it is listed.
LEMMA AtHomeStep ==
    ASSUME TypeInv, DirectoryInv, ListedAtHome, [Next]_vars
    PROVE  ListedAtHome'
<1> SUFFICES ASSUME NEW c \in Conns, room'[c] # Nil
             PROVE  /\ room'[c] \in allocated'
                    /\ \A code \in Codes : Rooms'[code] = room'[c] => code = gameId'[c]
  BY DEF ListedAtHome
<1>1. MemberMove(c)
  BY MembersMove
<1>2. CASE KeepsRoom(c)
  <2>1. room[c] \in allocated /\ room'[c] = room[c] /\ gameId'[c] = gameId[c]
    BY <1>2 DEF KeepsRoom, ListedAtHome
  <2>2. allocated \subseteq allocated'
    BY DirectoryMoves
    DEF DirectoryMove, Allocate, HostJoin, CleanupAsHost, UnusedPrune, IdleDelete
  <2>3. room[c] \in RoomObjs
    BY <1>2 DEF KeepsRoom, TypeInv, TypeOK
  <2> QED
    BY <2>1, <2>2, <2>3, NotListedAgain DEF ListedAtHome
<1>3. CASE TakesRoom(c)
  BY <1>3 DEF TakesRoom, DirectoryInv, ListedOnce
<1> QED
  BY <1>1, <1>2, <1>3 DEF MemberMove

\* What a handler leaves open is in no listed room, and is in none later.
LEMMA StrandedStep ==
    ASSUME TypeInv, DirectoryInv, ListedAtHome, NoStrandedSocket, [Next]_vars
    PROVE  NoStrandedSocket'
<1> SUFFICES ASSUME NEW c \in Conns, pc'[c] = "done", Unclosed(c)',
                    NEW code \in Codes, Rooms'[code] = room'[c]
             PROVE  FALSE
  BY DEF NoStrandedSocket, Registered, Unclosed
<1>1. KeepsRoom(c)
  BY MembersMove DEF MemberMove
<1>2. CASE pc[c] = "done" /\ Unclosed(c)
  <2>1. Rooms[code] # room[c]
    BY <1>2 DEF NoStrandedSocket, Registered
  <2>2. Rooms'[code] # Rooms[code] /\ Rooms'[code] = room[c]
    BY <1>1, <2>1 DEF KeepsRoom
  <2>3. CASE room[c] = Nil
    <3>1. Rooms'[code] \in RoomObjs \cup {Absent}
      BY TypeStep DEF TypeInv, TypeOK
    <3> QED
      BY <2>2, <2>3, <3>1, SentinelsAssumption
  <2>4. CASE room[c] # Nil
    <3>1. room[c] \in allocated /\ room[c] # Absent
      BY <2>4, SentinelsAssumption DEF ListedAtHome, TypeInv, TypeOK
    <3> QED
      BY <2>2, <3>1, NotListedAgain DEF TypeInv, TypeOK
  <2> QED
    BY <2>3, <2>4
<1>3. CASE /\ gameId[c] \in Codes /\ Rooms[gameId[c]] = Absent /\ UNCHANGED Rooms
  <2>1. Rooms[code] = room[c] /\ Rooms[code] \in RoomObjs \cup {Absent}
    BY <1>1, <1>3 DEF KeepsRoom, TypeInv, TypeOK
  <2>2. room[c] # Nil /\ room[c] # Absent
    BY <2>1, SentinelsAssumption DEF TypeInv, TypeOK
  <2>3. code = gameId[c]
    BY <2>1, <2>2 DEF ListedAtHome
  <2> QED
    BY <1>3, <2>1, <2>2, <2>3
<1> QED
  BY <1>2, <1>3, MembersMove DEF MemberMove

LEMMA StrandedInit ==
    ASSUME Init
    PROVE  ListedAtHome /\ NoStrandedSocket
BY DEF Init, ListedAtHome, NoStrandedSocket

\* For any number of codes, rooms and connections: a handler that returned and
\* left its socket unclosed did so in a room that is not listed any more.
THEOREM NoStrandedSocketHolds == Spec => []NoStrandedSocket
<1>1. Init => ListedAtHome /\ NoStrandedSocket
  BY StrandedInit
<1>2. TypeInv /\ DirectoryInv /\ ListedAtHome /\ NoStrandedSocket /\ [Next]_vars
        => (ListedAtHome /\ NoStrandedSocket)'
  BY AtHomeStep, StrandedStep
<1> QED
  BY <1>1, <1>2, DirectoryInductive, PTL DEF Spec

LEMMA CoversStep ==
    ASSUME IsFiniteSet(Handlers), TypeInv, CounterCoversHandlers, [Next]_vars
    PROVE  CounterCoversHandlers'
<1>1. IsFiniteSet(Handling) /\ Cardinality(Handling) \in Nat
  BY FS_Subset, FS_CardinalityType DEF Handling
<1>2. NumberOfClientsConnected >= Cardinality(Handling)
  BY DEF CounterCoversHandlers, Handling, Handlers
<1> SUFFICES NumberOfClientsConnected' >= Cardinality(Handling')
  BY DEF CounterCoversHandlers, Handling, Handlers
<1>3. NumberOfClientsConnected \in Int
  BY DEF TypeInv, TypeOK
<1>4. ASSUME \A c \in Handlers : pc'[c] \in Counted <=> pc[c] \in Counted,
             UNCHANGED NumberOfClientsConnected
      PROVE  NumberOfClientsConnected' >= Cardinality(Handling')
  <2>1. Handling' = Handling
    BY <1>4 DEF Handling
  <2> QED
    BY <1>2, <1>4, <2>1
<1>5. ASSUME NEW c \in Handlers, SameBut(c), pc[c] \notin Counted, pc'[c] \in Counted,
             NumberOfClientsConnected' = NumberOfClientsConnected + 1
      PROVE  NumberOfClientsConnected' >= Cardinality(Handling')
  <2>1. Handling' = Handling \cup {c} /\ c \notin Handling
    BY <1>5 DEF Handling, SameBut
  <2>2. Cardinality(Handling') = Cardinality(Handling) + 1
    BY <1>1, <2>1, FS_AddElement
  <2> QED
    BY <1>1, <1>2, <1>3, <1>5, <2>2
<1>6. ASSUME NEW c \in Handlers, SameBut(c), pc[c] \in Counted, pc'[c] \notin Counted,
             NumberOfClientsConnected' \in
                {NumberOfClientsConnected - 1, NumberOfClientsConnected}
      PROVE  NumberOfClientsConnected' >= Cardinality(Handling')
  <2>1. Handling' = Handling \ {c} /\ c \in Handling
    BY <1>6 DEF Handling, SameBut
  <2>2. Cardinality(Handling') = Cardinality(Handling) - 1
    BY <1>1, <2>1, FS_RemoveElement
  <2> QED
    BY <1>1, <1>2, <1>3, <1>6, <2>2
<1> QED
  BY <1>4, <1>5, <1>6, CountMoves DEF CountMove

LEMMA CoversInit ==
    ASSUME Init
    PROVE  CounterCoversHandlers
<1>1. {c \in HostConns \cup ClientConns : pc[c] \in Counted} = {}
  BY DEF Init, Counted
<1>2. Cardinality({c \in HostConns \cup ClientConns : pc[c] \in Counted}) = 0
  <2>1. Cardinality({}) = 0
    BY FS_EmptySet
  <2> QED
    BY <1>1, <2>1, Zenon
<1> QED
  BY <1>2 DEF Init, CounterCoversHandlers

\* For any number of connections, if only finite: the counter covers every host
\* and client whose decrement is still to come, so it is never negative.
THEOREM CounterCoversHandlersHolds ==
    ASSUME IsFiniteSet(Handlers)
    PROVE  Spec => []CounterCoversHandlers
<1>1. Init => CounterCoversHandlers
  BY CoversInit
<1>2. TypeInv /\ CounterCoversHandlers /\ [Next]_vars => CounterCoversHandlers'
  BY CoversStep
<1> QED
  BY <1>1, <1>2, DirectoryInductive, PTL DEF Spec
=============================================================================
