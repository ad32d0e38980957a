------------------------- MODULE RelayTunnelProofs --------------------------
(***************************************************************************)
(* TunnelFallsTogether, for every number of clients, data connections,     *)
(* rooms and codes.  A step is one connection's own (Acts); all others     *)
(* rest, and what they see of it is a socket that closes, an entry in a    *)
(* map, a room that goes, or a request that the host hears.  The conjuncts *)
(* of TeardownInv are inductive relative to PairInv and DirectoryInv.      *)
(***************************************************************************)
EXTENDS RelayPairProofs, RelayRoomProofs

USE DEF Conns, Goto, Accept, Reject, CloseWebsocket, roomVars, ageVars, localVars,
        creatorVars, sweeperVars

\* What a connection that does not act keeps.
Rests(c) ==
    /\ pc'[c] = pc[c]
    /\ gameId'[c] = gameId[c]
    /\ room'[c] = room[c]
    /\ peer'[c] = peer[c]
    /\ request'[c] = request[c]
    /\ toClose'[c] = toClose[c]
    /\ c \in ClientConns => polled'[c] = polled[c]

\* The steps of a client, and of a data connection.
Leaves(c) ==
    \/ CleanupAsMember(c)
    \/ CleanupWithoutRoom(c)
    \/ \E other \in Conns : CloseOther(c, other)
    \/ CloseOwn(c)

ClientActs(c) ==
    \/ \E code \in Codes : ClientJoin(c, code) \/ ClientMissesRoom(c, code)
    \/ ClientTurnedAway(c)
    \/ ClientStep(c)
    \/ ClientRelayEnds(c)
    \/ Leaves(c)

DataActs(d) ==
    \/ \E code \in Codes, q \in Requests :
            DataJoin(d, code, q) \/ DataRefused(d, code, q)
    \/ LinkStep(d)
    \/ DataEnter(d)
    \/ DataRelayEnds(d)
    \/ Leaves(d)

HostActs(h) ==
    \/ \E code \in Codes : HostJoin(h, code) \/ HostRefused(h, code)
    \/ HostStep(h)
    \/ HostSignalEnds(h)
    \/ CleanupAsHost(h)
    \/ Leaves(h)

Acts(c) == ClientActs(c) \/ DataActs(c) \/ HostActs(c)

\* A step is somebody's; whoever it is not keeps what is its own.
LEMMA ActOrRest ==
    ASSUME TypeInv, NEW c \in Conns, [Next]_vars
    PROVE  Rests(c) \/ Acts(c)
<1> SUFFICES ASSUME ~Acts(c)
             PROVE  Rests(c)
  OBVIOUS

<1>1. ASSUME NEW g \in ClientConns, NEW code \in Codes, ClientJoin(g, code)
      PROVE  Rests(c)
  BY <1>1 DEF ClientJoin, Rests, Acts, ClientActs, TypeInv, TypeOK
<1>2. ASSUME NEW g \in ClientConns, NEW code \in Codes, ClientMissesRoom(g, code)
      PROVE  Rests(c)
  BY <1>2 DEF ClientMissesRoom, Rests, Acts, ClientActs, TypeInv, TypeOK
<1>3. ASSUME NEW g \in HostConns, NEW code \in Codes, HostJoin(g, code)
      PROVE  Rests(c)
  BY <1>3 DEF HostJoin, Claimable, Rests, Acts, HostActs, TypeInv, TypeOK
<1>4. ASSUME NEW g \in HostConns, NEW code \in Codes, HostRefused(g, code)
      PROVE  Rests(c)
  BY <1>4 DEF HostRefused, Rests, Acts, HostActs, TypeInv, TypeOK
<1>5. ASSUME NEW g \in DataConns, NEW code \in Codes, NEW q \in Requests, DataJoin(g, code, q)
      PROVE  Rests(c)
  BY <1>5 DEF DataJoin, Rests, Acts, DataActs, TypeInv, TypeOK
<1>6. ASSUME NEW g \in DataConns, NEW code \in Codes, NEW q \in Requests, DataRefused(g, code, q)
      PROVE  Rests(c)
  BY <1>6 DEF DataRefused, Rests, Acts, DataActs, TypeInv, TypeOK
<1>7. ASSUME NEW g \in Conns, ClientTurnedAway(g)
      PROVE  Rests(c)
  BY <1>7 DEF ClientTurnedAway, Rests, Acts, ClientActs, TypeInv, TypeOK
<1>8. ASSUME NEW g \in Conns, ClientEnter(g)
      PROVE  Rests(c)
  BY <1>8 DEF ClientEnter, Rests, Acts, ClientActs, ClientStep, TypeInv,
     TypeOK
<1>9. ASSUME NEW g \in Conns, ClientRefused(g)
      PROVE  Rests(c)
  BY <1>9 DEF ClientRefused, ClientLeaves, Rests, Acts, ClientActs,
     ClientStep, TypeInv, TypeOK
<1>10. ASSUME NEW g \in Conns, NEW q \in Requests, RegisterRequest(g, q)
      PROVE  Rests(c)
  BY <1>10 DEF RegisterRequest, Rests, Acts, ClientActs, ClientStep, TypeInv,
     TypeOK
<1>11. ASSUME NEW g \in Conns, RegisterNilEntry(g)
      PROVE  Rests(c)
  BY <1>11 DEF RegisterNilEntry, Rests, Acts, ClientActs, ClientStep, TypeInv,
     TypeOK
<1>12. ASSUME NEW g \in Conns, Announce(g)
      PROVE  Rests(c)
  BY <1>12 DEF Announce, ClientLeaves, Rests, Acts, ClientActs, ClientStep,
     TypeInv, TypeOK
<1>13. ASSUME NEW g \in Conns, WaitFails(g)
      PROVE  Rests(c)
  BY <1>13 DEF WaitFails, WaitReturns, Rests, Acts, ClientActs, ClientStep,
     TypeInv, TypeOK
<1>14. ASSUME NEW g \in Conns, WaitLooksUp(g)
      PROVE  Rests(c)
  BY <1>14 DEF WaitLooksUp, Rests, Acts, ClientActs, ClientStep, TypeInv,
     TypeOK
<1>15. ASSUME NEW g \in Conns, PollFinds(g)
      PROVE  Rests(c)
  BY <1>15 DEF PollFinds, WaitReturns, Rests, Acts, ClientActs, ClientStep,
     TypeInv, TypeOK
<1>16. ASSUME NEW g \in Conns, PollAgain(g)
      PROVE  Rests(c)
  BY <1>16 DEF PollAgain, Rests, Acts, ClientActs, ClientStep, TypeInv, TypeOK
<1>17. ASSUME NEW g \in Conns, PollTimesOut(g)
      PROVE  Rests(c)
  BY <1>17 DEF PollTimesOut, WaitReturns, Rests, Acts, ClientActs, ClientStep,
     TypeInv, TypeOK
<1>18. ASSUME NEW g \in Conns, ForgetRequest(g)
      PROVE  Rests(c)
  BY <1>18 DEF ForgetRequest, ClientLeaves, Rests, Acts, ClientActs,
     ClientStep, TypeInv, TypeOK
<1>19. ASSUME NEW g \in Conns, HostEnter(g)
      PROVE  Rests(c)
  BY <1>19 DEF HostEnter, Rests, Acts, HostActs, HostStep, TypeInv, TypeOK
<1>20. ASSUME NEW g \in Conns, HostTooLate(g)
      PROVE  Rests(c)
  BY <1>20 DEF HostTooLate, Rests, Acts, HostActs, HostStep, TypeInv, TypeOK
<1>21. ASSUME NEW g \in Conns, TakeRequest(g)
      PROVE  Rests(c)
  BY <1>21 DEF TakeRequest, Rests, Acts, DataActs, LinkStep, TypeInv, TypeOK
<1>22. ASSUME NEW g \in Conns, LinkClient(g)
      PROVE  Rests(c)
  BY <1>22 DEF LinkClient, Rests, Acts, DataActs, LinkStep, TypeInv, TypeOK
<1>23. ASSUME NEW g \in Conns, LinkBack(g)
      PROVE  Rests(c)
  BY <1>23 DEF LinkBack, Rests, Acts, DataActs, LinkStep, TypeInv, TypeOK
<1>24. ASSUME NEW g \in Conns, DataEnter(g)
      PROVE  Rests(c)
  BY <1>24 DEF DataEnter, Rests, Acts, DataActs, TypeInv, TypeOK
<1>25. ASSUME NEW g \in Conns, CleanupAsHost(g)
      PROVE  Rests(c)
  BY <1>25 DEF CleanupAsHost, Rests, Acts, HostActs, TypeInv, TypeOK
<1>26. ASSUME NEW g \in Conns, CleanupAsMember(g)
      PROVE  Rests(c)
  BY <1>26 DEF CleanupAsMember, Rests, Acts, HostActs, Leaves, TypeInv, TypeOK
<1>27. ASSUME NEW g \in Conns, CleanupWithoutRoom(g)
      PROVE  Rests(c)
  BY <1>27 DEF CleanupWithoutRoom, Rests, Acts, HostActs, Leaves, TypeInv,
     TypeOK
<1>28. ASSUME NEW g \in Conns, NEW other \in Conns, CloseOther(g, other)
      PROVE  Rests(c)
  BY <1>28 DEF CloseOther, Rests, Acts, HostActs, Leaves, TypeInv, TypeOK
<1>29. ASSUME NEW g \in Conns, CloseOwn(g)
      PROVE  Rests(c)
  BY <1>29 DEF CloseOwn, Rests, Acts, HostActs, Leaves, TypeInv, TypeOK
<1>30. ASSUME NEW g \in Conns, ClientRelayEnds(g)
      PROVE  Rests(c)
  BY <1>30 DEF ClientRelayEnds, ClientLeaves, Rests, Acts, ClientActs,
     TypeInv, TypeOK
<1>31. ASSUME NEW g \in Conns, HostSignalEnds(g)
      PROVE  Rests(c)
  BY <1>31 DEF HostSignalEnds, Rests, Acts, HostActs, TypeInv, TypeOK
<1>32. ASSUME NEW g \in Conns, DataRelayEnds(g)
      PROVE  Rests(c)
  BY <1>32 DEF DataRelayEnds, Rests, Acts, DataActs, TypeInv, TypeOK
<1>33. ASSUME NEW g \in Conns, PeerLeaves(g)
      PROVE  Rests(c)
  BY <1>33 DEF PeerLeaves, Rests
<1>34. ASSUME NEW p \in Creators, EvictClose(p)
      PROVE  Rests(c)
  BY <1>34 DEF EvictClose, Rests
<1>35. ASSUME NEW g \in HostConns, IdleClose(g)
      PROVE  Rests(c)
  BY <1>35 DEF IdleClose, Rests
<1>36. CASE UNCHANGED <<pc, localVars, toClose>>
  BY <1>36 DEF Rests
<1> QED
  BY <1>1, <1>2, <1>3, <1>4, <1>5, <1>6, <1>7, <1>8, <1>9, <1>10, <1>11,
     <1>12, <1>13, <1>14, <1>15, <1>16, <1>17, <1>18, <1>19, <1>20, <1>21,
     <1>22, <1>23, <1>24, <1>25, <1>26, <1>27, <1>28, <1>29, <1>30, <1>31,
     <1>32, <1>33, <1>34, <1>35, <1>36 DEF Next, Arrive, Proceed,
     StopRelaying, ClientStep, HostStep, LinkStep, CleanupStep, EvictStep,
     SweepStep, Age, vars, CreateFresh, ReuseHostless, EvictBegin,
     EvictFinish, UnusedScan, UnusedPrune, IdleScan, IdleDelete, Expire,
     BecomeIdle, ForgetReason

\* Sockets do not open again, and the hosts hear of requests one by one.
SharedMove ==
    /\ \A c \in Conns :
        pc[c] # "none" =>
            /\ Unclosed(c)' => Unclosed(c)
            /\ sock'[c] = "open" => sock[c] = "open"
    /\ \/ UNCHANGED signalled
       \/ \E c \in ClientConns : /\ pc[c] = "announce"
                                 /\ pc'[c] = "waiting"
                                 /\ sock[Host[room[c]]] = "open"
                                 /\ signalled' = signalled \cup {<<gameId[c], request[c]>>}

LEMMA SharedMoves ==
    ASSUME TypeInv, [Next]_vars
    PROVE  SharedMove
<1>1. ASSUME NEW g \in ClientConns, NEW code \in Codes, ClientJoin(g, code)
      PROVE  SharedMove
  BY <1>1, SentinelsAssumption, RolesAssumption DEF ClientJoin, SharedMove,
     Unclosed, Reasons, TypeInv, TypeOK, RolesOK, HostLabels, DataLabels
<1>2. ASSUME NEW g \in ClientConns, NEW code \in Codes, ClientMissesRoom(g, code)
      PROVE  SharedMove
  BY <1>2, SentinelsAssumption, RolesAssumption DEF ClientMissesRoom,
     SharedMove, Unclosed, Reasons, TypeInv, TypeOK, RolesOK, HostLabels,
     DataLabels
<1>3. ASSUME NEW g \in HostConns, NEW code \in Codes, HostJoin(g, code)
      PROVE  SharedMove
  BY <1>3, SentinelsAssumption, RolesAssumption DEF HostJoin, Claimable,
     SharedMove, Unclosed, Reasons, TypeInv, TypeOK, RolesOK, HostLabels,
     DataLabels
<1>4. ASSUME NEW g \in HostConns, NEW code \in Codes, HostRefused(g, code)
      PROVE  SharedMove
  BY <1>4, SentinelsAssumption, RolesAssumption DEF HostRefused, SharedMove,
     Unclosed, Reasons, TypeInv, TypeOK, RolesOK, HostLabels, DataLabels
<1>5. ASSUME NEW g \in DataConns, NEW code \in Codes, NEW q \in Requests, DataJoin(g, code, q)
      PROVE  SharedMove
  BY <1>5, SentinelsAssumption, RolesAssumption DEF DataJoin, SharedMove,
     Unclosed, Reasons, TypeInv, TypeOK, RolesOK, HostLabels, DataLabels
<1>6. ASSUME NEW g \in DataConns, NEW code \in Codes, NEW q \in Requests, DataRefused(g, code, q)
      PROVE  SharedMove
  BY <1>6, SentinelsAssumption, RolesAssumption DEF DataRefused, SharedMove,
     Unclosed, Reasons, TypeInv, TypeOK, RolesOK, HostLabels, DataLabels
<1>7. ASSUME NEW g \in Conns, ClientTurnedAway(g)
      PROVE  SharedMove
  BY <1>7, SentinelsAssumption, RolesAssumption DEF ClientTurnedAway,
     SharedMove, Unclosed, Reasons, TypeInv, TypeOK, RolesOK, HostLabels,
     DataLabels
<1>8. ASSUME NEW g \in Conns, ClientEnter(g)
      PROVE  SharedMove
  BY <1>8, SentinelsAssumption, RolesAssumption DEF ClientEnter, SharedMove,
     Unclosed, Reasons, TypeInv, TypeOK, RolesOK, HostLabels, DataLabels
<1>9. ASSUME NEW g \in Conns, ClientRefused(g)
      PROVE  SharedMove
  BY <1>9, SentinelsAssumption, RolesAssumption DEF ClientRefused,
     ClientLeaves, SharedMove, Unclosed, Reasons, TypeInv, TypeOK, RolesOK,
     HostLabels, DataLabels
<1>10. ASSUME NEW g \in Conns, NEW q \in Requests, RegisterRequest(g, q)
      PROVE  SharedMove
  BY <1>10, SentinelsAssumption, RolesAssumption DEF RegisterRequest,
     SharedMove, Unclosed, Reasons, TypeInv, TypeOK, RolesOK, HostLabels,
     DataLabels
<1>11. ASSUME NEW g \in Conns, RegisterNilEntry(g)
      PROVE  SharedMove
  BY <1>11, SentinelsAssumption, RolesAssumption DEF RegisterNilEntry,
     SharedMove, Unclosed, Reasons, TypeInv, TypeOK, RolesOK, HostLabels,
     DataLabels
<1>12. ASSUME NEW g \in Conns, Announce(g)
      PROVE  SharedMove
  BY <1>12, SentinelsAssumption, RolesAssumption DEF Announce, ClientLeaves,
     SharedMove, Unclosed, Reasons, TypeInv, TypeOK, RolesOK, HostLabels,
     DataLabels
<1>13. ASSUME NEW g \in Conns, WaitFails(g)
      PROVE  SharedMove
  BY <1>13, SentinelsAssumption, RolesAssumption DEF WaitFails, WaitReturns,
     SharedMove, Unclosed, Reasons, TypeInv, TypeOK, RolesOK, HostLabels,
     DataLabels
<1>14. ASSUME NEW g \in Conns, WaitLooksUp(g)
      PROVE  SharedMove
  BY <1>14, SentinelsAssumption, RolesAssumption DEF WaitLooksUp, SharedMove,
     Unclosed, Reasons, TypeInv, TypeOK, RolesOK, HostLabels, DataLabels
<1>15. ASSUME NEW g \in Conns, PollFinds(g)
      PROVE  SharedMove
  BY <1>15, SentinelsAssumption, RolesAssumption DEF PollFinds, WaitReturns,
     SharedMove, Unclosed, Reasons, TypeInv, TypeOK, RolesOK, HostLabels,
     DataLabels
<1>16. ASSUME NEW g \in Conns, PollAgain(g)
      PROVE  SharedMove
  BY <1>16, SentinelsAssumption, RolesAssumption DEF PollAgain, SharedMove,
     Unclosed, Reasons, TypeInv, TypeOK, RolesOK, HostLabels, DataLabels
<1>17. ASSUME NEW g \in Conns, PollTimesOut(g)
      PROVE  SharedMove
  BY <1>17, SentinelsAssumption, RolesAssumption DEF PollTimesOut,
     WaitReturns, SharedMove, Unclosed, Reasons, TypeInv, TypeOK, RolesOK,
     HostLabels, DataLabels
<1>18. ASSUME NEW g \in Conns, ForgetRequest(g)
      PROVE  SharedMove
  BY <1>18, SentinelsAssumption, RolesAssumption DEF ForgetRequest,
     ClientLeaves, SharedMove, Unclosed, Reasons, TypeInv, TypeOK, RolesOK,
     HostLabels, DataLabels
<1>19. ASSUME NEW g \in Conns, HostEnter(g)
      PROVE  SharedMove
  BY <1>19, SentinelsAssumption, RolesAssumption DEF HostEnter, SharedMove,
     Unclosed, Reasons, TypeInv, TypeOK, RolesOK, HostLabels, DataLabels
<1>20. ASSUME NEW g \in Conns, HostTooLate(g)
      PROVE  SharedMove
  BY <1>20, SentinelsAssumption, RolesAssumption DEF HostTooLate, SharedMove,
     Unclosed, Reasons, TypeInv, TypeOK, RolesOK, HostLabels, DataLabels
<1>21. ASSUME NEW g \in Conns, TakeRequest(g)
      PROVE  SharedMove
  BY <1>21, SentinelsAssumption, RolesAssumption DEF TakeRequest, SharedMove,
     Unclosed, Reasons, TypeInv, TypeOK, RolesOK, HostLabels, DataLabels
<1>22. ASSUME NEW g \in Conns, LinkClient(g)
      PROVE  SharedMove
  BY <1>22, SentinelsAssumption, RolesAssumption DEF LinkClient, SharedMove,
     Unclosed, Reasons, TypeInv, TypeOK, RolesOK, HostLabels, DataLabels
<1>23. ASSUME NEW g \in Conns, LinkBack(g)
      PROVE  SharedMove
  BY <1>23, SentinelsAssumption, RolesAssumption DEF LinkBack, SharedMove,
     Unclosed, Reasons, TypeInv, TypeOK, RolesOK, HostLabels, DataLabels
<1>24. ASSUME NEW g \in Conns, DataEnter(g)
      PROVE  SharedMove
  BY <1>24, SentinelsAssumption, RolesAssumption DEF DataEnter, SharedMove,
     Unclosed, Reasons, TypeInv, TypeOK, RolesOK, HostLabels, DataLabels
<1>25. ASSUME NEW g \in Conns, CleanupAsHost(g)
      PROVE  SharedMove
  BY <1>25, SentinelsAssumption, RolesAssumption DEF CleanupAsHost,
     SharedMove, Unclosed, Reasons, TypeInv, TypeOK, RolesOK, HostLabels,
     DataLabels
<1>26. ASSUME NEW g \in Conns, CleanupAsMember(g)
      PROVE  SharedMove
  BY <1>26, SentinelsAssumption, RolesAssumption DEF CleanupAsMember,
     SharedMove, Unclosed, Reasons, TypeInv, TypeOK, RolesOK, HostLabels,
     DataLabels
<1>27. ASSUME NEW g \in Conns, CleanupWithoutRoom(g)
      PROVE  SharedMove
  BY <1>27, SentinelsAssumption, RolesAssumption DEF CleanupWithoutRoom,
     SharedMove, Unclosed, Reasons, TypeInv, TypeOK, RolesOK, HostLabels,
     DataLabels
<1>28. ASSUME NEW g \in Conns, NEW other \in Conns, CloseOther(g, other)
      PROVE  SharedMove
  BY <1>28, SentinelsAssumption, RolesAssumption DEF CloseOther,
     CleanupReason, SharedMove, Unclosed, Reasons, TypeInv, TypeOK, RolesOK,
     HostLabels, DataLabels
<1>29. ASSUME NEW g \in Conns, CloseOwn(g)
      PROVE  SharedMove
  BY <1>29, SentinelsAssumption, RolesAssumption DEF CloseOwn, SharedMove,
     Unclosed, Reasons, TypeInv, TypeOK, RolesOK, HostLabels, DataLabels
<1>30. ASSUME NEW g \in Conns, ClientRelayEnds(g)
      PROVE  SharedMove
  BY <1>30, SentinelsAssumption, RolesAssumption DEF ClientRelayEnds,
     ClientLeaves, SharedMove, Unclosed, Reasons, TypeInv, TypeOK, RolesOK,
     HostLabels, DataLabels
<1>31. ASSUME NEW g \in Conns, HostSignalEnds(g)
      PROVE  SharedMove
  BY <1>31, SentinelsAssumption, RolesAssumption DEF HostSignalEnds,
     SharedMove, Unclosed, Reasons, TypeInv, TypeOK, RolesOK, HostLabels,
     DataLabels
<1>32. ASSUME NEW g \in Conns, DataRelayEnds(g)
      PROVE  SharedMove
  BY <1>32, SentinelsAssumption, RolesAssumption DEF DataRelayEnds,
     SharedMove, Unclosed, Reasons, TypeInv, TypeOK, RolesOK, HostLabels,
     DataLabels
<1>33. ASSUME NEW g \in Conns, PeerLeaves(g)
      PROVE  SharedMove
  BY <1>33, SentinelsAssumption, RolesAssumption DEF PeerLeaves, SharedMove,
     Unclosed, Reasons, TypeInv, TypeOK, RolesOK, HostLabels, DataLabels
<1>34. ASSUME NEW p \in Creators, EvictClose(p)
      PROVE  SharedMove
  BY <1>34, SentinelsAssumption, RolesAssumption DEF EvictClose, SharedMove,
     Unclosed, Reasons, TypeInv, TypeOK, RolesOK, HostLabels, DataLabels
<1>35. ASSUME NEW g \in HostConns, IdleClose(g)
      PROVE  SharedMove
  BY <1>35, SentinelsAssumption, RolesAssumption DEF IdleClose, SharedMove,
     Unclosed, Reasons, TypeInv, TypeOK, RolesOK, HostLabels, DataLabels
<1>36. CASE UNCHANGED <<pc, sock, signalled>>
  BY <1>36 DEF SharedMove, Unclosed
<1> QED
  BY <1>1, <1>2, <1>3, <1>4, <1>5, <1>6, <1>7, <1>8, <1>9, <1>10, <1>11,
     <1>12, <1>13, <1>14, <1>15, <1>16, <1>17, <1>18, <1>19, <1>20, <1>21,
     <1>22, <1>23, <1>24, <1>25, <1>26, <1>27, <1>28, <1>29, <1>30, <1>31,
     <1>32, <1>33, <1>34, <1>35, <1>36 DEF Next, Arrive, Proceed,
     StopRelaying, ClientStep, HostStep, LinkStep, CleanupStep, EvictStep,
     SweepStep, Age, vars, CreateFresh, ReuseHostless, EvictBegin,
     EvictFinish, UnusedScan, UnusedPrune, IdleScan, IdleDelete, Expire,
     BecomeIdle, ForgetReason

\* Clients and data connections keep to their own steps.
LEMMA ClientsAct ==
    ASSUME TypeInv, NEW c \in ClientConns, [Next]_vars
    PROVE  Rests(c) \/ ClientActs(c)
<1>1. c \in Conns /\ c \notin HostConns /\ c \notin DataConns
  BY RolesAssumption
<1>2. ~CleanupAsHost(c)
  <2> SUFFICES ASSUME CleanupAsHost(c)
               PROVE  FALSE
    OBVIOUS
  <2>1. gameId[c] \in Codes
    BY <1>1, CodeKnown DEF CleanupAsHost
  <2>2. Host[Rooms[gameId[c]]] \in HostConns \cup {Nil}
    BY <2>1 DEF CleanupAsHost, TypeInv, TypeOK
  <2> QED
    BY <1>1, <2>2, SentinelsAssumption DEF CleanupAsHost
<1>3. HostActs(c) => ClientActs(c)
  BY <1>1, <1>2
  DEF HostActs, ClientActs, HostJoin, HostRefused, HostStep, HostEnter, HostTooLate,
      HostSignalEnds
<1>4. DataActs(c) => ClientActs(c)
  BY <1>1, DataPlaces
  DEF DataActs, ClientActs, DataJoin, DataRefused, LinkStep, TakeRequest, LinkClient,
      LinkBack, DataEnter, DataRelayEnds
<1> QED
  BY <1>1, <1>3, <1>4, ActOrRest DEF Acts

LEMMA DataAct ==
    ASSUME TypeInv, NEW d \in DataConns, [Next]_vars
    PROVE  Rests(d) \/ DataActs(d)
<1>1. d \in Conns /\ d \notin HostConns /\ d \notin ClientConns
  BY RolesAssumption
<1>2. ~CleanupAsHost(d)
  <2> SUFFICES ASSUME CleanupAsHost(d)
               PROVE  FALSE
    OBVIOUS
  <2>1. gameId[d] \in Codes
    BY <1>1, CodeKnown DEF CleanupAsHost
  <2>2. Host[Rooms[gameId[d]]] \in HostConns \cup {Nil}
    BY <2>1 DEF CleanupAsHost, TypeInv, TypeOK
  <2> QED
    BY <1>1, <2>2, SentinelsAssumption DEF CleanupAsHost
<1>3. HostActs(d) => DataActs(d)
  BY <1>1, <1>2
  DEF HostActs, DataActs, HostJoin, HostRefused, HostStep, HostEnter, HostTooLate,
      HostSignalEnds
<1>4. pc[d] \notin {"missed", "register", "nilEntry", "announce", "waiting",
                    "polling", "forget"}
  BY <1>1 DEF TypeInv, RolesOK, DataLabels
<1>5. ClientActs(d) => DataActs(d)
  BY <1>1, <1>4
  DEF ClientActs, DataActs, ClientJoin, ClientMissesRoom, ClientTurnedAway,
      ClientStep, ClientEnter, ClientRefused, RegisterRequest, RegisterNilEntry,
      Announce, WaitFails, WaitLooksUp, PollFinds, PollAgain, PollTimesOut,
      ForgetRequest, ClientRelayEnds
<1> QED
  BY <1>1, <1>3, <1>5, ActOrRest DEF Acts

\* What is not listed stays so, and a room keeps its host.
LEMMA UnlistedStays ==
    ASSUME TypeInv, [Next]_vars, NEW r \in RoomObjs, r \in allocated, Registered(r)'
    PROVE  Registered(r)
BY NotListedAgain DEF Registered

LEMMA HostsKept ==
    ASSUME TypeInv, [Next]_vars, NEW r \in RoomObjs, Host[r] # Nil
    PROVE  Host'[r] = Host[r]
<1>1. ASSUME NEW h \in HostConns, NEW code \in Codes, HostJoin(h, code)
      PROVE  Host'[r] = Host[r]
  BY <1>1 DEF HostJoin, Claimable, TypeInv, TypeOK
<1> QED
  BY <1>1, DirectoryMoves
  DEF DirectoryMove, CleanupAsHost, UnusedPrune, IdleDelete

\* A listed room is the one its members find.
LEMMA FoundAtHome ==
    ASSUME TypeInv, ListedAtHome, NEW c \in Conns, Registered(room[c])
    PROVE  /\ room[c] \in RoomObjs
           /\ room[c] \in allocated
           /\ gameId[c] \in Codes
           /\ Rooms[gameId[c]] = room[c]
           /\ Rooms[gameId[c]] # Absent
BY SentinelsAssumption DEF Registered, ListedAtHome, TypeInv, TypeOK

\* A client sets its request when it registers it, and not before.
LEMMA RequestsAsked ==
    ASSUME TypeInv, PairInv, AnswersAreAsked, [Next]_vars
    PROVE  \A c \in ClientConns : pc'[c] \in BeforeRequest => request'[c] = Nil
<1> SUFFICES ASSUME NEW c \in ClientConns, pc'[c] \in BeforeRequest
             PROVE  request'[c] = Nil
  OBVIOUS
<1>1. request[c] = Nil
  BY ForwardStep DEF Forward, PairInv, AnswersAreAsked
<1>2. CASE Rests(c)
  BY <1>1, <1>2 DEF Rests
<1>3. CASE ClientActs(c)
  <2>1. ~\E q \in Requests : RegisterRequest(c, q)
    BY DEF RegisterRequest, BeforeRequest, BeforeRoom, TypeInv, TypeOK
  <2> QED
    BY <1>1, <1>3, <2>1
    DEF ClientActs, Leaves, ClientStep, ClientJoin, ClientMissesRoom, ClientTurnedAway,
        ClientEnter, ClientRefused, RegisterNilEntry, Announce, WaitFails, WaitReturns,
        WaitLooksUp, PollFinds, PollAgain, PollTimesOut, ForgetRequest,
        ClientRelayEnds, CleanupAsMember, CleanupWithoutRoom, CloseOther, CloseOwn
<1> QED
  BY <1>2, <1>3, ClientsAct

\* A client asks once, and with unique ids nobody else has asked the same.
LEMMA RequestsSet ==
    ASSUME TypeInv, PairInv, AnswersAreAsked, [Next]_vars, NEW c \in ClientConns
    PROVE  \/ request'[c] = request[c]
           \/ /\ request[c] = Nil
              /\ pc'[c] = "nilEntry"
              /\ request'[c] \in Requests
              /\ UNCHANGED signalled
              /\ \A other \in ClientConns \ {c} : request'[other] = request[other]
              /\ UniqueRequests =>
                    \A other \in ClientConns : request[other] # request'[c]
<1>1. CASE Rests(c)
  BY <1>1 DEF Rests
<1>2. ASSUME NEW q \in Requests, RegisterRequest(c, q)
      PROVE  /\ request[c] = Nil
             /\ pc'[c] = "nilEntry"
             /\ request'[c] \in Requests
             /\ UNCHANGED signalled
             /\ \A other \in ClientConns \ {c} : request'[other] = request[other]
             /\ UniqueRequests =>
                    \A other \in ClientConns : request[other] # request'[c]
  BY <1>2 DEF RegisterRequest, AnswersAreAsked, BeforeRequest, TypeInv, TypeOK
<1>3. CASE ClientActs(c) /\ ~\E q \in Requests : RegisterRequest(c, q)
  BY <1>3
  DEF ClientActs, Leaves, ClientStep, ClientJoin, ClientMissesRoom, ClientTurnedAway,
      ClientEnter, ClientRefused, RegisterNilEntry, Announce, WaitFails, WaitReturns,
      WaitLooksUp, PollFinds, PollAgain, PollTimesOut, ForgetRequest,
      ClientRelayEnds, CleanupAsMember, CleanupWithoutRoom, CloseOther, CloseOwn
<1> QED
  BY <1>1, <1>2, <1>3, ClientsAct

\* The conjuncts of AnswersAreAsked, one by one.
LEMMA HeardStep ==
    ASSUME TypeInv, PairInv, AnswersAreAsked, [Next]_vars,
           NEW code \in Codes, NEW q \in Requests, <<code, q>> \in signalled'
    PROVE  \E c \in ClientConns : request'[c] = q
<1>1. CASE <<code, q>> \in signalled
  <2>1. PICK c \in ClientConns : request[c] = q
    BY <1>1 DEF AnswersAreAsked
  <2> QED
    BY <2>1, RequestsSet, SentinelsAssumption
<1>2. CASE <<code, q>> \notin signalled
  <2>1. PICK c \in ClientConns :
            pc[c] = "announce" /\ signalled' = signalled \cup {<<gameId[c], request[c]>>}
    BY <1>2, SharedMoves DEF SharedMove
  <2>2. request[c] = q
    BY <1>2, <2>1
  <2> QED
    BY <2>2, RequestsSet, SentinelsAssumption
<1> QED
  BY <1>1, <1>2

LEMMA HeardForGood ==
    ASSUME TypeInv, [Next]_vars
    PROVE  signalled \subseteq signalled'
BY SharedMoves DEF SharedMove

\* What a data connection asks for and whom it holds.
LEMMA DataSets ==
    ASSUME TypeInv, PairInv, [Next]_vars, NEW d \in DataConns
    PROVE  \/ request'[d] = request[d] /\ peer'[d] = peer[d]
           \/ \E code \in Codes, q \in Requests :
                    DataJoin(d, code, q) /\ pc[d] = "none" /\ peer'[d] = peer[d]
           \/ /\ TakeRequest(d)
              /\ request'[d] = request[d]
              /\ RequestedConnectionsMap[room[d]][request[d]] = peer'[d]
<1>1. CASE Rests(d)
  BY <1>1 DEF Rests
<1>2. ASSUME NEW code \in Codes, NEW q \in Requests, DataJoin(d, code, q)
      PROVE  pc[d] = "none" /\ peer'[d] = peer[d]
  BY <1>2 DEF DataJoin
<1>3. CASE TakeRequest(d)
  BY <1>3 DEF TakeRequest, TypeInv, TypeOK
<1>4. CASE DataEnter(d)
  <2>1. ClientOf(d) # Absent => peer[d] = ClientOf(d)
    <3>1. gameId[d] \in Codes /\ d \in Conns
      BY <1>4, CodeKnown DEF DataEnter
    <3>2. ASSUME ClientOf(d) # Absent
          PROVE  ClientOf(d) \in ClientConns /\ \E r \in RoomObjs :
                    HostToClientsConnections[r][d] = ClientOf(d)
      BY <3>1, <3>2 DEF ClientOf, TypeInv, TypeOK
    <3> QED
      BY <3>2 DEF PairInv, SidesAgree
  <2> QED
    BY <1>4, <2>1 DEF DataEnter, TypeInv, TypeOK
<1>5. CASE /\ DataActs(d)
           /\ ~TakeRequest(d)
           /\ ~DataEnter(d)
           /\ ~\E code \in Codes, q \in Requests : DataJoin(d, code, q)
  BY <1>5
  DEF DataActs, LinkStep, Leaves, DataRefused, LinkClient, LinkBack, DataRelayEnds,
      CleanupAsMember, CleanupWithoutRoom, CloseOther, CloseOwn
<1> QED
  BY <1>1, <1>2, <1>3, <1>4, <1>5, DataAct

\* No data connection goes back to where it has no request.
LEMMA NobodyStartsOver ==
    ASSUME TypeInv, [Next]_vars, NEW d \in DataConns, pc'[d] = "none"
    PROVE  pc[d] = "none" /\ request'[d] = request[d]
<1>1. ~DataActs(d)
  BY DEF DataActs, LinkStep, Leaves, DataJoin, DataRefused, TakeRequest, LinkClient,
      LinkBack, DataEnter, DataRelayEnds, CleanupAsMember, CleanupWithoutRoom,
      CloseOther, CloseOwn, TypeInv, TypeOK
<1> QED
  BY <1>1, DataAct DEF Rests

LEMMA AnswersStep ==
    ASSUME TypeInv, PairInv, AnswersAreAsked, [Next]_vars
    PROVE  AnswersAreAsked'
<1>1. \A c \in ClientConns : pc'[c] \in BeforeRequest => request'[c] = Nil
  BY RequestsAsked
<1>2. \A code \in Codes, q \in Requests :
        <<code, q>> \in signalled' => \E c \in ClientConns : request'[c] = q
  BY HeardStep
<1>3. ASSUME NEW d \in DataConns, request'[d] # Nil
      PROVE  \E code \in Codes : <<code, request'[d]>> \in signalled'
  <2>1. CASE request'[d] = request[d]
    BY <1>3, <2>1, HeardForGood DEF AnswersAreAsked
  <2>2. ASSUME NEW code \in Codes, NEW q \in Requests, DataJoin(d, code, q)
        PROVE  <<code, request'[d]>> \in signalled'
    BY <2>2 DEF DataJoin, TypeInv, TypeOK
  <2> QED
    BY <2>1, <2>2, DataSets
<1>4. ASSUME NEW d \in DataConns, peer'[d] # Nil
      PROVE  request'[d] # Nil /\ request'[peer'[d]] = request'[d]
  <2>1. ASSUME request[d] # Nil, request'[d] = request[d], peer'[d] \in ClientConns,
               request[peer'[d]] = request[d]
        PROVE  request'[d] # Nil /\ request'[peer'[d]] = request'[d]
    BY <2>1, RequestsSet
  <2>2. peer'[d] \in ClientConns
    BY <1>4, TypeStep DEF TypeInv, RolesOK
  <2>3. CASE request'[d] = request[d] /\ peer'[d] = peer[d]
    BY <1>4, <2>1, <2>2, <2>3 DEF AnswersAreAsked
  <2>4. CASE TakeRequest(d) /\ request'[d] = request[d]
             /\ RequestedConnectionsMap[room[d]][request[d]] = peer'[d]
    <3>1. d \in Conns /\ room[d] \in RoomObjs /\ request[d] \in Requests
      BY <2>4, DataPlaces DEF TakeRequest
    <3>2. request[peer'[d]] = request[d]
      BY <2>2, <2>4, <3>1 DEF PairInv, RequestsOfMembers
    <3> QED
      BY <2>1, <2>2, <2>4, <3>1, <3>2, SentinelsAssumption
  <2>5. ASSUME pc[d] = "none", peer'[d] = peer[d] PROVE FALSE
    <3>1. peer[d] \in ClientConns
      BY <2>2, <2>5
    <3>2. request[d] = Nil
      BY <2>5 DEF AnswersAreAsked
    <3> QED
      BY <1>4, <2>5, <3>2 DEF AnswersAreAsked
  <2> QED
    BY <2>3, <2>4, <2>5, DataSets
<1>5. ASSUME UniqueRequests, NEW c1 \in ClientConns, NEW c2 \in ClientConns,
             request'[c1] # Nil, request'[c1] = request'[c2]
      PROVE  c1 = c2
  <2>1. CASE request'[c1] = request[c1] /\ request'[c2] = request[c2]
    BY <1>5, <2>1 DEF AnswersAreAsked
  <2>2. CASE request'[c1] # request[c1] /\ c1 # c2
    <3>1. request'[c2] = request[c2] /\ request[c2] # request'[c1]
      BY <1>5, <2>2, RequestsSet
    <3> QED
      BY <1>5, <3>1
  <2>3. CASE request'[c2] # request[c2] /\ c1 # c2
    <3>1. request'[c1] = request[c1] /\ request[c1] # request'[c2]
      BY <1>5, <2>3, RequestsSet
    <3> QED
      BY <1>5, <3>1
  <2> QED
    BY <2>1, <2>2, <2>3
<1>6. ASSUME NEW d \in DataConns, pc'[d] = "none"
      PROVE  request'[d] = Nil
  BY <1>6, NobodyStartsOver DEF AnswersAreAsked
<1> QED
  BY <1>1, <1>2, <1>3, <1>4, <1>5, <1>6 DEF AnswersAreAsked

\* The conjuncts of UnpairedAreUnheard, one by one: a room that a client has
\* entered has a host for good,
LEMMA HostedStep ==
    ASSUME TypeInv, DirectoryInv, UnpairedAreUnheard, [Next]_vars,
           NEW c \in ClientConns, room'[c] # Nil
    PROVE  Host'[room'[c]] # Nil
<1>1. room'[c] \in RoomObjs
  BY TypeStep DEF TypeInv, TypeOK
<1>2. CASE room'[c] = room[c]
  BY <1>1, <1>2, HostsKept DEF UnpairedAreUnheard
<1>3. CASE ClientEnter(c)
  BY <1>1, <1>3, HostsKept DEF ClientEnter, TypeInv, TypeOK
<1>4. ASSUME ClientActs(c), ~ClientEnter(c) PROVE room'[c] = room[c]
  BY <1>4
  DEF ClientActs, Leaves, ClientStep, ClientJoin, ClientMissesRoom, ClientTurnedAway,
      ClientRefused, RegisterRequest, RegisterNilEntry, Announce, WaitFails,
      WaitReturns, WaitLooksUp, PollFinds, PollAgain, PollTimesOut, ForgetRequest,
      ClientRelayEnds, CleanupAsMember, CleanupWithoutRoom, CloseOther, CloseOwn
<1> QED
  BY <1>2, <1>3, <1>4, ClientsAct DEF Rests

\* an entry is never taken out of the map,
LEMMA EntryKept ==
    ASSUME TypeInv, [Next]_vars, NEW r \in RoomObjs, NEW c \in ClientConns,
           ClientsToHostConnections[r][c] # Absent
    PROVE  ClientsToHostConnections'[r][c] # Absent
<1>1. ASSUME NEW g \in Conns, RegisterNilEntry(g)
      PROVE  ClientsToHostConnections'[r][c] # Absent
  <2>1. g \in ClientConns /\ room[g] \in RoomObjs
    BY <1>1, ClientPlaces DEF RegisterNilEntry
  <2> QED
    BY <1>1, <2>1, NestedUpdate, SentinelsAssumption DEF RegisterNilEntry, TypeInv, TypeOK
<1>2. ASSUME NEW g \in Conns, LinkClient(g)
      PROVE  ClientsToHostConnections'[r][c] # Absent
  <2>1. g \in DataConns /\ room[g] \in RoomObjs /\ peer[g] \in ClientConns /\ g # Absent
    BY <1>2, DataPlaces, SentinelsAssumption DEF LinkClient
  <2>2. CASE UNCHANGED ClientsToHostConnections
    BY <2>2
  <2>3. CASE ClientsToHostConnections' =
                [ClientsToHostConnections EXCEPT ![room[g]][peer[g]] = g]
    <3>1. ClientsToHostConnections \in [RoomObjs -> [ClientConns -> DataConns \cup {Nil, Absent}]]
      BY DEF TypeInv, TypeOK
    <3>2. ClientsToHostConnections'[r][c] =
            IF r = room[g] /\ c = peer[g] THEN g ELSE ClientsToHostConnections[r][c]
      BY <2>1, <2>3, <3>1, NestedUpdate
    <3> QED
      BY <2>1, <3>2
  <2> QED
    BY <1>2, <2>2, <2>3 DEF LinkClient
<1> QED
  BY <1>1, <1>2, EntriesChange

LEMMA EntriesKept ==
    ASSUME TypeInv, PairInv, UnpairedAreUnheard, [Next]_vars, NEW c \in ClientConns,
           pc'[c] \in UsesRoom \ BeforeEntry
    PROVE  ClientsToHostConnections'[room'[c]][c] # Absent
<1>1. CASE RegisterNilEntry(c)
  <2>1. room[c] \in RoomObjs /\ room'[c] = room[c]
    BY <1>1, ClientPlaces DEF RegisterNilEntry
  <2>2. ClientsToHostConnections'[room[c]][c] = Nil
    BY <1>1, <2>1, NestedUpdate DEF RegisterNilEntry, TypeInv, TypeOK
  <2> QED
    BY <2>1, <2>2, SentinelsAssumption
<1>2. CASE pc[c] \in UsesRoom \ BeforeEntry
  <2>1. room[c] \in RoomObjs /\ room'[c] = room[c]
    BY <1>2, ForwardStep
    DEF Forward, BeforeEntry, BeforeRequest, TypeInv, LocalsOK, PairInv
  <2> QED
    BY <1>2, <2>1, EntryKept DEF UnpairedAreUnheard
<1>3. ASSUME pc[c] \notin UsesRoom \ BeforeEntry, ~RegisterNilEntry(c) PROVE FALSE
  <2>1. CASE Rests(c)
    BY <1>3, <2>1 DEF Rests
  <2>2. CASE ClientActs(c)
    BY <1>3, <2>2
    DEF ClientActs, Leaves, ClientStep, ClientJoin, ClientMissesRoom, ClientTurnedAway,
        ClientEnter, ClientRefused, ClientLeaves, RegisterRequest, Announce, WaitFails,
        WaitReturns, WaitLooksUp, PollFinds, PollAgain, PollTimesOut, ForgetRequest,
        ClientRelayEnds, CleanupAsMember, CleanupWithoutRoom, CloseOther, CloseOwn,
        UsesRoom, BeforeEntry, BeforeRequest, BeforeRoom, TypeInv, TypeOK
  <2> QED
    BY <2>1, <2>2, ClientsAct
<1> QED
  BY <1>1, <1>2, <1>3

\* nobody else makes the host hear of a request whose id is unique,
LEMMA UnheardKept ==
    ASSUME TypeInv, AnswersAreAsked, [Next]_vars, UniqueRequests,
           NEW c \in ClientConns, request'[c] = request[c],
           pc[c] # "announce" \/ pc'[c] # "waiting", Unheard(c)
    PROVE  Unheard(c)'
<1>1. CASE UNCHANGED signalled
  BY <1>1 DEF Unheard
<1>2. ASSUME NEW other \in ClientConns, pc[other] = "announce", pc'[other] = "waiting",
             signalled' = signalled \cup {<<gameId[other], request[other]>>}
      PROVE  Unheard(c)'
  <2>1. request[other] # Nil /\ other # c
    BY <1>2, ClientPlaces, SentinelsAssumption
  <2>2. request[other] # request[c]
    BY <2>1 DEF AnswersAreAsked
  <2> QED
    BY <1>2, <2>2 DEF Unheard
<1> QED
  BY <1>1, <1>2, SharedMoves DEF SharedMove

LEMMA UnheardStep ==
    ASSUME TypeInv, PairInv, AnswersAreAsked, UnpairedAreUnheard, [Next]_vars,
           UniqueRequests, NEW c \in ClientConns, pc'[c] \in {"nilEntry", "announce"}
    PROVE  Unheard(c)'
<1>1. CASE pc[c] \in {"nilEntry", "announce"}
  <2>1. request'[c] = request[c]
    BY <1>1, ForwardStep DEF Forward, PairInv, BeforeRequest, BeforeRoom
  <2>2. Unheard(c)
    BY <1>1 DEF UnpairedAreUnheard
  <2>3. pc'[c] # "waiting"
    OBVIOUS
  <2> QED
    BY <2>1, <2>2, <2>3, UnheardKept
<1>2. ASSUME NEW q \in Requests, RegisterRequest(c, q)
      PROVE  Unheard(c)'
  <2>1. request'[c] = q /\ UNCHANGED signalled /\ \A other \in ClientConns : request[other] # q
    BY <1>2 DEF RegisterRequest, TypeInv, TypeOK
  <2> QED
    BY <2>1 DEF Unheard, AnswersAreAsked
<1>3. ASSUME pc[c] \notin {"nilEntry", "announce"},
             ~\E q \in Requests : RegisterRequest(c, q)
      PROVE  FALSE
  <2>1. CASE Rests(c)
    BY <1>3, <2>1 DEF Rests
  <2>2. CASE ClientActs(c)
    BY <1>3, <2>2
    DEF ClientActs, Leaves, ClientStep, ClientJoin, ClientMissesRoom, ClientTurnedAway,
        ClientEnter, ClientRefused, ClientLeaves, RegisterNilEntry, Announce, WaitFails,
        WaitReturns, WaitLooksUp, PollFinds, PollAgain, PollTimesOut, ForgetRequest,
        ClientRelayEnds, CleanupAsMember, CleanupWithoutRoom, CloseOther, CloseOwn,
        TypeInv, TypeOK
  <2> QED
    BY <2>1, <2>2, ClientsAct
<1> QED
  BY <1>1, <1>2, <1>3

\* the wait loop polls the room that its client entered, if that is listed,
LEMMA PollsHome ==
    ASSUME TypeInv, PairInv, ListedAtHome, UnpairedAreUnheard, [Next]_vars,
           NEW c \in ClientConns, pc'[c] = "polling", Registered(room[c])'
    PROVE  polled'[c] = room'[c]
<1>1. CASE WaitLooksUp(c)
  <2>1. Registered(room[c]) /\ room'[c] = room[c]
    BY <1>1 DEF WaitLooksUp, Registered
  <2> QED
    BY <1>1, <2>1, FoundAtHome DEF WaitLooksUp, TypeInv, TypeOK
<1>2. CASE Rests(c)
  <2>1. room[c] \in RoomObjs /\ room[c] \in allocated
    BY <1>2, ClientPlaces, SentinelsAssumption DEF Rests, ListedAtHome
  <2>2. Registered(room[c])
    BY <1>2, <2>1, UnlistedStays DEF Rests, Registered
  <2> QED
    BY <1>2, <2>2 DEF Rests, UnpairedAreUnheard
<1>3. ASSUME ClientActs(c), ~WaitLooksUp(c) PROVE FALSE
  BY <1>3
  DEF ClientActs, Leaves, ClientStep, ClientJoin, ClientMissesRoom, ClientTurnedAway,
      ClientEnter, ClientRefused, ClientLeaves, RegisterRequest, RegisterNilEntry,
      Announce, WaitFails, WaitReturns, PollFinds, PollAgain, PollTimesOut,
      ForgetRequest, ClientRelayEnds, CleanupAsMember, CleanupWithoutRoom, CloseOther,
      CloseOwn, TypeInv, TypeOK
<1> QED
  BY <1>1, <1>2, <1>3, ClientsAct

\* the wait gives up only when the room is gone,
LEMMA GivesUpUnlisted ==
    ASSUME TypeInv, PairInv, ListedAtHome, UnpairedAreUnheard, [Next]_vars,
           NEW c \in ClientConns, pc'[c] = "forget", peer'[c] = Nil
    PROVE  ~Registered(room[c])'
<1> SUFFICES ASSUME Registered(room[c])'
             PROVE  FALSE
  OBVIOUS
<1>1. CASE Rests(c)
  <2>1. room[c] \in RoomObjs /\ room[c] \in allocated
    BY <1>1, ClientPlaces, SentinelsAssumption DEF Rests, ListedAtHome
  <2>2. Registered(room[c])
    BY <1>1, <2>1, UnlistedStays DEF Rests, Registered
  <2> QED
    BY <1>1, <2>2 DEF Rests, UnpairedAreUnheard
<1>2. CASE WaitFails(c)
  <2>1. Registered(room[c])
    BY <1>2 DEF WaitFails, WaitReturns, Registered
  <2>2. Host[room[c]] # Nil
    BY <2>1, FoundAtHome, SentinelsAssumption DEF UnpairedAreUnheard
  <2> QED
    BY <1>2, <2>1, <2>2, FoundAtHome DEF WaitFails
<1>3. CASE PollFinds(c)
  BY <1>3, SentinelsAssumption DEF PollFinds, WaitReturns, TypeInv, TypeOK
<1>4. CASE PollTimesOut(c)
  <2>1. Registered(room[c]) /\ pc[c] = "polling"
    BY <1>4 DEF PollTimesOut, WaitReturns, Registered
  <2>2. polled[c] = room[c]
    BY <2>1 DEF UnpairedAreUnheard
  <2>3. ClientsToHostConnections[room[c]][c] # Absent
    BY <2>1 DEF UnpairedAreUnheard, UsesRoom, BeforeEntry, BeforeRequest, BeforeRoom
  <2> QED
    BY <1>4, <2>2, <2>3 DEF PollTimesOut
<1>5. ASSUME ClientActs(c), ~WaitFails(c), ~PollFinds(c), ~PollTimesOut(c) PROVE FALSE
  BY <1>5
  DEF ClientActs, Leaves, ClientStep, ClientJoin, ClientMissesRoom, ClientTurnedAway,
      ClientEnter, ClientRefused, ClientLeaves, RegisterRequest, RegisterNilEntry,
      Announce, WaitLooksUp, PollAgain, ForgetRequest, ClientRelayEnds,
      CleanupAsMember, CleanupWithoutRoom, CloseOther, CloseOwn, TypeInv, TypeOK
<1> QED
  BY <1>1, <1>2, <1>3, <1>4, <1>5, ClientsAct

Lost(c) == sock[Host[room[c]]] # "open"

\* a host that is lost stays so, as its socket does not open again,
LEMMA LostForGood ==
    ASSUME TypeInv, DirectoryInv, [Next]_vars, NEW c \in ClientConns,
           room[c] \in RoomObjs, Host[room[c]] # Nil, room'[c] = room[c], Lost(c)
    PROVE  Lost(c)'
<1>1. Host[room[c]] \in HostConns /\ Host'[room[c]] = Host[room[c]]
  BY HostsKept DEF TypeInv, TypeOK
<1>2. pc[Host[room[c]]] # "none"
  BY <1>1 DEF DirectoryInv, OwnersClaimed
<1> QED
  BY <1>1, <1>2, SharedMoves DEF SharedMove, Lost

\* and those are the ways out of a room without a peer.
LEMMA LeftUnpaired ==
    ASSUME TypeInv, PairInv, DirectoryInv, AnswersAreAsked, ListedAtHome,
           UnpairedAreUnheard, [Next]_vars, NEW c \in ClientConns,
           pc'[c] \in Leaving, peer'[c] = Nil, room'[c] # Nil, Registered(room[c])'
    PROVE  Lost(c)' /\ (UniqueRequests => Unheard(c)')
<1>1. pc[c] \notin {"none", "missed", "enter"} /\ room'[c] = room[c]
      /\ room[c] \in RoomObjs /\ room[c] \in allocated /\ Registered(room[c])
      /\ Host[room[c]] # Nil
  <2>1. pc[c] # "none" /\ room'[c] = room[c]
    <3>1. CASE Rests(c)
      BY <3>1 DEF Rests, Leaving
    <3>2. CASE ClientActs(c)
      BY <3>2
      DEF ClientActs, Leaves, ClientStep, ClientJoin, ClientMissesRoom,
          ClientTurnedAway, ClientEnter, ClientRefused, ClientLeaves, RegisterRequest,
          RegisterNilEntry, Announce, WaitFails, WaitReturns, WaitLooksUp, PollFinds,
          PollAgain, PollTimesOut, ForgetRequest, ClientRelayEnds, CleanupAsMember,
          CleanupWithoutRoom, CloseOther, CloseOwn, Leaving, TypeInv, TypeOK
    <3> QED
      BY <3>1, <3>2, ClientsAct
  <2>2. room[c] \in RoomObjs /\ room[c] \in allocated
    BY <2>1 DEF ListedAtHome, TypeInv, TypeOK
  <2>3. pc[c] \notin {"none", "missed", "enter"}
    BY <2>2, SentinelsAssumption DEF TypeInv, LocalsOK, BeforeRoom
  <2>4. Registered(room[c])
    BY <2>1, <2>2, UnlistedStays DEF Registered
  <2> QED
    BY <2>1, <2>2, <2>3, <2>4, SentinelsAssumption DEF UnpairedAreUnheard
<1>2. request'[c] = request[c] /\ pc'[c] # "waiting"
  BY RequestsSet DEF Leaving
<1>3. Lost(c) /\ (UniqueRequests => Unheard(c)) => Lost(c)' /\ (UniqueRequests => Unheard(c)')
  BY <1>1, <1>2, LostForGood, UnheardKept
<1>4. CASE pc[c] \in Leaving /\ peer[c] = Nil
  BY <1>1, <1>3, <1>4, SentinelsAssumption DEF UnpairedAreUnheard, Lost
<1>5. CASE Announce(c)
  BY <1>3, <1>5 DEF Announce, UnpairedAreUnheard, Lost, Leaving, TypeInv, TypeOK
<1>6. CASE pc[c] = "forget" /\ peer[c] = Nil
  BY <1>1, <1>6 DEF UnpairedAreUnheard
<1>7. CASE pc[c] = "relaying" /\ peer[c] = Nil
  BY <1>7 DEF PairInv, LoopsFollowMaps
<1>8. CASE Rests(c)
  BY <1>4, <1>8 DEF Rests
<1>9. ASSUME ClientActs(c), ~Announce(c)
      PROVE  peer[c] = Nil /\ pc[c] \in Leaving \cup {"forget", "relaying"}
  BY <1>1, <1>9
  DEF ClientActs, Leaves, ClientStep, ClientJoin, ClientMissesRoom, ClientTurnedAway,
      ClientEnter, ClientRefused, ClientLeaves, RegisterRequest, RegisterNilEntry,
      WaitFails, WaitReturns, WaitLooksUp, PollFinds, PollAgain, PollTimesOut,
      ForgetRequest, ClientRelayEnds, CleanupAsMember, CleanupWithoutRoom, CloseOther,
      CloseOwn, Leaving, TypeInv, TypeOK
<1> QED
  BY <1>4, <1>5, <1>6, <1>7, <1>8, <1>9, ClientsAct

LEMMA UnpairedStep ==
    ASSUME TypeInv, PairInv, DirectoryInv, AnswersAreAsked, ListedAtHome,
           UnpairedAreUnheard, [Next]_vars
    PROVE  UnpairedAreUnheard'
<1> SUFFICES ASSUME NEW c \in ClientConns
             PROVE
        /\ room'[c] # Nil => Host'[room'[c]] # Nil
        /\ pc'[c] \in UsesRoom \ BeforeEntry =>
                ClientsToHostConnections'[room'[c]][c] # Absent
        /\ pc'[c] \in {"nilEntry", "announce"} /\ UniqueRequests => Unheard(c)'
        /\ pc'[c] = "polling" /\ Registered(room[c])' => polled'[c] = room'[c]
        /\ pc'[c] = "forget" /\ peer'[c] = Nil => ~Registered(room[c])'
        /\ pc'[c] \in Leaving /\ peer'[c] = Nil /\ room'[c] # Nil /\ Registered(room[c])' =>
                Lost(c)' /\ (UniqueRequests => Unheard(c)')
  BY DEF UnpairedAreUnheard, Lost
<1> QED
  BY HostedStep, EntriesKept, UnheardStep, PollsHome, GivesUpUnlisted, LeftUnpaired

\* What a leaving handler has done stays done while it closes its list.
LEMMA LeaversGoOn ==
    ASSUME TypeInv, [Next]_vars, NEW c \in Conns, NEW other \in Conns,
           pc[other] # "none", SeesTo(c, other),
           \/ Rests(c)
           \/ \E third \in Conns : CloseOther(c, third)
           \/ CloseOwn(c)
    PROVE  SeesTo(c, other)'
<1>1. Unclosed(other)' => Unclosed(other)
  BY SharedMoves DEF SharedMove
<1>2. CASE Rests(c)
  BY <1>1, <1>2 DEF Rests, SeesTo
<1>3. ASSUME NEW third \in Conns, CloseOther(c, third)
      PROVE  SeesTo(c, other)'
  <2>1. CASE third = other
    <3>1. ~Unclosed(other)'
      BY <1>3, <2>1 DEF CloseOther, CleanupReason, Unclosed, TypeInv, TypeOK
    <3> QED
      BY <3>1 DEF SeesTo
  <2>2. CASE third # other
    BY <1>1, <1>3, <2>2 DEF CloseOther, SeesTo, TypeInv, TypeOK
  <2> QED
    BY <2>1, <2>2
<1>4. CASE CloseOwn(c)
  BY <1>1, <1>4 DEF CloseOwn, SeesTo, TypeInv, TypeOK
<1> QED
  BY <1>2, <1>3, <1>4

\* The cleanup of one end finds the other in the listed room of both.
LEMMA CleanupSeesTo ==
    ASSUME TypeInv, ListedAtHome, NEW c \in Conns, NEW other \in Conns,
           Registered(room[c]), CleanupAsMember(c),
           \/ c \in ClientConns /\ ClientsToHostConnections[room[c]][c] = other
           \/ c \in DataConns /\ HostToClientsConnections[room[c]][c] = other
    PROVE  SeesTo(c, other)'
<1>1. Rooms[gameId[c]] = room[c] /\ room[c] \in RoomObjs
  BY FoundAtHome
<1>2. other \in Partners(room[c], c)
  BY <1>1, SentinelsAssumption, RolesAssumption DEF Partners, EntryOrNil, TypeInv, TypeOK
<1> QED
  BY <1>1, <1>2 DEF CleanupAsMember, SeesTo, TypeInv, TypeOK

\* A client, and a data connection, closes its partner before it is done.
LEMMA ClientsSeeTo ==
    ASSUME TypeInv, PairInv, ListedAtHome, LeaversSeeToPartners, [Next]_vars,
           NEW c \in ClientConns, peer'[c] # Nil, Registered(room[c])',
           pc'[c] \in {"closing", "done"}
    PROVE  SeesTo(c, peer[c])'
<1>1. CASE Rests(c) \/ Leaves(c)
  <2>1. peer'[c] = peer[c] /\ room'[c] = room[c]
    BY <1>1
    DEF Rests, Leaves, CleanupAsMember, CleanupWithoutRoom, CloseOther, CloseOwn
  <2>2. peer[c] \in DataConns /\ room[c] \in RoomObjs
        /\ ClientsToHostConnections[room[c]][c] = peer[c] /\ pc[peer[c]] # "none"
    BY <2>1, SentinelsAssumption
    DEF PairInv, LoopsFollowMaps, LinkedByTaker, TypeInv, RolesOK
  <2>3. Registered(room[c])
    BY <2>1, <2>2, UnlistedStays, SentinelsAssumption DEF Registered, ListedAtHome
  <2>4. SeesTo(c, peer[c])
    BY <2>1, <2>3 DEF LeaversSeeToPartners
  <2>5. CASE CleanupAsMember(c)
    BY <2>1, <2>2, <2>3, <2>5, CleanupSeesTo DEF SeesTo, Unclosed
  <2>6. CASE CleanupWithoutRoom(c)
    BY <2>3, <2>6, FoundAtHome DEF CleanupWithoutRoom
  <2>7. CASE Rests(c) \/ CloseOwn(c) \/ \E third \in Conns : CloseOther(c, third)
    BY <2>1, <2>2, <2>4, <2>7, LeaversGoOn DEF SeesTo, Unclosed
  <2> QED
    BY <1>1, <2>5, <2>6, <2>7 DEF Leaves
<1>2. CASE ClientTurnedAway(c)
  <2>1. room'[c] = Nil
    BY <1>2 DEF ClientTurnedAway, TypeInv, LocalsOK, BeforeRoom
  <2>2. Registered(room[c])' => \E code \in Codes : Rooms'[code] = Nil
    BY <2>1 DEF Registered
  <2> QED
    BY <2>2, TypeStep, SentinelsAssumption DEF TypeInv, TypeOK
<1>3. ASSUME ClientActs(c), ~Leaves(c), ~ClientTurnedAway(c) PROVE FALSE
  BY <1>3
  DEF ClientActs, ClientStep, ClientJoin, ClientMissesRoom, ClientEnter, ClientRefused,
      ClientLeaves, RegisterRequest, RegisterNilEntry, Announce, WaitFails,
      WaitReturns, WaitLooksUp, PollFinds, PollAgain, PollTimesOut, ForgetRequest,
      ClientRelayEnds, TypeInv, TypeOK
<1> QED
  BY <1>1, <1>2, <1>3, ClientsAct

LEMMA DataSeeTo ==
    ASSUME TypeInv, PairInv, ListedAtHome, LeaversSeeToPartners, [Next]_vars,
           NEW d \in DataConns, NEW c \in ClientConns, NEW r \in RoomObjs,
           HostToClientsConnections'[r][d] = c, Registered(r)',
           pc'[d] \in {"closing", "done"}
    PROVE  SeesTo(d, c)'
<1>1. HostToClientsConnections[r][d] = c
  <2>1. ASSUME NEW g \in Conns, LinkBack(g)
        PROVE  HostToClientsConnections[r][d] = c
    <3>1. g \in DataConns /\ room[g] \in RoomObjs /\ g # d
      BY <2>1, DataPlaces DEF LinkBack, TypeInv, TypeOK
    <3> QED
      BY <2>1, <3>1, NestedUpdate DEF LinkBack, TypeInv, TypeOK
  <2> QED
    BY <2>1, BackLinksChange
<1>2. room[d] = r /\ pc[d] \notin BeforeBack /\ pc[c] # "none"
  <2>1. room[d] = r /\ pc[d] \notin BeforeBack /\ ClientsToHostConnections[r][c] = d
    BY <1>1 DEF PairInv, SidesAgree, BeforeBack, BeforeLink
  <2> QED
    BY <2>1, SentinelsAssumption
    DEF PairInv, EntriesOfMembers, BeforeEntry, BeforeRequest, BeforeRoom
<1>3. Registered(room[d])
  BY <1>2, UnlistedStays, SentinelsAssumption DEF ListedAtHome
<1>4. SeesTo(d, c)
  BY <1>1, <1>2, <1>3 DEF LeaversSeeToPartners
<1>5. CASE CleanupAsMember(d)
  BY <1>1, <1>2, <1>3, <1>5, CleanupSeesTo
<1>6. CASE CleanupWithoutRoom(d)
  BY <1>3, <1>6, FoundAtHome DEF CleanupWithoutRoom
<1>7. CASE Rests(d) \/ CloseOwn(d) \/ \E third \in Conns : CloseOther(d, third)
  BY <1>2, <1>4, <1>7, LeaversGoOn
<1>8. ASSUME DataActs(d), ~Leaves(d) PROVE FALSE
  BY <1>2, <1>8
  DEF DataActs, LinkStep, DataJoin, DataRefused, TakeRequest, LinkClient, LinkBack,
      DataEnter, DataRelayEnds, BeforeBack, BeforeLink, TypeInv, TypeOK
<1> QED
  BY <1>5, <1>6, <1>7, <1>8, DataAct DEF Leaves

LEMMA LeaversStep ==
    ASSUME TypeInv, PairInv, ListedAtHome, LeaversSeeToPartners, [Next]_vars
    PROVE  LeaversSeeToPartners'
<1>1. ASSUME NEW c \in ClientConns, peer'[c] # Nil, Registered(room[c])'
      PROVE  SeesTo(c, peer[c])'
  BY <1>1, ClientsSeeTo DEF SeesTo
<1>2. ASSUME NEW c \in ClientConns, NEW d \in DataConns, NEW r \in RoomObjs,
             HostToClientsConnections'[r][d] = c, Registered(r)'
      PROVE  SeesTo(d, c)'
  BY <1>2, DataSeeTo DEF SeesTo
<1> QED
  BY <1>1, <1>2 DEF LeaversSeeToPartners

LEMMA TeardownInit ==
    ASSUME Init
    PROVE  TeardownInv
BY StrandedInit, SentinelsAssumption
DEF Init, TeardownInv, AnswersAreAsked, UnpairedAreUnheard, LeaversSeeToPartners,
    SeesTo, UsesRoom, BeforeEntry, BeforeRequest, BeforeRoom, Leaving

\* The inductive invariant that Reuse checks holds for every value of the
\* constants.
THEOREM InvariantHolds == Spec => []IInv
<1>1. Init => IInv
  BY TypeInit, PairInit, DirectoryInit, TeardownInit DEF IInv
<1>2. IInv /\ [Next]_vars => IInv'
  BY TypeStep, PairStep, ListedStep, OwnersStep, HoldsStep, AtHomeStep, StrandedStep,
     AnswersStep, UnpairedStep, LeaversStep
  DEF IInv, DirectoryInv, TeardownInv
<1> QED
  BY <1>1, <1>2, PTL DEF Spec

\* A client with a data connection linked to it has been heard of, so it has a
\* peer when it leaves.
LEMMA LinkedLeavePaired ==
    ASSUME IInv, NEW c \in ClientConns, NEW d \in DataConns, room[c] \in RoomObjs,
           Registered(room[c]), UniqueRequests \/ ~Lost(c),
           HostToClientsConnections[room[c]][d] = c, pc[c] \in Leaving
    PROVE  peer[c] = d
<1>1. ClientsToHostConnections[room[c]][c] = d /\ peer[d] = c
  BY DEF IInv, PairInv, SidesAgree
<1>2. \E code \in Codes : <<code, request[c]>> \in signalled
  BY <1>1, SentinelsAssumption DEF IInv, TeardownInv, AnswersAreAsked
<1>3. peer[c] # Nil
  BY <1>2, SentinelsAssumption DEF IInv, TeardownInv, UnpairedAreUnheard, Unheard, Lost
<1> QED
  BY <1>1, <1>3 DEF IInv, PairInv, LoopsFollowMaps

\* For any number of clients, data connections, rooms and codes: when the
\* handler of one end of a tunnel has returned in a listed room, both sockets
\* are closed.
THEOREM TunnelFallsTogetherHolds == Spec => []TunnelFallsTogether
<1>1. IInv => TunnelFallsTogether
  <2> SUFFICES ASSUME IInv, NEW c \in ClientConns, NEW d \in DataConns,
                      room[c] # Nil, Registered(room[c]), UniqueRequests \/ ~Lost(c),
                      HostToClientsConnections[room[c]][d] = c,
                      pc[c] = "done" \/ pc[d] = "done"
               PROVE  ~Unclosed(c) /\ ~Unclosed(d)
    BY DEF TunnelFallsTogether, Lost
  <2>1. room[c] \in RoomObjs /\ room[d] = room[c]
    BY DEF IInv, TypeInv, TypeOK, PairInv, SidesAgree
  <2>2. CASE pc[c] = "done"
    <3>1. ~Unclosed(c)
      BY <2>2 DEF IInv, TeardownInv, NoStrandedSocket
    <3>2. peer[c] = d /\ peer[c] # Nil
      BY <2>1, <2>2, LinkedLeavePaired, SentinelsAssumption DEF Leaving
    <3>3. ~Unclosed(d)
      BY <2>2, <3>2 DEF IInv, TeardownInv, LeaversSeeToPartners, SeesTo
    <3> QED
      BY <3>1, <3>3
  <2>3. CASE pc[d] = "done"
    <3>1. ~Unclosed(d)
      BY <2>1, <2>3 DEF IInv, TeardownInv, NoStrandedSocket
    <3>2. ~Unclosed(c)
      BY <2>1, <2>3 DEF IInv, TeardownInv, LeaversSeeToPartners, SeesTo
    <3> QED
      BY <3>1, <3>2
  <2> QED
    BY <2>2, <2>3
<1> QED
  BY <1>1, InvariantHolds, PTL
-----------------------------------------------------------------------------
(* WaitersCanBeAnswered, inductive relative to IInv once it also speaks of *)
(* clients that are about to wait.                                         *)
HasAsked == {"nilEntry", "announce", "waiting", "polling"}

AskersCanBeAnswered ==
    UniqueRequests =>
        \A c \in ClientConns :
            pc[c] \in HasAsked => Asked(c) \/ Taken(c) \/ Mate(c) # Nil

\* A unique request leaves the map only when a data connection takes it, as its
\* client does so itself only after the wait.
LEMMA AskedStep ==
    ASSUME IInv, [Next]_vars, UniqueRequests, NEW c \in ClientConns,
           room[c] \in RoomObjs, request[c] \in Requests, pc[c] \in HasAsked, Asked(c),
           RequestedConnectionsMap'[room[c]][request[c]] # c
    PROVE  \E d \in DataConns : pc'[d] = "link" /\ peer'[d] = c
<1>1. PICK x \in Conns : \/ \E q \in Requests : RegisterRequest(x, q)
                         \/ ForgetRequest(x)
                         \/ TakeRequest(x)
  BY RequestsChange DEF Asked
<1>2. RequestedConnectionsMap \in [RoomObjs -> [Requests -> ClientConns \cup {Absent}]]
  BY DEF IInv, TypeInv, TypeOK
<1>3. ASSUME NEW q \in Requests, RegisterRequest(x, q)
      PROVE  FALSE
  <2>1. room[x] \in RoomObjs
    BY <1>3, ClientPlaces DEF RegisterRequest, IInv
  <2>2. q # request[c]
    BY <1>3 DEF RegisterRequest
  <2> QED
    BY <1>2, <1>3, <2>1, <2>2, NestedUpdate DEF RegisterRequest, Asked
<1>4. CASE ForgetRequest(x)
  <2>1. x \in ClientConns /\ gameId[x] \in Codes /\ request[x] \in Requests
    BY <1>4, ClientPlaces DEF ForgetRequest, IInv
  <2>2. x # c
    BY <1>4 DEF ForgetRequest, HasAsked
  <2>3. request[x] # request[c]
    BY <2>1, <2>2, SentinelsAssumption DEF IInv, TeardownInv, AnswersAreAsked
  <2>4. Rooms[gameId[x]] # Absent => Rooms[gameId[x]] \in RoomObjs
    BY <2>1 DEF IInv, TypeInv, TypeOK
  <2> QED
    BY <1>2, <1>4, <2>1, <2>3, <2>4, NestedUpdate DEF ForgetRequest, RequestsWithout, Asked
<1>5. CASE TakeRequest(x)
  <2>1. x \in DataConns /\ room[x] \in RoomObjs /\ request[x] \in Requests
    BY <1>5, DataPlaces DEF TakeRequest, IInv
  <2>2. RequestedConnectionsMap' = RequestsWithout(room[x], request[x])
    BY <1>5 DEF TakeRequest, Asked
  <2>3. room[x] = room[c] /\ request[x] = request[c]
    BY <1>2, <2>1, <2>2, NestedUpdate DEF RequestsWithout, Asked
  <2>4. RequestedConnectionsMap[room[x]][request[x]] = c /\ c # Absent
    BY <2>3, SentinelsAssumption DEF Asked
  <2> QED
    BY <1>5, <2>1, <2>4 DEF TakeRequest, IInv, TypeInv, TypeOK
<1> QED
  BY <1>1, <1>3, <1>4, <1>5

\* Who has taken a request finds an entry of its client: the host heard of the
\* request, so the entry was made before.
LEMMA TakenStep ==
    ASSUME IInv, [Next]_vars, UniqueRequests, NEW c \in ClientConns,
           room[c] \in RoomObjs, pc[c] \in HasAsked, NEW d \in DataConns,
           pc[d] = "link", peer[d] = c, pc'[d] # "link"
    PROVE  ClientsToHostConnections'[room[c]][c] = d
<1>1. d \in Conns /\ room[d] = room[c]
  BY DEF IInv, PairInv, TakersMatchMembers
<1>2. LinkClient(d)
  <2>1. DataActs(d)
    BY DataAct DEF Rests, IInv
  <2> QED
    BY <2>1
    DEF DataActs, LinkStep, Leaves, DataJoin, DataRefused, TakeRequest, LinkBack,
        DataEnter, DataRelayEnds, CleanupAsMember, CleanupWithoutRoom, CloseOther,
        CloseOwn
<1>3. ~Unheard(c)
  BY SentinelsAssumption DEF IInv, TeardownInv, AnswersAreAsked, Unheard
<1>4. pc[c] \in UsesRoom \ BeforeEntry
  BY <1>3 DEF IInv, TeardownInv, UnpairedAreUnheard, HasAsked, UsesRoom, BeforeEntry,
              BeforeRequest, BeforeRoom
<1>5. ClientsToHostConnections[room[c]][c] # Absent
  BY <1>4 DEF IInv, TeardownInv, UnpairedAreUnheard
<1>6. ClientsToHostConnections' = [ClientsToHostConnections EXCEPT ![room[c]][c] = d]
  BY <1>1, <1>2, <1>5 DEF LinkClient
<1>7. ClientsToHostConnections \in [RoomObjs -> [ClientConns -> DataConns \cup {Nil, Absent}]]
  BY DEF IInv, TypeInv, TypeOK
<1> QED
  BY <1>6, <1>7, NestedUpdate

\* A link is replaced by a link at most: its client has made its nil entry.
LEMMA LinkedStep ==
    ASSUME IInv, [Next]_vars, NEW c \in ClientConns, room[c] \in RoomObjs,
           ClientsToHostConnections[room[c]][c] \in DataConns
    PROVE  ClientsToHostConnections'[room[c]][c] \in DataConns
<1>1. pc[c] \notin BeforeEntry
  BY SentinelsAssumption DEF IInv, PairInv, EntriesOfMembers
<1>2. ClientsToHostConnections \in [RoomObjs -> [ClientConns -> DataConns \cup {Nil, Absent}]]
  BY DEF IInv, TypeInv, TypeOK
<1>3. ASSUME NEW g \in Conns, RegisterNilEntry(g)
      PROVE  ClientsToHostConnections'[room[c]][c] \in DataConns
  <2>1. g \in ClientConns /\ room[g] \in RoomObjs
    BY <1>3, ClientPlaces DEF RegisterNilEntry, IInv
  <2>2. g # c
    BY <1>1, <1>3 DEF RegisterNilEntry, BeforeEntry
  <2> QED
    BY <1>2, <1>3, <2>1, <2>2, NestedUpdate DEF RegisterNilEntry
<1>4. ASSUME NEW g \in Conns, LinkClient(g)
      PROVE  ClientsToHostConnections'[room[c]][c] \in DataConns
  <2>1. g \in DataConns /\ room[g] \in RoomObjs /\ peer[g] \in ClientConns
    BY <1>4, DataPlaces DEF LinkClient, IInv
  <2>2. CASE UNCHANGED ClientsToHostConnections
    BY <2>2
  <2>3. CASE ClientsToHostConnections' =
                [ClientsToHostConnections EXCEPT ![room[g]][peer[g]] = g]
    <3>1. ClientsToHostConnections'[room[c]][c] =
            IF room[c] = room[g] /\ c = peer[g] THEN g
            ELSE ClientsToHostConnections[room[c]][c]
      BY <1>2, <2>1, <2>3, NestedUpdate
    <3> QED
      BY <2>1, <3>1
  <2> QED
    BY <1>4, <2>2, <2>3 DEF LinkClient
<1> QED
  BY <1>3, <1>4, EntriesChange

LEMMA AskersStep ==
    ASSUME IInv, AskersCanBeAnswered, [Next]_vars
    PROVE  AskersCanBeAnswered'
<1> SUFFICES ASSUME UniqueRequests, NEW c \in ClientConns, pc'[c] \in HasAsked
             PROVE  Asked(c)' \/ Taken(c)' \/ Mate(c)' # Nil
  BY DEF AskersCanBeAnswered
<1>1. ASSUME NEW q \in Requests, RegisterRequest(c, q)
      PROVE  Asked(c)'
  <2>1. room[c] \in RoomObjs /\ room'[c] = room[c] /\ request'[c] = q
    BY <1>1, ClientPlaces DEF RegisterRequest, IInv, TypeInv, TypeOK
  <2> QED
    BY <1>1, <2>1, NestedUpdate DEF RegisterRequest, Asked, IInv, TypeInv, TypeOK
<1>2. CASE pc[c] \in HasAsked
  <2>1. room[c] \in RoomObjs /\ request[c] \in Requests
    BY <1>2, ClientPlaces DEF HasAsked, IInv
  <2>2. room'[c] = room[c] /\ request'[c] = request[c]
    BY <1>2, ForwardStep
    DEF Forward, HasAsked, BeforeRequest, BeforeRoom, IInv, PairInv
  <2>3. CASE Asked(c)
    BY <1>2, <2>1, <2>2, <2>3, AskedStep DEF Asked, Taken
  <2>4. CASE Taken(c)
    <3>1. PICK d \in DataConns : pc[d] = "link" /\ peer[d] = c
      BY <2>4 DEF Taken
    <3>2. CASE pc'[d] = "link"
      <4>1. peer'[d] = peer[d]
        BY <3>1, ForwardStep DEF Forward, IInv, PairInv
      <4> QED
        BY <3>1, <3>2, <4>1 DEF Taken
    <3>3. CASE pc'[d] # "link"
      <4>1. ClientsToHostConnections'[room[c]][c] = d
        BY <1>2, <2>1, <3>1, <3>3, TakenStep
      <4> QED
        BY <2>1, <2>2, <4>1, SentinelsAssumption DEF Mate
    <3> QED
      BY <3>2, <3>3
  <2>5. CASE Mate(c) # Nil
    <3>1. ClientsToHostConnections[room[c]][c] \in DataConns
      BY <2>1, <2>5 DEF Mate, IInv, TypeInv, TypeOK
    <3>2. ClientsToHostConnections'[room[c]][c] \in DataConns
      BY <2>1, <3>1, LinkedStep
    <3> QED
      BY <2>1, <2>2, <3>2, SentinelsAssumption DEF Mate
  <2> QED
    BY <1>2, <2>3, <2>4, <2>5 DEF AskersCanBeAnswered
<1>3. ASSUME pc[c] \notin HasAsked, ~\E q \in Requests : RegisterRequest(c, q)
      PROVE  FALSE
  <2>1. CASE Rests(c)
    BY <1>3, <2>1 DEF Rests
  <2>2. CASE ClientActs(c)
    BY <1>3, <2>2
    DEF ClientActs, Leaves, ClientStep, ClientJoin, ClientMissesRoom, ClientTurnedAway,
        ClientEnter, ClientRefused, ClientLeaves, RegisterNilEntry, Announce, WaitFails,
        WaitReturns, WaitLooksUp, PollFinds, PollAgain, PollTimesOut, ForgetRequest,
        ClientRelayEnds, CleanupAsMember, CleanupWithoutRoom, CloseOther, CloseOwn,
        HasAsked, IInv, TypeInv, TypeOK
  <2> QED
    BY <2>1, <2>2, ClientsAct DEF IInv
<1> QED
  BY <1>1, <1>2, <1>3

\* No answer is lost, for any number of clients, data connections, rooms and
\* codes: with unique ids a client that waits has its request in the map of its
\* room, or a data connection about to link to it, or its link.
THEOREM WaitersCanBeAnsweredHolds == Spec => []WaitersCanBeAnswered
<1>1. Init => AskersCanBeAnswered
  BY DEF Init, AskersCanBeAnswered, HasAsked
<1>2. IInv /\ AskersCanBeAnswered /\ [Next]_vars => AskersCanBeAnswered'
  BY AskersStep
<1>3. AskersCanBeAnswered => WaitersCanBeAnswered
  BY DEF AskersCanBeAnswered, WaitersCanBeAnswered, Waiting, HasAsked
<1> QED
  BY <1>1, <1>2, <1>3, InvariantHolds, PTL DEF Spec

=============================================================================
