-------------------------- MODULE RelayPairProofs ---------------------------
(***************************************************************************)
(* NoCrossedTunnels and the refinement of Matching, for every number of    *)
(* clients, data connections, rooms and requests.                          *)
(*                                                                         *)
(* The first lemmas say how far a step can reach: nobody goes back         *)
(* (Forward), which actions write which map, and which lead into the       *)
(* places that PairInv speaks of.  Each conjunct of PairInv is then        *)
(* inductive relative to the others, and only the actions named there need *)
(* a case of their own.                                                    *)
(***************************************************************************)
EXTENDS RelayTypeProofs

USE DEF Conns, Goto, Accept, Reject, CloseWebsocket, roomVars, ageVars, localVars,
        creatorVars, sweeperVars

\* No goroutine goes back to a place it has left, and a local that was set
\* keeps its value while a later step may read it.
BeforeLink == {"none", "take", "link"}
BeforeBack == BeforeLink \cup {"linkBack"}

Forward ==
    /\ \A c \in ClientConns :
        /\ pc[c] \notin BeforeEntry => pc'[c] \notin BeforeEntry
        /\ pc[c] \notin BeforeRequest =>
                pc'[c] \notin BeforeRequest /\ request'[c] = request[c]
        /\ pc[c] \notin BeforeRoom => room'[c] = room[c]
    /\ \A d \in DataConns :
        /\ pc[d] # "none" => room'[d] = room[d]
        /\ pc[d] \notin {"none", "take"} => peer'[d] = peer[d]
        /\ pc[d] \notin BeforeLink => pc'[d] \notin BeforeLink
        /\ pc[d] \notin BeforeBack => pc'[d] \notin BeforeBack

\* DataEnter sets peer again, to the value that it has.
LEMMA ForwardStep ==
    ASSUME TypeInv, SidesAgree, [Next]_vars
    PROVE  Forward
<1>1. ASSUME NEW c \in ClientConns, NEW code \in Codes, ClientJoin(c, code)
      PROVE  Forward
  BY <1>1, RolesAssumption DEF ClientJoin, Forward, BeforeLink, BeforeBack,
     TypeInv, TypeOK, BeforeRoom, BeforeRequest, BeforeEntry
<1>2. ASSUME NEW c \in ClientConns, NEW code \in Codes, ClientMissesRoom(c, code)
      PROVE  Forward
  BY <1>2, RolesAssumption DEF ClientMissesRoom, Forward, BeforeLink,
     BeforeBack, TypeInv, TypeOK, BeforeRoom, BeforeRequest, BeforeEntry
<1>3. ASSUME NEW h \in HostConns, NEW code \in Codes, HostJoin(h, code)
      PROVE  Forward
  BY <1>3, RolesAssumption DEF HostJoin, Claimable, Forward, BeforeLink,
     BeforeBack, TypeInv, TypeOK, BeforeRoom, BeforeRequest, BeforeEntry
<1>4. ASSUME NEW h \in HostConns, NEW code \in Codes, HostRefused(h, code)
      PROVE  Forward
  BY <1>4, RolesAssumption DEF HostRefused, Forward, BeforeLink, BeforeBack,
     TypeInv, TypeOK, BeforeRoom, BeforeRequest, BeforeEntry
<1>5. ASSUME NEW d \in DataConns, NEW code \in Codes, NEW q \in Requests, DataJoin(d, code, q)
      PROVE  Forward
  BY <1>5, RolesAssumption DEF DataJoin, Forward, BeforeLink, BeforeBack,
     TypeInv, TypeOK, BeforeRoom, BeforeRequest, BeforeEntry
<1>6. ASSUME NEW d \in DataConns, NEW code \in Codes, NEW q \in Requests, DataRefused(d, code, q)
      PROVE  Forward
  BY <1>6, RolesAssumption DEF DataRefused, Forward, BeforeLink, BeforeBack,
     TypeInv, TypeOK, BeforeRoom, BeforeRequest, BeforeEntry
<1>7. ASSUME NEW c \in Conns, ClientTurnedAway(c) PROVE Forward
  BY <1>7, RolesAssumption DEF ClientTurnedAway, Forward, BeforeLink,
     BeforeBack, TypeInv, TypeOK, BeforeRoom, BeforeRequest, BeforeEntry
<1>8. ASSUME NEW c \in Conns, ClientEnter(c) PROVE Forward
  BY <1>8, RolesAssumption DEF ClientEnter, Forward, BeforeLink, BeforeBack,
     TypeInv, TypeOK, BeforeRoom, BeforeRequest, BeforeEntry
<1>9. ASSUME NEW c \in Conns, ClientRefused(c) PROVE Forward
  BY <1>9, RolesAssumption DEF ClientRefused, ClientLeaves, Forward,
     BeforeLink, BeforeBack, TypeInv, TypeOK, BeforeRoom, BeforeRequest,
     BeforeEntry
<1>10. ASSUME NEW c \in Conns, NEW q \in Requests, RegisterRequest(c, q)
      PROVE  Forward
  BY <1>10, RolesAssumption DEF RegisterRequest, Forward, BeforeLink,
     BeforeBack, TypeInv, TypeOK, BeforeRoom, BeforeRequest, BeforeEntry
<1>11. ASSUME NEW c \in Conns, RegisterNilEntry(c) PROVE Forward
  BY <1>11, RolesAssumption DEF RegisterNilEntry, Forward, BeforeLink,
     BeforeBack, TypeInv, TypeOK, BeforeRoom, BeforeRequest, BeforeEntry
<1>12. ASSUME NEW c \in Conns, Announce(c) PROVE Forward
  BY <1>12, RolesAssumption DEF Announce, ClientLeaves, Forward, BeforeLink,
     BeforeBack, TypeInv, TypeOK, BeforeRoom, BeforeRequest, BeforeEntry
<1>13. ASSUME NEW c \in Conns, WaitFails(c) PROVE Forward
  <2>1. c \in ClientConns
    BY <1>13, ClientPlaces DEF WaitFails
  <2> QED
    BY <1>13, <2>1, RolesAssumption
    DEF WaitFails, WaitReturns, Forward, BeforeLink, BeforeBack, TypeInv, TypeOK,
        BeforeRoom, BeforeRequest, BeforeEntry
<1>14. ASSUME NEW c \in Conns, WaitLooksUp(c) PROVE Forward
  BY <1>14, RolesAssumption DEF WaitLooksUp, Forward, BeforeLink, BeforeBack,
     TypeInv, TypeOK, BeforeRoom, BeforeRequest, BeforeEntry
<1>15. ASSUME NEW c \in Conns, PollFinds(c) PROVE Forward
  <2>1. c \in ClientConns
    BY <1>15, ClientPlaces DEF PollFinds
  <2> QED
    BY <1>15, <2>1, RolesAssumption
    DEF PollFinds, WaitReturns, Forward, BeforeLink, BeforeBack, TypeInv, TypeOK,
        BeforeRoom, BeforeRequest, BeforeEntry
<1>16. ASSUME NEW c \in Conns, PollAgain(c) PROVE Forward
  BY <1>16, RolesAssumption DEF PollAgain, Forward, BeforeLink, BeforeBack,
     TypeInv, TypeOK, BeforeRoom, BeforeRequest, BeforeEntry
<1>17. ASSUME NEW c \in Conns, PollTimesOut(c) PROVE Forward
  <2>1. c \in ClientConns
    BY <1>17, ClientPlaces DEF PollTimesOut
  <2> QED
    BY <1>17, <2>1, RolesAssumption
    DEF PollTimesOut, WaitReturns, Forward, BeforeLink, BeforeBack, TypeInv, TypeOK,
        BeforeRoom, BeforeRequest, BeforeEntry
<1>18. ASSUME NEW c \in Conns, ForgetRequest(c) PROVE Forward
  BY <1>18, RolesAssumption DEF ForgetRequest, ClientLeaves, RequestsWithout,
     Forward, BeforeLink, BeforeBack, TypeInv, TypeOK, BeforeRoom,
     BeforeRequest, BeforeEntry
<1>19. ASSUME NEW c \in Conns, HostEnter(c) PROVE Forward
  BY <1>19, RolesAssumption DEF HostEnter, Forward, BeforeLink, BeforeBack,
     TypeInv, TypeOK, BeforeRoom, BeforeRequest, BeforeEntry
<1>20. ASSUME NEW c \in Conns, HostTooLate(c) PROVE Forward
  BY <1>20, RolesAssumption DEF HostTooLate, Forward, BeforeLink, BeforeBack,
     TypeInv, TypeOK, BeforeRoom, BeforeRequest, BeforeEntry
<1>21. ASSUME NEW c \in Conns, TakeRequest(c) PROVE Forward
  BY <1>21, RolesAssumption DEF TakeRequest, RequestsWithout, Forward,
     BeforeLink, BeforeBack, TypeInv, TypeOK, BeforeRoom, BeforeRequest,
     BeforeEntry
<1>22. ASSUME NEW c \in Conns, LinkClient(c) PROVE Forward
  BY <1>22, RolesAssumption DEF LinkClient, Forward, BeforeLink, BeforeBack,
     TypeInv, TypeOK, BeforeRoom, BeforeRequest, BeforeEntry
<1>23. ASSUME NEW c \in Conns, LinkBack(c) PROVE Forward
  <2>1. c \in DataConns
    BY <1>23, DataPlaces DEF LinkBack
  <2> QED
    BY <1>23, <2>1, RolesAssumption
    DEF LinkBack, Forward, BeforeLink, BeforeBack, TypeInv, TypeOK,
        BeforeRoom, BeforeRequest, BeforeEntry
<1>24. ASSUME NEW c \in Conns, DataEnter(c) PROVE Forward
  <2>1. c \in DataConns /\ gameId[c] \in Codes
    BY <1>24, CodeKnown DEF DataEnter
  <2>2. ClientOf(c) # Absent => ClientOf(c) = peer[c]
    BY <2>1, SentinelsAssumption DEF ClientOf, SidesAgree, TypeInv, TypeOK
  <2>3. peer' = peer
    BY <1>24, <2>2 DEF DataEnter, TypeInv, TypeOK
  <2> QED
    BY <1>24, <2>1, <2>3, RolesAssumption
    DEF DataEnter, Forward, BeforeLink, BeforeBack, TypeInv, TypeOK,
        BeforeRoom, BeforeRequest, BeforeEntry
<1>25. ASSUME NEW c \in Conns, CleanupAsHost(c) PROVE Forward
  BY <1>25, RolesAssumption DEF CleanupAsHost, Unregistered, Forward,
     BeforeLink, BeforeBack, TypeInv, TypeOK, BeforeRoom, BeforeRequest,
     BeforeEntry
<1>26. ASSUME NEW c \in Conns, CleanupAsMember(c) PROVE Forward
  BY <1>26, RolesAssumption DEF CleanupAsMember, Forward, BeforeLink,
     BeforeBack, TypeInv, TypeOK, BeforeRoom, BeforeRequest, BeforeEntry
<1>27. ASSUME NEW c \in Conns, CleanupWithoutRoom(c) PROVE Forward
  BY <1>27, RolesAssumption DEF CleanupWithoutRoom, Forward, BeforeLink,
     BeforeBack, TypeInv, TypeOK, BeforeRoom, BeforeRequest, BeforeEntry
<1>28. ASSUME NEW c \in Conns, CloseOwn(c) PROVE Forward
  BY <1>28, RolesAssumption DEF CloseOwn, Forward, BeforeLink, BeforeBack,
     TypeInv, TypeOK, BeforeRoom, BeforeRequest, BeforeEntry
<1>29. ASSUME NEW c \in Conns, ClientRelayEnds(c) PROVE Forward
  BY <1>29, RolesAssumption DEF ClientRelayEnds, ClientLeaves, Forward,
     BeforeLink, BeforeBack, TypeInv, TypeOK, BeforeRoom, BeforeRequest,
     BeforeEntry
<1>30. ASSUME NEW c \in Conns, HostSignalEnds(c) PROVE Forward
  BY <1>30, RolesAssumption DEF HostSignalEnds, Forward, BeforeLink,
     BeforeBack, TypeInv, TypeOK, BeforeRoom, BeforeRequest, BeforeEntry
<1>31. ASSUME NEW c \in Conns, DataRelayEnds(c) PROVE Forward
  BY <1>31, RolesAssumption DEF DataRelayEnds, Forward, BeforeLink,
     BeforeBack, TypeInv, TypeOK, BeforeRoom, BeforeRequest, BeforeEntry
<1>32. CASE UNCHANGED <<pc, room, peer, request>>
  BY <1>32 DEF Forward, BeforeLink, BeforeBack
<1> QED
  BY <1>1, <1>2, <1>3, <1>4, <1>5, <1>6, <1>7, <1>8, <1>9, <1>10, <1>11,
     <1>12, <1>13, <1>14, <1>15, <1>16, <1>17, <1>18, <1>19, <1>20, <1>21,
     <1>22, <1>23, <1>24, <1>25, <1>26, <1>27, <1>28, <1>29, <1>30, <1>31, <1>32
     DEF Next, Arrive, Proceed, StopRelaying, ClientStep, HostStep, LinkStep,
     CleanupStep, EvictStep, SweepStep, Age, vars, CreateFresh, ReuseHostless,
     EvictBegin, CloseOther, PeerLeaves, EvictClose, EvictFinish, UnusedScan,
     UnusedPrune, IdleScan, IdleDelete, IdleClose, Expire, BecomeIdle,
     ForgetReason

\* The only steps that write to each map.
LEMMA EntriesChange ==
    ASSUME [Next]_vars
    PROVE  \/ UNCHANGED ClientsToHostConnections
           \/ \E c \in Conns : RegisterNilEntry(c) \/ LinkClient(c)
<1> SUFFICES ASSUME \A c \in Conns : ~RegisterNilEntry(c) /\ ~LinkClient(c)
             PROVE  UNCHANGED ClientsToHostConnections
  OBVIOUS
<1>1. ASSUME NEW code \in Codes, Arrive(code)
      PROVE  UNCHANGED ClientsToHostConnections
  BY <1>1 DEF Arrive, Allocate, CreateFresh, ReuseHostless, EvictBegin,
     ClientJoin, ClientMissesRoom, HostJoin, HostRefused, DataJoin, DataRefused
<1>2. ASSUME NEW c \in Conns, ClientTurnedAway(c) \/ ClientStep(c)
      PROVE  UNCHANGED ClientsToHostConnections
  BY <1>2 DEF ClientStep, WaitReturns, ClientTurnedAway, ClientEnter,
     ClientRefused, RegisterRequest, Announce, WaitFails, WaitLooksUp,
     PollFinds, PollAgain, PollTimesOut, ForgetRequest
<1>3. ASSUME NEW c \in Conns, HostStep(c) \/ LinkStep(c) \/ DataEnter(c)
      PROVE  UNCHANGED ClientsToHostConnections
  BY <1>3 DEF HostStep, LinkStep, HostEnter, HostTooLate, TakeRequest,
     LinkBack, DataEnter
<1>4. ASSUME NEW c \in Conns, CleanupStep(c)
      PROVE  UNCHANGED ClientsToHostConnections
  BY <1>4 DEF CleanupStep, CleanupAsHost, CleanupAsMember,
     CleanupWithoutRoom, CloseOther, CloseOwn
<1>5. ASSUME NEW c \in Conns, StopRelaying(c) \/ PeerLeaves(c)
      PROVE  UNCHANGED ClientsToHostConnections
  BY <1>5 DEF StopRelaying, ClientRelayEnds, HostSignalEnds, DataRelayEnds,
     PeerLeaves
<1>6. ASSUME NEW p \in Creators, EvictStep(p)
      PROVE  UNCHANGED ClientsToHostConnections
  BY <1>6 DEF EvictStep, EvictClose, EvictFinish
<1>7. ASSUME SweepStep PROVE UNCHANGED ClientsToHostConnections
  BY <1>7 DEF SweepStep, UnusedScan, UnusedPrune, IdleScan, IdleDelete,
     IdleClose
<1>8. ASSUME Age PROVE UNCHANGED ClientsToHostConnections
  BY <1>8 DEF Age, Expire, BecomeIdle, ForgetReason
<1> QED
  BY <1>1, <1>2, <1>3, <1>4, <1>5, <1>6, <1>7, <1>8 DEF Next, Proceed, vars

LEMMA RequestsChange ==
    ASSUME [Next]_vars
    PROVE  \/ UNCHANGED RequestedConnectionsMap
           \/ \E c \in Conns : \/ \E q \in Requests : RegisterRequest(c, q)
                               \/ ForgetRequest(c)
                               \/ TakeRequest(c)
<1> SUFFICES ASSUME \A c \in Conns :
                        /\ \A q \in Requests : ~RegisterRequest(c, q)
                        /\ ~ForgetRequest(c)
                        /\ ~TakeRequest(c)
             PROVE  UNCHANGED RequestedConnectionsMap
  OBVIOUS
<1>1. ASSUME NEW code \in Codes, Arrive(code)
      PROVE  UNCHANGED RequestedConnectionsMap
  BY <1>1 DEF Arrive, Allocate, CreateFresh, ReuseHostless, EvictBegin,
     ClientJoin, ClientMissesRoom, HostJoin, HostRefused, DataJoin, DataRefused
<1>2. ASSUME NEW c \in Conns, ClientTurnedAway(c) \/ ClientStep(c)
      PROVE  UNCHANGED RequestedConnectionsMap
  BY <1>2 DEF ClientStep, WaitReturns, ClientTurnedAway, ClientEnter,
     ClientRefused, RegisterNilEntry, Announce, WaitFails, WaitLooksUp,
     PollFinds, PollAgain, PollTimesOut
<1>3. ASSUME NEW c \in Conns, HostStep(c) \/ LinkStep(c) \/ DataEnter(c)
      PROVE  UNCHANGED RequestedConnectionsMap
  BY <1>3 DEF HostStep, LinkStep, HostEnter, HostTooLate, LinkClient,
     LinkBack, DataEnter
<1>4. ASSUME NEW c \in Conns, CleanupStep(c)
      PROVE  UNCHANGED RequestedConnectionsMap
  BY <1>4 DEF CleanupStep, CleanupAsHost, CleanupAsMember,
     CleanupWithoutRoom, CloseOther, CloseOwn
<1>5. ASSUME NEW c \in Conns, StopRelaying(c) \/ PeerLeaves(c)
      PROVE  UNCHANGED RequestedConnectionsMap
  BY <1>5 DEF StopRelaying, ClientRelayEnds, HostSignalEnds, DataRelayEnds,
     PeerLeaves
<1>6. ASSUME NEW p \in Creators, EvictStep(p)
      PROVE  UNCHANGED RequestedConnectionsMap
  BY <1>6 DEF EvictStep, EvictClose, EvictFinish
<1>7. ASSUME SweepStep PROVE UNCHANGED RequestedConnectionsMap
  BY <1>7 DEF SweepStep, UnusedScan, UnusedPrune, IdleScan, IdleDelete,
     IdleClose
<1>8. ASSUME Age PROVE UNCHANGED RequestedConnectionsMap
  BY <1>8 DEF Age, Expire, BecomeIdle, ForgetReason
<1> QED
  BY <1>1, <1>2, <1>3, <1>4, <1>5, <1>6, <1>7, <1>8 DEF Next, Proceed, vars

LEMMA BackLinksChange ==
    ASSUME [Next]_vars
    PROVE  \/ UNCHANGED HostToClientsConnections
           \/ \E c \in Conns : LinkBack(c)
<1> SUFFICES ASSUME \A c \in Conns : ~LinkBack(c)
             PROVE  UNCHANGED HostToClientsConnections
  OBVIOUS
<1>1. ASSUME NEW code \in Codes, Arrive(code)
      PROVE  UNCHANGED HostToClientsConnections
  BY <1>1 DEF Arrive, Allocate, CreateFresh, ReuseHostless, EvictBegin,
     ClientJoin, ClientMissesRoom, HostJoin, HostRefused, DataJoin, DataRefused
<1>2. ASSUME NEW c \in Conns, ClientTurnedAway(c) \/ ClientStep(c)
      PROVE  UNCHANGED HostToClientsConnections
  BY <1>2 DEF ClientStep, WaitReturns, ClientTurnedAway, ClientEnter,
     ClientRefused, RegisterRequest, RegisterNilEntry, Announce, WaitFails,
     WaitLooksUp, PollFinds, PollAgain, PollTimesOut, ForgetRequest
<1>3. ASSUME NEW c \in Conns, HostStep(c) \/ LinkStep(c) \/ DataEnter(c)
      PROVE  UNCHANGED HostToClientsConnections
  BY <1>3 DEF HostStep, LinkStep, HostEnter, HostTooLate, TakeRequest,
     LinkClient, DataEnter
<1>4. ASSUME NEW c \in Conns, CleanupStep(c)
      PROVE  UNCHANGED HostToClientsConnections
  BY <1>4 DEF CleanupStep, CleanupAsHost, CleanupAsMember,
     CleanupWithoutRoom, CloseOther, CloseOwn
<1>5. ASSUME NEW c \in Conns, StopRelaying(c) \/ PeerLeaves(c)
      PROVE  UNCHANGED HostToClientsConnections
  BY <1>5 DEF StopRelaying, ClientRelayEnds, HostSignalEnds, DataRelayEnds,
     PeerLeaves
<1>6. ASSUME NEW p \in Creators, EvictStep(p)
      PROVE  UNCHANGED HostToClientsConnections
  BY <1>6 DEF EvictStep, EvictClose, EvictFinish
<1>7. ASSUME SweepStep PROVE UNCHANGED HostToClientsConnections
  BY <1>7 DEF SweepStep, UnusedScan, UnusedPrune, IdleScan, IdleDelete,
     IdleClose
<1>8. ASSUME Age PROVE UNCHANGED HostToClientsConnections
  BY <1>8 DEF Age, Expire, BecomeIdle, ForgetReason
<1> QED
  BY <1>1, <1>2, <1>3, <1>4, <1>5, <1>6, <1>7, <1>8 DEF Next, Proceed, vars

\* The only ways into the places where the pairing is read or written.
EntersBy(x) ==
    /\ pc'[x] = "link" => pc[x] = "link" \/ TakeRequest(x)
    /\ pc'[x] = "linkBack" => pc[x] = "linkBack" \/ LinkClient(x)
    /\ pc'[x] = "relaying" =>
            pc[x] = "relaying" \/ ForgetRequest(x) \/ HostEnter(x) \/ DataEnter(x)

LEMMA PlacesEntered ==
    ASSUME TypeInv, NEW x \in Conns, [Next]_vars
    PROVE  EntersBy(x)
<1>1. ASSUME NEW c \in ClientConns, NEW code \in Codes, ClientJoin(c, code)
      PROVE  EntersBy(x)
  BY <1>1 DEF ClientJoin, EntersBy, TypeInv, TypeOK
<1>2. ASSUME NEW c \in ClientConns, NEW code \in Codes, ClientMissesRoom(c, code)
      PROVE  EntersBy(x)
  BY <1>2 DEF ClientMissesRoom, EntersBy, TypeInv, TypeOK
<1>3. ASSUME NEW h \in HostConns, NEW code \in Codes, HostJoin(h, code)
      PROVE  EntersBy(x)
  BY <1>3 DEF HostJoin, Claimable, EntersBy, TypeInv, TypeOK
<1>4. ASSUME NEW h \in HostConns, NEW code \in Codes, HostRefused(h, code)
      PROVE  EntersBy(x)
  BY <1>4 DEF HostRefused, EntersBy, TypeInv, TypeOK
<1>5. ASSUME NEW d \in DataConns, NEW code \in Codes, NEW q \in Requests, DataJoin(d, code, q)
      PROVE  EntersBy(x)
  BY <1>5 DEF DataJoin, EntersBy, TypeInv, TypeOK
<1>6. ASSUME NEW d \in DataConns, NEW code \in Codes, NEW q \in Requests, DataRefused(d, code, q)
      PROVE  EntersBy(x)
  BY <1>6 DEF DataRefused, EntersBy, TypeInv, TypeOK
<1>7. ASSUME NEW c \in Conns, ClientTurnedAway(c) PROVE EntersBy(x)
  BY <1>7 DEF ClientTurnedAway, EntersBy, TypeInv, TypeOK
<1>8. ASSUME NEW c \in Conns, ClientEnter(c) PROVE EntersBy(x)
  BY <1>8 DEF ClientEnter, EntersBy, TypeInv, TypeOK
<1>9. ASSUME NEW c \in Conns, ClientRefused(c) PROVE EntersBy(x)
  BY <1>9 DEF ClientRefused, ClientLeaves, EntersBy, TypeInv, TypeOK
<1>10. ASSUME NEW c \in Conns, NEW q \in Requests, RegisterRequest(c, q)
      PROVE  EntersBy(x)
  BY <1>10 DEF RegisterRequest, EntersBy, TypeInv, TypeOK
<1>11. ASSUME NEW c \in Conns, RegisterNilEntry(c) PROVE EntersBy(x)
  BY <1>11 DEF RegisterNilEntry, EntersBy, TypeInv, TypeOK
<1>12. ASSUME NEW c \in Conns, Announce(c) PROVE EntersBy(x)
  BY <1>12 DEF Announce, ClientLeaves, EntersBy, TypeInv, TypeOK
<1>13. ASSUME NEW c \in Conns, WaitFails(c) PROVE EntersBy(x)
  BY <1>13 DEF WaitFails, WaitReturns, EntersBy, TypeInv, TypeOK
<1>14. ASSUME NEW c \in Conns, WaitLooksUp(c) PROVE EntersBy(x)
  BY <1>14 DEF WaitLooksUp, EntersBy, TypeInv, TypeOK
<1>15. ASSUME NEW c \in Conns, PollFinds(c) PROVE EntersBy(x)
  BY <1>15 DEF PollFinds, WaitReturns, EntersBy, TypeInv, TypeOK
<1>16. ASSUME NEW c \in Conns, PollAgain(c) PROVE EntersBy(x)
  BY <1>16 DEF PollAgain, EntersBy, TypeInv, TypeOK
<1>17. ASSUME NEW c \in Conns, PollTimesOut(c) PROVE EntersBy(x)
  BY <1>17 DEF PollTimesOut, WaitReturns, EntersBy, TypeInv, TypeOK
<1>18. ASSUME NEW c \in Conns, ForgetRequest(c) PROVE EntersBy(x)
  BY <1>18 DEF ForgetRequest, ClientLeaves, RequestsWithout, EntersBy,
     TypeInv, TypeOK
<1>19. ASSUME NEW c \in Conns, HostEnter(c) PROVE EntersBy(x)
  BY <1>19 DEF HostEnter, EntersBy, TypeInv, TypeOK
<1>20. ASSUME NEW c \in Conns, HostTooLate(c) PROVE EntersBy(x)
  BY <1>20 DEF HostTooLate, EntersBy, TypeInv, TypeOK
<1>21. ASSUME NEW c \in Conns, TakeRequest(c) PROVE EntersBy(x)
  BY <1>21 DEF TakeRequest, RequestsWithout, EntersBy, TypeInv, TypeOK
<1>22. ASSUME NEW c \in Conns, LinkClient(c) PROVE EntersBy(x)
  BY <1>22 DEF LinkClient, EntersBy, TypeInv, TypeOK
<1>23. ASSUME NEW c \in Conns, LinkBack(c) PROVE EntersBy(x)
  BY <1>23 DEF LinkBack, EntersBy, TypeInv, TypeOK
<1>24. ASSUME NEW c \in Conns, DataEnter(c) PROVE EntersBy(x)
  BY <1>24 DEF DataEnter, ClientOf, EntersBy, TypeInv, TypeOK
<1>25. ASSUME NEW c \in Conns, CleanupAsHost(c) PROVE EntersBy(x)
  BY <1>25 DEF CleanupAsHost, Unregistered, EntersBy, TypeInv, TypeOK
<1>26. ASSUME NEW c \in Conns, CleanupAsMember(c) PROVE EntersBy(x)
  BY <1>26 DEF CleanupAsMember, EntersBy, TypeInv, TypeOK
<1>27. ASSUME NEW c \in Conns, CleanupWithoutRoom(c) PROVE EntersBy(x)
  BY <1>27 DEF CleanupWithoutRoom, EntersBy, TypeInv, TypeOK
<1>28. ASSUME NEW c \in Conns, CloseOwn(c) PROVE EntersBy(x)
  BY <1>28 DEF CloseOwn, EntersBy, TypeInv, TypeOK
<1>29. ASSUME NEW c \in Conns, ClientRelayEnds(c) PROVE EntersBy(x)
  BY <1>29 DEF ClientRelayEnds, ClientLeaves, EntersBy, TypeInv, TypeOK
<1>30. ASSUME NEW c \in Conns, HostSignalEnds(c) PROVE EntersBy(x)
  BY <1>30 DEF HostSignalEnds, EntersBy, TypeInv, TypeOK
<1>31. ASSUME NEW c \in Conns, DataRelayEnds(c) PROVE EntersBy(x)
  BY <1>31 DEF DataRelayEnds, EntersBy, TypeInv, TypeOK
<1>32. CASE UNCHANGED <<pc>>
  BY <1>32 DEF EntersBy
<1> QED
  BY <1>1, <1>2, <1>3, <1>4, <1>5, <1>6, <1>7, <1>8, <1>9, <1>10, <1>11,
     <1>12, <1>13, <1>14, <1>15, <1>16, <1>17, <1>18, <1>19, <1>20, <1>21,
     <1>22, <1>23, <1>24, <1>25, <1>26, <1>27, <1>28, <1>29, <1>30, <1>31, <1>32
     DEF Next, Arrive, Proceed, StopRelaying, ClientStep, HostStep, LinkStep,
     CleanupStep, EvictStep, SweepStep, Age, vars, CreateFresh, ReuseHostless,
     EvictBegin, CloseOther, PeerLeaves, EvictClose, EvictFinish, UnusedScan,
     UnusedPrune, IdleScan, IdleDelete, IdleClose, Expire, BecomeIdle,
     ForgetReason

\* The only steps that set the peer of a client.
PeerSetBy(x) ==
    peer'[x] # peer[x] => PollFinds(x) \/ WaitFails(x) \/ PollTimesOut(x)

LEMMA ClientPeersSet ==
    ASSUME TypeInv, NEW x \in ClientConns, [Next]_vars
    PROVE  PeerSetBy(x)
<1>1. ASSUME NEW code \in Codes, Arrive(code) PROVE PeerSetBy(x)
  BY <1>1, RolesAssumption, DataPlaces DEF Arrive, Allocate, CreateFresh,
     ReuseHostless, EvictBegin, ClientJoin, ClientMissesRoom, HostJoin,
     HostRefused, DataJoin, DataRefused, PeerSetBy, TypeInv, TypeOK
<1>2. ASSUME NEW c \in Conns, ClientTurnedAway(c) \/ ClientStep(c)
      PROVE  PeerSetBy(x)
  BY <1>2, RolesAssumption, DataPlaces DEF ClientStep, WaitReturns,
     ClientTurnedAway, ClientEnter, ClientRefused, RegisterRequest,
     RegisterNilEntry, Announce, WaitFails, WaitLooksUp, PollFinds, PollAgain,
     PollTimesOut, ForgetRequest, PeerSetBy, TypeInv, TypeOK
<1>3. ASSUME NEW c \in Conns, HostStep(c) \/ LinkStep(c) \/ DataEnter(c)
      PROVE  PeerSetBy(x)
  BY <1>3, RolesAssumption, DataPlaces DEF HostStep, LinkStep, HostEnter,
     HostTooLate, TakeRequest, LinkClient, LinkBack, DataEnter, PeerSetBy,
     TypeInv, TypeOK
<1>4. ASSUME NEW c \in Conns, CleanupStep(c) PROVE PeerSetBy(x)
  BY <1>4, RolesAssumption, DataPlaces DEF CleanupStep, CleanupAsHost,
     CleanupAsMember, CleanupWithoutRoom, CloseOther, CloseOwn, PeerSetBy,
     TypeInv, TypeOK
<1>5. ASSUME NEW c \in Conns, StopRelaying(c) \/ PeerLeaves(c)
      PROVE  PeerSetBy(x)
  BY <1>5, RolesAssumption, DataPlaces DEF StopRelaying, ClientRelayEnds,
     HostSignalEnds, DataRelayEnds, PeerLeaves, PeerSetBy, TypeInv, TypeOK
<1>6. ASSUME NEW p \in Creators, EvictStep(p) PROVE PeerSetBy(x)
  BY <1>6, RolesAssumption, DataPlaces DEF EvictStep, EvictClose,
     EvictFinish, PeerSetBy, TypeInv, TypeOK
<1>7. ASSUME SweepStep PROVE PeerSetBy(x)
  BY <1>7, RolesAssumption, DataPlaces DEF SweepStep, UnusedScan,
     UnusedPrune, IdleScan, IdleDelete, IdleClose, PeerSetBy, TypeInv, TypeOK
<1>8. ASSUME Age PROVE PeerSetBy(x)
  BY <1>8, RolesAssumption, DataPlaces DEF Age, Expire, BecomeIdle,
     ForgetReason, PeerSetBy, TypeInv, TypeOK
<1>9. CASE UNCHANGED vars
  BY <1>9 DEF vars, PeerSetBy, TypeInv, TypeOK
<1> QED
  BY <1>1, <1>2, <1>3, <1>4, <1>5, <1>6, <1>7, <1>8, <1>9 DEF Next, Proceed

\* What a write to one entry of one room's map does to every entry.
LEMMA NestedUpdate ==
    ASSUME NEW A, NEW B, NEW V, NEW f \in [A -> [B -> V]], NEW a \in A, NEW b \in B,
           NEW v, NEW x \in A, NEW y \in B
    PROVE  [f EXCEPT ![a][b] = v][x][y] = IF x = a /\ y = b THEN v ELSE f[x][y]
OBVIOUS

\* Only a client's own nil entry is new to a map, and no entry is ever removed.
LEMMA EntriesStep ==
    ASSUME TypeInv, PairInv, [Next]_vars
    PROVE  EntriesOfMembers'
<1> SUFFICES ASSUME NEW r \in RoomObjs, NEW c \in ClientConns,
                    ClientsToHostConnections'[r][c] # Absent
             PROVE  room'[c] = r /\ pc'[c] \notin BeforeEntry
  BY DEF EntriesOfMembers
<1>1. Forward
  BY ForwardStep DEF PairInv
<1>2. CASE ClientsToHostConnections[r][c] # Absent
  BY <1>1, <1>2 DEF PairInv, EntriesOfMembers, Forward, BeforeEntry, BeforeRequest
<1>3. CASE ClientsToHostConnections[r][c] = Absent
  <2>1. PICK x \in Conns : RegisterNilEntry(x) \/ LinkClient(x)
    BY <1>3, EntriesChange
  <2>2. CASE RegisterNilEntry(x)
    <3>1. x \in ClientConns /\ room[x] \in RoomObjs
      BY <2>2, ClientPlaces DEF RegisterNilEntry
    <3>2. x = c /\ room[x] = r
      BY <1>3, <2>2, <3>1 DEF RegisterNilEntry, TypeInv, TypeOK
    <3> QED
      BY <2>2, <3>1, <3>2
      DEF RegisterNilEntry, BeforeEntry, BeforeRequest, BeforeRoom, TypeInv, TypeOK
  <2>3. CASE LinkClient(x)
    <3>1. x \in DataConns /\ room[x] \in RoomObjs /\ peer[x] \in ClientConns
      BY <2>3, DataPlaces DEF LinkClient
    <3>2. ~(room[x] = r /\ peer[x] = c)
      BY <1>3, <2>3 DEF LinkClient
    <3>3. ClientsToHostConnections'[r][c] = ClientsToHostConnections[r][c]
      BY <2>3, <3>1, <3>2, NestedUpdate DEF LinkClient, TypeInv, TypeOK
    <3> QED
      BY <1>3, <3>3
  <2> QED
    BY <2>1, <2>2, <2>3
<1> QED
  BY <1>2, <1>3

\* Only a client's own registration puts a request into a map.
LEMMA RequestAddedBy ==
    ASSUME TypeInv, [Next]_vars, NEW r \in RoomObjs, NEW q \in Requests,
           NEW c \in ClientConns,
           RequestedConnectionsMap'[r][q] = c, RequestedConnectionsMap[r][q] # c
    PROVE  RegisterRequest(c, q) /\ room[c] = r
<1>1. PICK x \in Conns : \/ \E p \in Requests : RegisterRequest(x, p)
                         \/ ForgetRequest(x)
                         \/ TakeRequest(x)
  BY RequestsChange
<1>2. ASSUME NEW p \in Requests, RegisterRequest(x, p)
      PROVE  RegisterRequest(c, q) /\ room[c] = r
  <2>1. x \in ClientConns /\ room[x] \in RoomObjs
    BY <1>2, ClientPlaces DEF RegisterRequest
  <2>2. x = c /\ room[x] = r /\ p = q
    BY <1>2, <2>1 DEF RegisterRequest, TypeInv, TypeOK
  <2> QED
    BY <1>2, <2>2
<1>3. CASE ForgetRequest(x)
  <2>1. gameId[x] \in Codes /\ request[x] \in Requests
    BY <1>3, ClientPlaces DEF ForgetRequest
  <2>2. Rooms[gameId[x]] \in RoomObjs \cup {Absent}
    BY <2>1 DEF TypeInv, TypeOK
  <2> QED
    BY <1>3, <2>1, <2>2, SentinelsAssumption
    DEF ForgetRequest, RequestsWithout, TypeInv, TypeOK
<1>4. CASE TakeRequest(x)
  <2>1. room[x] \in RoomObjs /\ request[x] \in Requests
    BY <1>4, DataPlaces DEF TakeRequest
  <2>2. RequestedConnectionsMap' = RequestsWithout(room[x], request[x])
    BY <1>4 DEF TakeRequest
  <2>3. RequestedConnectionsMap'[r][q] \in {RequestedConnectionsMap[r][q], Absent}
    BY <2>1, <2>2, NestedUpdate DEF RequestsWithout, TypeInv, TypeOK
  <2> QED
    BY <2>3, SentinelsAssumption DEF Conns
<1> QED
  BY <1>1, <1>2, <1>3, <1>4

LEMMA RequestsStep ==
    ASSUME TypeInv, PairInv, [Next]_vars
    PROVE  RequestsOfMembers'
<1> SUFFICES ASSUME NEW r \in RoomObjs, NEW q \in Requests, NEW c \in ClientConns,
                    RequestedConnectionsMap'[r][q] = c
             PROVE  room'[c] = r /\ request'[c] = q /\ pc'[c] \notin BeforeRequest
  BY DEF RequestsOfMembers
<1>1. Forward
  BY ForwardStep DEF PairInv
<1>2. CASE RequestedConnectionsMap[r][q] = c
  BY <1>1, <1>2 DEF PairInv, RequestsOfMembers, Forward, BeforeRequest
<1>3. CASE RequestedConnectionsMap[r][q] # c
  <2>1. RegisterRequest(c, q) /\ room[c] = r
    BY <1>3, RequestAddedBy
  <2> QED
    BY <2>1 DEF RegisterRequest, BeforeRequest, BeforeRoom, TypeInv, TypeOK
<1> QED
  BY <1>2, <1>3

\* A request that is taken is one of a member.
LEMMA TakersStep ==
    ASSUME TypeInv, PairInv, [Next]_vars
    PROVE  TakersMatchMembers'
<1> SUFFICES ASSUME NEW d \in DataConns, pc'[d] = "link"
             PROVE  /\ room'[peer'[d]] = room'[d]
                    /\ pc'[peer'[d]] \notin BeforeRequest
  BY DEF TakersMatchMembers
<1>1. Forward
  BY ForwardStep DEF PairInv
<1>2. CASE pc[d] = "link"
  <2>1. peer[d] \in ClientConns
    BY <1>2, DataPlaces
  <2> QED
    BY <1>1, <1>2, <2>1
    DEF PairInv, TakersMatchMembers, Forward, BeforeRequest
<1>3. CASE TakeRequest(d)
  <2>1. room[d] \in RoomObjs /\ request[d] \in Requests
    BY <1>3, DataPlaces DEF TakeRequest
  <2>2. PICK c \in ClientConns : /\ RequestedConnectionsMap[room[d]][request[d]] = c
                                 /\ peer' = [peer EXCEPT ![d] = c]
    BY <1>3, <2>1 DEF TakeRequest, TypeInv, TypeOK
  <2>3. room[c] = room[d] /\ pc[c] \notin BeforeRequest
    BY <2>1, <2>2 DEF PairInv, RequestsOfMembers
  <2>4. peer'[d] = c /\ room' = room
    BY <1>3, <2>2 DEF TakeRequest, TypeInv, TypeOK
  <2> QED
    BY <1>1, <2>3, <2>4 DEF Forward
<1> QED
  BY <1>2, <1>3, PlacesEntered DEF EntersBy

\* A link names the data connection that made it.
LEMMA LinksStep ==
    ASSUME TypeInv, PairInv, [Next]_vars
    PROVE  LinkedByTaker'
<1> SUFFICES ASSUME NEW r \in RoomObjs, NEW c \in ClientConns, NEW d \in DataConns,
                    ClientsToHostConnections'[r][c] = d
             PROVE  peer'[d] = c /\ room'[d] = r /\ pc'[d] \notin BeforeLink
  BY DEF LinkedByTaker, BeforeLink
<1>1. Forward
  BY ForwardStep DEF PairInv
<1>2. CASE ClientsToHostConnections[r][c] = d
  BY <1>1, <1>2 DEF PairInv, LinkedByTaker, Forward, BeforeLink
<1>3. CASE ClientsToHostConnections[r][c] # d
  <2>1. PICK x \in Conns : RegisterNilEntry(x) \/ LinkClient(x)
    BY <1>3, EntriesChange
  <2>2. CASE RegisterNilEntry(x)
    <3>1. x \in ClientConns /\ room[x] \in RoomObjs
      BY <2>2, ClientPlaces DEF RegisterNilEntry
    <3> QED
      BY <1>3, <2>2, <3>1, SentinelsAssumption
      DEF RegisterNilEntry, Conns, TypeInv, TypeOK
  <2>3. CASE LinkClient(x)
    <3>1. x \in DataConns /\ room[x] \in RoomObjs /\ peer[x] \in ClientConns
      BY <2>3, DataPlaces DEF LinkClient
    <3>2. x = d /\ room[x] = r /\ peer[x] = c
      BY <1>3, <2>3, <3>1 DEF LinkClient, TypeInv, TypeOK
    <3> QED
      BY <1>3, <2>3, <3>1, <3>2 DEF LinkClient, BeforeLink, TypeInv, TypeOK
  <2> QED
    BY <2>1, <2>2, <2>3
<1> QED
  BY <1>2, <1>3

\* No step links a client but that of the data connection that took its request.
LEMMA LinkedBy ==
    ASSUME TypeInv, [Next]_vars, NEW c \in ClientConns, Linked(c)', ~Linked(c)
    PROVE  \E d \in DataConns : LinkClient(d) /\ peer[d] = c
<1>1. PICK r \in RoomObjs : ClientsToHostConnections'[r][c] \in DataConns
  BY DEF Linked
<1>2. ClientsToHostConnections[r][c] \notin DataConns
  BY DEF Linked
<1>3. PICK x \in Conns : RegisterNilEntry(x) \/ LinkClient(x)
  BY <1>1, <1>2, EntriesChange
<1>4. CASE RegisterNilEntry(x)
  <2>1. x \in ClientConns /\ room[x] \in RoomObjs
    BY <1>4, ClientPlaces DEF RegisterNilEntry
  <2> QED
    BY <1>1, <1>2, <1>4, <2>1, SentinelsAssumption
    DEF RegisterNilEntry, Conns, TypeInv, TypeOK
<1>5. CASE LinkClient(x)
  <2>1. x \in DataConns /\ room[x] \in RoomObjs /\ peer[x] \in ClientConns
    BY <1>5, DataPlaces DEF LinkClient
  <2>2. ClientsToHostConnections' =
            [ClientsToHostConnections EXCEPT ![room[x]][peer[x]] = x]
    BY <1>1, <1>2, <1>5 DEF LinkClient
  <2>3. peer[x] = c
    BY <1>1, <1>2, <2>1, <2>2, NestedUpdate DEF TypeInv, TypeOK
  <2> QED
    BY <1>5, <2>1, <2>3
<1> QED
  BY <1>3, <1>4, <1>5

\* A data connection that is about to link keeps the only ticket of its client.
LEMMA TakersKeepTicket ==
    ASSUME TypeInv, PairInv, [Next]_vars, NEW d \in DataConns, pc'[d] = "link"
    PROVE  ~Linked(peer[d])'
<1>1. PICK c \in ClientConns : peer'[d] = c /\ ~Linked(c)
  <2>1. CASE pc[d] = "link"
    <3>1. peer[d] \in ClientConns /\ peer'[d] = peer[d]
      BY <2>1, ForwardStep, DataPlaces DEF PairInv, Forward
    <3> QED
      BY <2>1, <3>1 DEF PairInv, OneTicket
  <2>2. CASE TakeRequest(d)
    <3>1. room[d] \in RoomObjs /\ request[d] \in Requests
      BY <2>2, DataPlaces DEF TakeRequest
    <3>2. PICK c \in ClientConns :
                /\ RequestedConnectionsMap[room[d]][request[d]] = c
                /\ peer' = [peer EXCEPT ![d] = c]
      BY <2>2, <3>1 DEF TakeRequest, TypeInv, TypeOK
    <3>3. ~Linked(c) /\ peer'[d] = c
      BY <3>1, <3>2 DEF PairInv, OneTicket, TypeInv, TypeOK
    <3> QED
      BY <3>3
  <2> QED
    BY <2>1, <2>2, PlacesEntered DEF EntersBy
<1>2. ASSUME NEW x \in DataConns, LinkClient(x), peer[x] = c
      PROVE  FALSE
  <2>1. x # d /\ pc[d] = "link" /\ pc[x] = "link"
    BY <1>2, PlacesEntered DEF EntersBy, LinkClient, TakeRequest, TypeInv, TypeOK
  <2>2. peer'[d] = peer[d]
    BY <1>2 DEF LinkClient
  <2> QED
    BY <1>1, <1>2, <2>1, <2>2 DEF PairInv, OneTicket
<1>3. ~Linked(c)'
  BY <1>1, <1>2, LinkedBy
<1> QED
  BY <1>1, <1>3 DEF Linked

\* No two data connections hold the ticket of the same client.
LEMMA TakersDiffer ==
    ASSUME TypeInv, PairInv, [Next]_vars, NEW d \in DataConns, NEW x \in DataConns,
           pc'[d] = "link", pc'[x] = "link", peer'[d] = peer'[x]
    PROVE  d = x
<1>1. ASSUME NEW t \in DataConns, NEW o \in DataConns, TakeRequest(t),
             pc'[t] = "link", pc[o] = "link", peer'[t] = peer'[o]
      PROVE  t = o
  <2>1. room[t] \in RoomObjs /\ request[t] \in Requests /\ peer[o] \in ClientConns
    BY <1>1, DataPlaces DEF TakeRequest
  <2>2. PICK c \in ClientConns :
              /\ RequestedConnectionsMap[room[t]][request[t]] = c
              /\ peer' = [peer EXCEPT ![t] = c]
    BY <1>1, <2>1 DEF TakeRequest, TypeInv, TypeOK
  <2>3. peer[o] # c
    BY <1>1, <2>1, <2>2 DEF PairInv, OneTicket
  <2> QED
    BY <1>1, <2>2, <2>3 DEF TypeInv, TypeOK
<1>2. CASE pc[d] = "link" /\ pc[x] = "link"
  BY <1>2, ForwardStep DEF PairInv, OneTicket, Forward
<1>3. ASSUME TakeRequest(d), TakeRequest(x) PROVE d = x
  BY <1>3 DEF TakeRequest, TypeInv, TypeOK
<1> QED
  BY <1>1, <1>2, <1>3, PlacesEntered DEF EntersBy

\* A client whose request is in a map has no other ticket.
LEMMA RequestersKeepTicket ==
    ASSUME TypeInv, PairInv, [Next]_vars, NEW r \in RoomObjs, NEW q \in Requests,
           NEW c \in ClientConns, RequestedConnectionsMap'[r][q] = c
    PROVE  /\ ~Linked(c)'
           /\ \A d \in DataConns : ~(pc'[d] = "link" /\ peer'[d] = c)
<1>1. CASE RequestedConnectionsMap[r][q] = c
  <2>1. ~Linked(c) /\ \A d \in DataConns : ~(pc[d] = "link" /\ peer[d] = c)
    BY <1>1 DEF PairInv, OneTicket
  <2>2. ~Linked(c)'
    <3>1. ASSUME Linked(c)' PROVE \E d \in DataConns : LinkClient(d) /\ peer[d] = c
      BY <2>1, <3>1, LinkedBy
    <3> QED
      BY <2>1, <3>1 DEF LinkClient
  <2>3. ASSUME NEW d \in DataConns, pc'[d] = "link", peer'[d] = c
        PROVE  FALSE
    <3>1. CASE pc[d] = "link"
      BY <2>1, <2>3, <3>1, ForwardStep DEF PairInv, Forward
    <3>2. CASE TakeRequest(d)
      <4>1. room[d] \in RoomObjs /\ request[d] \in Requests
        BY <3>2, DataPlaces DEF TakeRequest
      <4>2. /\ RequestedConnectionsMap[room[d]][request[d]] = c
            /\ RequestedConnectionsMap' = RequestsWithout(room[d], request[d])
        BY <2>3, <3>2, <4>1 DEF TakeRequest, TypeInv, TypeOK
      <4>3. room[d] = r /\ request[d] = q
        BY <1>1, <4>1, <4>2 DEF PairInv, RequestsOfMembers
      <4>4. RequestedConnectionsMap'[r][q] = Absent
        BY <4>2, <4>3 DEF RequestsWithout, TypeInv, TypeOK
      <4> QED
        BY <4>4, SentinelsAssumption DEF Conns
    <3> QED
      BY <2>3, <3>1, <3>2, PlacesEntered DEF EntersBy
  <2> QED
    BY <2>2, <2>3
<1>2. CASE RequestedConnectionsMap[r][q] # c
  <2>1. RegisterRequest(c, q)
    BY <1>2, RequestAddedBy
  <2>2. ~Linked(c)
    BY <2>1, SentinelsAssumption
    DEF Linked, RegisterRequest, PairInv, EntriesOfMembers, BeforeEntry,
        BeforeRequest, Conns
  <2>3. ~Linked(c)'
    BY <2>1, <2>2 DEF Linked, RegisterRequest
  <2>4. ASSUME NEW d \in DataConns, pc'[d] = "link", peer'[d] = c
        PROVE  FALSE
    BY <2>1, <2>4, RolesAssumption
    DEF RegisterRequest, PairInv, TakersMatchMembers, BeforeRequest, TypeInv, TypeOK
  <2> QED
    BY <2>3, <2>4
<1> QED
  BY <1>1, <1>2

LEMMA TicketsStep ==
    ASSUME TypeInv, PairInv, [Next]_vars
    PROVE  OneTicket'
<1>1. \A d \in DataConns : pc'[d] = "link" => ~Linked(peer[d])'
  BY TakersKeepTicket
<1>2. \A r \in RoomObjs, q \in Requests, c \in ClientConns :
        RequestedConnectionsMap'[r][q] = c =>
            /\ ~Linked(c)'
            /\ \A d \in DataConns : ~(pc'[d] = "link" /\ peer'[d] = c)
  BY RequestersKeepTicket
<1>3. \A d, x \in DataConns :
        pc'[d] = "link" /\ pc'[x] = "link" /\ peer'[d] = peer'[x] => d = x
  BY TakersDiffer
<1> QED
  BY <1>1, <1>2, <1>3 DEF OneTicket

\* A link, once made, stays.
LEMMA LinkKept ==
    ASSUME TypeInv, PairInv, [Next]_vars, NEW r \in RoomObjs, NEW c \in ClientConns,
           NEW d \in DataConns, ClientsToHostConnections[r][c] = d
    PROVE  ClientsToHostConnections'[r][c] = d
<1> SUFFICES ASSUME ClientsToHostConnections'[r][c] # d PROVE FALSE
  OBVIOUS
<1>1. PICK x \in Conns : RegisterNilEntry(x) \/ LinkClient(x)
  BY EntriesChange
<1>2. CASE RegisterNilEntry(x)
  <2>1. x \in ClientConns /\ room[x] \in RoomObjs
    BY <1>2, ClientPlaces DEF RegisterNilEntry
  <2>2. x = c
    BY <1>2, <2>1 DEF RegisterNilEntry, TypeInv, TypeOK
  <2> QED
    BY <1>2, <2>2, SentinelsAssumption
    DEF RegisterNilEntry, PairInv, EntriesOfMembers, BeforeEntry, Conns
<1>3. CASE LinkClient(x)
  <2>1. x \in DataConns /\ room[x] \in RoomObjs /\ peer[x] \in ClientConns
    BY <1>3, DataPlaces DEF LinkClient
  <2>2. ClientsToHostConnections' =
            [ClientsToHostConnections EXCEPT ![room[x]][peer[x]] = x]
    BY <1>3 DEF LinkClient
  <2>3. peer[x] = c
    BY <2>1, <2>2, NestedUpdate DEF TypeInv, TypeOK
  <2> QED
    BY <1>3, <2>1, <2>3 DEF LinkClient, PairInv, OneTicket, Linked
<1> QED
  BY <1>1, <1>2, <1>3

\* So does its other side.
LEMMA BackLinkKept ==
    ASSUME TypeInv, PairInv, [Next]_vars, NEW r \in RoomObjs, NEW c \in ClientConns,
           NEW d \in DataConns, HostToClientsConnections[r][d] = c
    PROVE  HostToClientsConnections'[r][d] = c
<1> SUFFICES ASSUME HostToClientsConnections'[r][d] # c PROVE FALSE
  OBVIOUS
<1>1. PICK x \in Conns : LinkBack(x)
  BY BackLinksChange
<1>2. x \in DataConns /\ room[x] \in RoomObjs
  BY <1>1, DataPlaces DEF LinkBack
<1>3. x = d
  BY <1>1, <1>2 DEF LinkBack, TypeInv, TypeOK
<1> QED
  BY <1>1, <1>3 DEF LinkBack, PairInv, SidesAgree

\* The second side of a link is made from the first.
LEMMA SidesStep ==
    ASSUME TypeInv, PairInv, [Next]_vars
    PROVE  SidesAgree'
<1>1. Forward
  BY ForwardStep DEF PairInv
<1>2. ASSUME NEW d \in DataConns, pc'[d] = "linkBack"
      PROVE  ClientsToHostConnections'[room'[d]][peer'[d]] = d
  <2>1. CASE pc[d] = "linkBack"
    <3>1. room[d] \in RoomObjs /\ peer[d] \in ClientConns
      BY <2>1, DataPlaces
    <3>2. ClientsToHostConnections[room[d]][peer[d]] = d
      BY <2>1 DEF PairInv, SidesAgree
    <3>3. room'[d] = room[d] /\ peer'[d] = peer[d]
      BY <1>1, <2>1 DEF Forward
    <3> QED
      BY <3>1, <3>2, <3>3, LinkKept
  <2>2. CASE LinkClient(d)
    <3>1. room[d] \in RoomObjs /\ peer[d] \in ClientConns
      BY <2>2, DataPlaces DEF LinkClient
    <3> QED
      BY <1>2, <2>2, <3>1, NestedUpdate DEF LinkClient, TypeInv, TypeOK
  <2> QED
    BY <1>2, <2>1, <2>2, PlacesEntered DEF EntersBy
<1>3. ASSUME NEW r \in RoomObjs, NEW c \in ClientConns, NEW d \in DataConns,
             HostToClientsConnections'[r][d] = c
      PROVE  /\ peer'[d] = c
             /\ room'[d] = r
             /\ ClientsToHostConnections'[r][c] = d
             /\ pc'[d] \notin {"none", "take", "link", "linkBack"}
  <2>1. CASE HostToClientsConnections[r][d] = c
    BY <1>1, <2>1, LinkKept
    DEF PairInv, SidesAgree, Forward, BeforeLink, BeforeBack
  <2>2. CASE HostToClientsConnections[r][d] # c
    <3>1. PICK x \in Conns : LinkBack(x)
      BY <1>3, <2>2, BackLinksChange
    <3>2. x \in DataConns /\ room[x] \in RoomObjs
      BY <3>1, DataPlaces DEF LinkBack
    <3>3. x = d /\ room[d] = r /\ peer[d] = c
      BY <1>3, <2>2, <3>1, <3>2 DEF LinkBack, TypeInv, TypeOK
    <3>4. ClientsToHostConnections[r][c] = d
      BY <3>1, <3>3 DEF LinkBack, PairInv, SidesAgree
    <3> QED
      BY <3>1, <3>3, <3>4 DEF LinkBack, TypeInv, TypeOK
  <2> QED
    BY <2>1, <2>2
<1> QED
  BY <1>2, <1>3 DEF SidesAgree

\* The peer that a forwarding loop holds is the one its map holds.
LEMMA LoopsStep ==
    ASSUME TypeInv, PairInv, [Next]_vars
    PROVE  LoopsFollowMaps'
<1>1. Forward
  BY ForwardStep DEF PairInv
<1>2. ASSUME NEW c \in ClientConns, peer'[c] # Nil
      PROVE  /\ room'[c] \in RoomObjs
             /\ ClientsToHostConnections'[room'[c]][c] = peer'[c]
  <2>1. CASE peer'[c] = peer[c]
    <3>1. /\ room[c] \in RoomObjs
          /\ peer[c] \in DataConns
          /\ ClientsToHostConnections[room[c]][c] = peer[c]
      BY <1>2, <2>1 DEF PairInv, LoopsFollowMaps, TypeInv, RolesOK
    <3>2. room'[c] = room[c]
      BY <1>1, <3>1, SentinelsAssumption
      DEF PairInv, EntriesOfMembers, Forward, BeforeEntry, BeforeRequest, Conns
    <3> QED
      BY <2>1, <3>1, <3>2, LinkKept
  <2>2. CASE PollFinds(c)
    <3>1. polled[c] \in RoomObjs
      BY <2>2, ClientPlaces DEF PollFinds
    <3>2. room[c] = polled[c]
      BY <2>2, <3>1, SentinelsAssumption
      DEF PollFinds, PairInv, EntriesOfMembers, Conns
    <3> QED
      BY <2>2, <3>1, <3>2 DEF PollFinds, WaitReturns, TypeInv, TypeOK
  <2>3. CASE WaitFails(c) \/ PollTimesOut(c)
    BY <1>2, <2>3 DEF WaitFails, PollTimesOut, WaitReturns, TypeInv, TypeOK
  <2> QED
    BY <2>1, <2>2, <2>3, ClientPeersSet DEF PeerSetBy
<1>3. ASSUME NEW c \in ClientConns, pc'[c] = "relaying"
      PROVE  peer'[c] # Nil
  <2>1. CASE pc[c] = "relaying"
    BY <2>1, ClientPeersSet
    DEF PeerSetBy, PollFinds, WaitFails, PollTimesOut, PairInv, LoopsFollowMaps
  <2>2. CASE ForgetRequest(c)
    BY <1>3, <2>2 DEF ForgetRequest, ClientLeaves, TypeInv, TypeOK
  <2> QED
    BY <1>3, <2>1, <2>2, PlacesEntered, RolesAssumption
    DEF EntersBy, HostEnter, DataEnter
<1>4. ASSUME NEW d \in DataConns, pc'[d] = "relaying"
      PROVE  \E r \in RoomObjs : HostToClientsConnections'[r][d] = peer'[d]
  <2>1. CASE pc[d] = "relaying"
    <3>1. peer'[d] = peer[d]
      BY <1>1, <2>1 DEF Forward
    <3>2. PICK r \in RoomObjs : HostToClientsConnections[r][d] = peer[d]
      BY <2>1 DEF PairInv, LoopsFollowMaps
    <3>3. HostToClientsConnections'[r][d] = peer[d]
      <4>1. peer[d] \in ClientConns
        BY <3>2, SentinelsAssumption DEF TypeInv, TypeOK, RolesOK
      <4> QED
        BY <3>2, <4>1, BackLinkKept
    <3> QED
      BY <3>1, <3>3
  <2>2. CASE DataEnter(d)
    <3>1. gameId[d] \in Codes
      BY <2>2, CodeKnown DEF DataEnter
    <3> QED
      BY <1>4, <2>2, <3>1 DEF DataEnter, ClientOf, TypeInv, TypeOK
  <2> QED
    BY <1>4, <2>1, <2>2, PlacesEntered, ClientPlaces, RolesAssumption
    DEF EntersBy, HostEnter, ForgetRequest
<1> QED
  BY <1>2, <1>3, <1>4 DEF LoopsFollowMaps

LEMMA PairStep ==
    ASSUME TypeInv, PairInv, [Next]_vars
    PROVE  PairInv'
BY EntriesStep, RequestsStep, TakersStep, LinksStep, TicketsStep, SidesStep,
   LoopsStep
DEF PairInv

LEMMA PairInit ==
    ASSUME Init
    PROVE  PairInv
BY SentinelsAssumption
DEF Init, PairInv, EntriesOfMembers, RequestsOfMembers, TakersMatchMembers,
    LinkedByTaker, OneTicket, SidesAgree, LoopsFollowMaps, Conns

LEMMA PairInductive == Spec => [](TypeInv /\ PairInv)
<1>1. Init => TypeInv /\ PairInv
  BY TypeInit, PairInit
<1>2. TypeInv /\ PairInv /\ [Next]_vars => (TypeInv /\ PairInv)'
  BY TypeStep, PairStep
<1> QED
  BY <1>1, <1>2, PTL DEF Spec

\* For any number of clients, data connections, rooms and requests, and even
\* when two requests draw the same id: the two ends of a tunnel forward to each
\* other.
THEOREM NoCrossedTunnelsHolds == Spec => []NoCrossedTunnels
<1>1. TypeInv /\ PairInv => NoCrossedTunnels
  <2> SUFFICES ASSUME TypeInv, PairInv, NEW c \in ClientConns, NEW d \in DataConns,
                      pc[c] = "relaying", pc[d] = "relaying"
               PROVE  peer[c] = d <=> peer[d] = c
    BY DEF NoCrossedTunnels
  <2>1. /\ room[c] \in RoomObjs
        /\ peer[c] \in DataConns
        /\ ClientsToHostConnections[room[c]][c] = peer[c]
    BY DEF PairInv, LoopsFollowMaps, TypeInv, RolesOK
  <2>2. PICK r \in RoomObjs : HostToClientsConnections[r][d] = peer[d]
    BY DEF PairInv, LoopsFollowMaps
  <2>3. ASSUME peer[c] = d PROVE peer[d] = c
    BY <2>1, <2>3 DEF PairInv, LinkedByTaker
  <2>4. ASSUME peer[d] = c PROVE peer[c] = d
    <3>1. ClientsToHostConnections[r][c] = d
      BY <2>2, <2>4 DEF PairInv, SidesAgree
    <3>2. room[c] = r
      BY <3>1, SentinelsAssumption DEF PairInv, EntriesOfMembers, Conns
    <3> QED
      BY <2>1, <3>1, <3>2
  <2> QED
    BY <2>3, <2>4
<1> QED
  BY <1>1, PairInductive, PTL

\* The mate of a client is the data connection that an entry of any room names.
MateMeaning ==
    \A c \in ClientConns :
        /\ Mate(c) \in DataConns \cup {Nil}
        /\ \A d \in DataConns :
            Mate(c) = d <=> \E r \in RoomObjs : ClientsToHostConnections[r][c] = d

LEMMA MatesAreLinks == TypeInv /\ PairInv => MateMeaning
<1> SUFFICES ASSUME TypeInv, PairInv, NEW c \in ClientConns
             PROVE  /\ Mate(c) \in DataConns \cup {Nil}
                    /\ \A d \in DataConns : Mate(c) = d <=>
                            \E r \in RoomObjs : ClientsToHostConnections[r][c] = d
  BY DEF MateMeaning
<1>1. Mate(c) \in DataConns \cup {Nil}
  BY DEF Mate, TypeInv, TypeOK
<1>2. ASSUME NEW d \in DataConns, Mate(c) = d
      PROVE  \E r \in RoomObjs : ClientsToHostConnections[r][c] = d
  BY <1>2, SentinelsAssumption DEF Mate, Conns, TypeInv, TypeOK
<1>3. ASSUME NEW d \in DataConns, NEW r \in RoomObjs,
             ClientsToHostConnections[r][c] = d
      PROVE  Mate(c) = d
  BY <1>3, SentinelsAssumption DEF Mate, Conns, PairInv, EntriesOfMembers
<1> QED
  BY <1>1, <1>2, <1>3

LEMMA MatesAreLinksNext ==
    ASSUME TypeInv, PairInv, [Next]_vars
    PROVE  MateMeaning'
<1>1. TypeInv' /\ PairInv'
  BY TypeStep, PairStep
<1>2. (TypeInv /\ PairInv => MateMeaning)'
  BY MatesAreLinks, PTL
<1> QED
  BY <1>1, <1>2

\* A client that is not newly linked keeps its mate.
LEMMA MateKept ==
    ASSUME TypeInv, PairInv, [Next]_vars, NEW c \in ClientConns,
           Linked(c)' => Linked(c)
    PROVE  Mate(c)' = Mate(c)
<1>1. MateMeaning
  BY MatesAreLinks
<1>2. /\ Mate(c)' \in DataConns \cup {Nil}
      /\ \A d \in DataConns : Mate(c)' = d <=>
            \E r \in RoomObjs : ClientsToHostConnections'[r][c] = d
  BY MatesAreLinksNext DEF MateMeaning
<1>3. CASE Mate(c) = Nil
  <2>1. ~Linked(c)
    BY <1>1, <1>3, SentinelsAssumption DEF MateMeaning, Linked, Conns
  <2> QED
    BY <1>2, <1>3, <2>1 DEF Linked
<1>4. CASE Mate(c) \in DataConns
  BY <1>1, <1>2, <1>4, LinkKept DEF MateMeaning
<1> QED
  BY <1>1, <1>3, <1>4 DEF MateMeaning

\* The maps of all rooms, and what clients read of them, implement a matching
\* whose pairs never change.
THEOREM MatchingRefined == Spec => MatchingSpec
<1>1. Init => Pairing!Init
  BY DEF Init, Pairing!Init, Mate
<1>2. ASSUME TypeInv, PairInv, [Next]_vars
      PROVE  [Pairing!Next]_[c \in ClientConns |-> Mate(c)]
  <2>1. CASE \A c \in ClientConns : Linked(c)' => Linked(c)
    BY <1>2, <2>1, MateKept
  <2>2. ASSUME NEW c \in ClientConns, Linked(c)', ~Linked(c)
        PROVE  \E d \in DataConns : Pairing!Match(c, d)
    <3>1. PICK d \in DataConns : LinkClient(d) /\ peer[d] = c
      BY <1>2, <2>2, LinkedBy
    <3>2. room[d] \in RoomObjs
      BY <1>2, <3>1, DataPlaces DEF LinkClient
    <3>3. ClientsToHostConnections' =
            [ClientsToHostConnections EXCEPT ![room[d]][c] = d]
      BY <2>2, <3>1 DEF LinkClient, Linked
    <3>4. Mate(c) = Nil
      BY <1>2, <2>2, MatesAreLinks DEF MateMeaning, Linked
    <3>5. Mate(c)' = d
      <4>1. MateMeaning'
        BY <1>2, MatesAreLinksNext
      <4>2. ClientsToHostConnections'[room[d]][c] = d
        BY <1>2, <3>2, <3>3, NestedUpdate DEF TypeInv, TypeOK
      <4> QED
        BY <3>2, <4>1, <4>2 DEF MateMeaning
    <3>6. ASSUME NEW other \in ClientConns PROVE Mate(other) # d
      <4>1. \A r \in RoomObjs : ClientsToHostConnections[r][other] # d
        BY <1>2, <3>1 DEF LinkClient, PairInv, LinkedByTaker
      <4> QED
        BY <1>2, <4>1, MatesAreLinks DEF MateMeaning
    <3>7. ASSUME NEW other \in ClientConns, other # c
          PROVE  Mate(other)' = Mate(other)
      <4>1. \A r \in RoomObjs : ClientsToHostConnections'[r][other]
                                    = ClientsToHostConnections[r][other]
        BY <1>2, <3>2, <3>3, <3>7, NestedUpdate DEF TypeInv, TypeOK
      <4>2. Linked(other)' => Linked(other)
        BY <4>1 DEF Linked
      <4> QED
        BY <1>2, <4>2, MateKept
    <3> QED
      BY <3>4, <3>5, <3>6, <3>7 DEF Pairing!Match
  <2> QED
    BY <2>1, <2>2 DEF Pairing!Next
<1> QED
  BY <1>1, <1>2, PairInductive, PTL DEF Spec, MatchingSpec, Pairing!Spec

=============================================================================
