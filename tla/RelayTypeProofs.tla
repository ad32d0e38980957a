-------------------------- MODULE RelayTypeProofs ---------------------------
(***************************************************************************)
(* Typing of Relay.  TypeOK is not inductive by itself: the value that a   *)
(* step reads depends on where its goroutine is (RolesOK) and on the       *)
(* locals it has set on the way there (LocalsOK).  One lemma per conjunct  *)
(* of TypeInv, with one step per action that can disturb it; the actions   *)
(* that leave its variables alone share the last step.                     *)
(***************************************************************************)
EXTENDS RelayInvariant, TLAPS

USE DEF Conns, Goto, Accept, Reject, CloseWebsocket, roomVars, ageVars, localVars,
        creatorVars, sweeperVars

\* A goroutine at work knows its code.
LEMMA CodeKnown ==
    ASSUME TypeInv, NEW c \in Conns, pc[c] \notin {"none", "done"}
    PROVE  gameId[c] \in Codes
BY DEF TypeInv, LocalsOK

\* Only clients are in the places of clients, and they know their room.
LEMMA ClientPlaces ==
    ASSUME TypeInv, NEW c \in Conns,
           pc[c] \in {"register", "nilEntry", "announce", "waiting", "polling",
                      "forget"}
    PROVE  /\ c \in ClientConns
           /\ gameId[c] \in Codes
           /\ room[c] \in RoomObjs
           /\ pc[c] # "register" => request[c] \in Requests
           /\ pc[c] = "polling" => polled[c] \in RoomObjs
BY DEF TypeInv, RolesOK, LocalsOK, HostLabels, DataLabels, UsesRoom, UsesRequest

\* Only data connections are in theirs, and they know what they answer.
LEMMA DataPlaces ==
    ASSUME TypeInv, NEW d \in Conns, pc[d] \in {"take", "link", "linkBack"}
    PROVE  /\ d \in DataConns
           /\ gameId[d] \in Codes
           /\ room[d] \in RoomObjs
           /\ request[d] \in Requests
           /\ pc[d] # "take" => peer[d] \in ClientConns
<1>1. d \in DataConns
  BY DEF TypeInv, RolesOK, HostLabels, ClientLabels
<1> QED
  BY <1>1, CodeKnown DEF TypeInv, LocalsOK

\* Taking a request out of a map of requests leaves one.
LEMMA RequestsWithoutType ==
    ASSUME TypeOK, NEW r \in RoomObjs, NEW q \in Requests
    PROVE  RequestsWithout(r, q) \in
                [RoomObjs -> [Requests -> ClientConns \cup {Absent}]]
BY DEF TypeOK, RequestsWithout

LEMMA MembersType ==
    ASSUME TypeOK, NEW r \in RoomObjs
    PROVE  Members(r) \subseteq Conns
BY DEF TypeOK, Members

LEMMA PartnersType ==
    ASSUME TypeOK, NEW r \in RoomObjs, NEW c \in Conns
    PROVE  Partners(r, c) \subseteq Conns
BY DEF TypeOK, Partners, EntryOrNil

\* Every step keeps the types.
LEMMA TypeOKStep ==
    ASSUME TypeInv, [Next]_vars
    PROVE  TypeOK'
<1>1. ASSUME NEW code \in Codes, NEW r \in RoomObjs, CreateFresh(code, r)
      PROVE  TypeOK'
  BY <1>1 DEF CreateFresh, Allocate, TypeInv, TypeOK, Labels, Reasons
<1>2. ASSUME NEW code \in Codes, NEW r \in RoomObjs, ReuseHostless(code, r)
      PROVE  TypeOK'
  BY <1>2 DEF ReuseHostless, Allocate, TypeInv, TypeOK, Labels, Reasons
<1>3. ASSUME NEW p \in Creators, NEW code \in Codes, EvictBegin(p, code)
      PROVE  TypeOK'
  BY <1>3 DEF EvictBegin, TypeInv, TypeOK, Labels, Reasons
<1>4. ASSUME NEW c \in ClientConns, NEW code \in Codes, ClientJoin(c, code)
      PROVE  TypeOK'
  BY <1>4 DEF ClientJoin, TypeInv, TypeOK, Labels, Reasons
<1>5. ASSUME NEW c \in ClientConns, NEW code \in Codes, ClientMissesRoom(c, code)
      PROVE  TypeOK'
  BY <1>5 DEF ClientMissesRoom, TypeInv, TypeOK, Labels, Reasons
<1>6. ASSUME NEW h \in HostConns, NEW code \in Codes, HostJoin(h, code)
      PROVE  TypeOK'
  BY <1>6 DEF HostJoin, Claimable, TypeInv, TypeOK, Labels, Reasons
<1>7. ASSUME NEW h \in HostConns, NEW code \in Codes, HostRefused(h, code)
      PROVE  TypeOK'
  <2>1. sock' \in [Conns -> {"none", "open", "gone"} \cup Reasons]
    BY <1>7 DEF HostRefused, Reasons, TypeInv, TypeOK
  <2>2. pc' \in [Conns -> Labels]
    BY <1>7 DEF HostRefused, Labels, TypeInv, TypeOK
  <2> QED
    BY <1>7, <2>1, <2>2 DEF HostRefused, TypeInv, TypeOK
<1>8. ASSUME NEW d \in DataConns, NEW code \in Codes, NEW q \in Requests, DataJoin(d, code, q)
      PROVE  TypeOK'
  BY <1>8 DEF DataJoin, TypeInv, TypeOK, Labels, Reasons
<1>9. ASSUME NEW d \in DataConns, NEW code \in Codes, NEW q \in Requests, DataRefused(d, code, q)
      PROVE  TypeOK'
  BY <1>9 DEF DataRefused, TypeInv, TypeOK, Labels, Reasons
<1>10. ASSUME NEW c \in Conns, ClientTurnedAway(c) PROVE TypeOK'
  BY <1>10 DEF ClientTurnedAway, TypeInv, TypeOK, Labels, Reasons
<1>11. ASSUME NEW c \in Conns, ClientEnter(c) PROVE TypeOK'
  BY <1>11, CodeKnown DEF ClientEnter, TypeInv, TypeOK, Labels
<1>12. ASSUME NEW c \in Conns, ClientRefused(c) PROVE TypeOK'
  BY <1>12 DEF ClientRefused, ClientLeaves, TypeInv, TypeOK, Labels, Reasons
<1>13. ASSUME NEW c \in Conns, NEW q \in Requests, RegisterRequest(c, q)
      PROVE  TypeOK'
  BY <1>13, ClientPlaces DEF RegisterRequest, TypeInv, TypeOK, Labels
<1>14. ASSUME NEW c \in Conns, RegisterNilEntry(c) PROVE TypeOK'
  BY <1>14 DEF RegisterNilEntry, TypeInv, TypeOK, Labels, Reasons
<1>15. ASSUME NEW c \in Conns, Announce(c) PROVE TypeOK'
  <2>1. <<gameId[c], request[c]>> \in Codes \X Requests
    BY <1>15, ClientPlaces DEF Announce
  <2>2. signalled' \in SUBSET (Codes \X Requests)
    BY <1>15, <2>1 DEF Announce, TypeInv, TypeOK
  <2>3. pc' \in [Conns -> Labels]
    BY <1>15 DEF Announce, ClientLeaves, Labels, TypeInv, TypeOK
  <2>4. NumberOfClientsConnected' \in Int
    BY <1>15 DEF Announce, ClientLeaves, TypeInv, TypeOK
  <2> QED
    BY <1>15, <2>2, <2>3, <2>4 DEF Announce, TypeInv, TypeOK
<1>16. ASSUME NEW c \in Conns, WaitFails(c) PROVE TypeOK'
  BY <1>16 DEF WaitFails, WaitReturns, TypeInv, TypeOK, Labels, Reasons
<1>17. ASSUME NEW c \in Conns, WaitLooksUp(c) PROVE TypeOK'
  BY <1>17, ClientPlaces DEF WaitLooksUp, TypeInv, TypeOK, Labels
<1>18. ASSUME NEW c \in Conns, PollFinds(c) PROVE TypeOK'
  BY <1>18 DEF PollFinds, WaitReturns, TypeInv, TypeOK, Labels, Reasons
<1>19. ASSUME NEW c \in Conns, PollAgain(c) PROVE TypeOK'
  BY <1>19 DEF PollAgain, TypeInv, TypeOK, Labels, Reasons
<1>20. ASSUME NEW c \in Conns, PollTimesOut(c) PROVE TypeOK'
  BY <1>20 DEF PollTimesOut, WaitReturns, TypeInv, TypeOK, Labels
<1>21. ASSUME NEW c \in Conns, ForgetRequest(c) PROVE TypeOK'
  <2>1. c \in ClientConns /\ gameId[c] \in Codes /\ request[c] \in Requests
    BY <1>21, ClientPlaces, pc[c] = "forget" DEF ForgetRequest
  <2>2. Rooms[gameId[c]] \in RoomObjs \cup {Absent}
    BY <2>1 DEF TypeInv, TypeOK
  <2>3. RequestedConnectionsMap' \in
            [RoomObjs -> [Requests -> ClientConns \cup {Absent}]]
    BY <1>21, <2>1, <2>2, RequestsWithoutType DEF ForgetRequest, TypeInv, TypeOK
  <2>4. pc' \in [Conns -> Labels]
    BY <1>21 DEF ForgetRequest, ClientLeaves, Labels, TypeInv, TypeOK
  <2>5. NumberOfClientsConnected' \in Int
    BY <1>21 DEF ForgetRequest, ClientLeaves, TypeInv, TypeOK
  <2> QED
    BY <1>21, <2>3, <2>4, <2>5 DEF ForgetRequest, TypeInv, TypeOK
<1>22. ASSUME NEW c \in Conns, HostEnter(c) PROVE TypeOK'
  BY <1>22 DEF HostEnter, TypeInv, TypeOK, Labels, Reasons
<1>23. ASSUME NEW c \in Conns, HostTooLate(c) PROVE TypeOK'
  BY <1>23 DEF HostTooLate, TypeInv, TypeOK, Labels, Reasons
<1>24. ASSUME NEW c \in Conns, TakeRequest(c) PROVE TypeOK'
  <2>1. c \in DataConns /\ room[c] \in RoomObjs /\ request[c] \in Requests
    BY <1>24, DataPlaces DEF TakeRequest
  <2>1a. RequestedConnectionsMap[room[c]][request[c]] \in ClientConns \cup {Absent}
    BY <2>1 DEF TypeInv, TypeOK
  <2>2. RequestedConnectionsMap' \in
            [RoomObjs -> [Requests -> ClientConns \cup {Absent}]]
    BY <1>24, <2>1, RequestsWithoutType DEF TakeRequest, TypeInv, TypeOK
  <2>3. peer' \in [Conns -> Conns \cup {Nil}]
    BY <1>24, <2>1, <2>1a DEF TakeRequest, TypeInv, TypeOK
  <2>4. sock' \in [Conns -> {"none", "open", "gone"} \cup Reasons]
    BY <1>24 DEF TakeRequest, Reasons, TypeInv, TypeOK
  <2>5. pc' \in [Conns -> Labels]
    BY <1>24 DEF TakeRequest, Labels, TypeInv, TypeOK
  <2> QED
    BY <1>24, <2>2, <2>3, <2>4, <2>5 DEF TakeRequest, TypeInv, TypeOK
<1>25. ASSUME NEW c \in Conns, LinkClient(c) PROVE TypeOK'
  <2>1. c \in DataConns /\ room[c] \in RoomObjs /\ peer[c] \in ClientConns
    BY <1>25, DataPlaces DEF LinkClient
  <2>2. ClientsToHostConnections' \in
            [RoomObjs -> [ClientConns -> DataConns \cup {Nil, Absent}]]
    <3>1. CASE UNCHANGED ClientsToHostConnections
      BY <3>1 DEF TypeInv, TypeOK
    <3>2. CASE ClientsToHostConnections' =
                [ClientsToHostConnections EXCEPT ![room[c]][peer[c]] = c]
      BY <3>2, <2>1 DEF TypeInv, TypeOK
    <3> QED
      BY <1>25, <3>1, <3>2 DEF LinkClient
  <2>3. sock' \in [Conns -> {"none", "open", "gone"} \cup Reasons]
    BY <1>25 DEF LinkClient, Reasons, TypeInv, TypeOK
  <2>4. pc' \in [Conns -> Labels]
    BY <1>25 DEF LinkClient, Labels, TypeInv, TypeOK
  <2> QED
    BY <1>25, <2>2, <2>3, <2>4 DEF LinkClient, TypeInv, TypeOK
<1>26. ASSUME NEW c \in Conns, LinkBack(c) PROVE TypeOK'
  BY <1>26, DataPlaces DEF LinkBack, TypeInv, TypeOK, Labels
<1>27. ASSUME NEW c \in Conns, DataEnter(c) PROVE TypeOK'
  <2>1. c \in DataConns /\ gameId[c] \in Codes
    BY <1>27, CodeKnown DEF DataEnter
  <2>2. ClientOf(c) \in ClientConns \cup {Absent}
    BY <2>1 DEF ClientOf, TypeInv, TypeOK
  <2>3. peer' \in [Conns -> Conns \cup {Nil}]
    BY <1>27, <2>2 DEF DataEnter, TypeInv, TypeOK
  <2>4. pc' \in [Conns -> Labels]
    BY <1>27 DEF DataEnter, Labels, TypeInv, TypeOK
  <2> QED
    BY <1>27, <2>3, <2>4 DEF DataEnter, TypeInv, TypeOK
<1>28. ASSUME NEW c \in Conns, CleanupAsHost(c) PROVE TypeOK'
  BY <1>28, CodeKnown, MembersType
  DEF CleanupAsHost, Unregistered, TypeInv, TypeOK, Labels
<1>29. ASSUME NEW c \in Conns, CleanupAsMember(c) PROVE TypeOK'
  BY <1>29, CodeKnown, PartnersType DEF CleanupAsMember, TypeInv, TypeOK, Labels
<1>30. ASSUME NEW c \in Conns, CleanupWithoutRoom(c) PROVE TypeOK'
  BY <1>30 DEF CleanupWithoutRoom, TypeInv, TypeOK, Labels, Reasons
<1>31. ASSUME NEW c \in Conns, NEW other \in Conns, CloseOther(c, other)
      PROVE  TypeOK'
  BY <1>31 DEF CloseOther, CleanupReason, TypeInv, TypeOK, Labels, Reasons
<1>32. ASSUME NEW c \in Conns, CloseOwn(c) PROVE TypeOK'
  BY <1>32 DEF CloseOwn, TypeInv, TypeOK, Labels, Reasons
<1>33. ASSUME NEW c \in Conns, ClientRelayEnds(c) PROVE TypeOK'
  BY <1>33 DEF ClientRelayEnds, ClientLeaves, TypeInv, TypeOK, Labels,
     Reasons
<1>34. ASSUME NEW c \in Conns, HostSignalEnds(c) PROVE TypeOK'
  BY <1>34 DEF HostSignalEnds, TypeInv, TypeOK, Labels, Reasons
<1>35. ASSUME NEW c \in Conns, DataRelayEnds(c) PROVE TypeOK'
  BY <1>35 DEF DataRelayEnds, TypeInv, TypeOK, Labels, Reasons
<1>36. ASSUME NEW c \in Conns, PeerLeaves(c) PROVE TypeOK'
  BY <1>36 DEF PeerLeaves, TypeInv, TypeOK, Labels, Reasons
<1>37. ASSUME NEW p \in Creators, EvictClose(p) PROVE TypeOK'
  BY <1>37 DEF EvictClose, TypeInv, TypeOK, Labels, Reasons
<1>38. ASSUME NEW p \in Creators, NEW r \in RoomObjs, EvictFinish(p, r)
      PROVE  TypeOK'
  BY <1>38 DEF EvictFinish, Allocate, TypeInv, TypeOK, Labels, Reasons
<1>39. ASSUME UnusedScan PROVE TypeOK'
  BY <1>39 DEF UnusedScan, Unhosted, TypeInv, TypeOK, Labels, Reasons
<1>40. ASSUME UnusedPrune PROVE TypeOK'
  BY <1>40 DEF UnusedPrune, Unhosted, TypeInv, TypeOK, Labels, Reasons
<1>41. ASSUME IdleScan PROVE TypeOK'
  BY <1>41 DEF IdleScan, HostsOf, TypeInv, TypeOK, Labels, Reasons
<1>42. ASSUME IdleDelete PROVE TypeOK'
  BY <1>42 DEF IdleDelete, TypeInv, TypeOK, Labels, Reasons
<1>43. ASSUME NEW h \in HostConns, IdleClose(h) PROVE TypeOK'
  BY <1>43 DEF IdleClose, TypeInv, TypeOK, Labels, Reasons
<1>44. ASSUME NEW r \in AgingRooms, Expire(r) PROVE TypeOK'
  BY <1>44, RolesAssumption DEF Expire, TypeInv, TypeOK
<1>45. ASSUME NEW r \in AgingRooms, BecomeIdle(r) PROVE TypeOK'
  BY <1>45, RolesAssumption DEF BecomeIdle, TypeInv, TypeOK
<1>46. ASSUME NEW code \in Codes, ForgetReason(code) PROVE TypeOK'
  BY <1>46 DEF ForgetReason, TypeInv, TypeOK, Labels, Reasons
<1>47. CASE UNCHANGED vars
  BY <1>47 DEF vars, TypeInv, TypeOK, Labels, Reasons
<1> QED
  BY <1>1, <1>2, <1>3, <1>4, <1>5, <1>6, <1>7, <1>8, <1>9, <1>10, <1>11,
     <1>12, <1>13, <1>14, <1>15, <1>16, <1>17, <1>18, <1>19, <1>20, <1>21,
     <1>22, <1>23, <1>24, <1>25, <1>26, <1>27, <1>28, <1>29, <1>30, <1>31,
     <1>32, <1>33, <1>34, <1>35, <1>36, <1>37, <1>38, <1>39, <1>40, <1>41,
     <1>42, <1>43, <1>44, <1>45, <1>46, <1>47 DEF Next, Arrive, Proceed,
     StopRelaying, ClientStep, HostStep, LinkStep, CleanupStep, EvictStep,
     SweepStep, Age

\* Every step keeps a goroutine in the places of its role.
LEMMA RolesStep ==
    ASSUME TypeInv, [Next]_vars
    PROVE  RolesOK'
<1>1. ASSUME NEW c \in ClientConns, NEW code \in Codes, ClientJoin(c, code)
      PROVE  RolesOK'
  BY <1>1 DEF ClientJoin, TypeInv, TypeOK, RolesOK, HostLabels, ClientLabels,
     DataLabels
<1>2. ASSUME NEW c \in ClientConns, NEW code \in Codes, ClientMissesRoom(c, code)
      PROVE  RolesOK'
  BY <1>2, RolesAssumption
  DEF ClientMissesRoom, TypeInv, TypeOK, RolesOK, HostLabels, ClientLabels, DataLabels
<1>3. ASSUME NEW h \in HostConns, NEW code \in Codes, HostJoin(h, code)
      PROVE  RolesOK'
  BY <1>3 DEF HostJoin, Claimable, TypeInv, TypeOK, RolesOK, HostLabels,
     ClientLabels, DataLabels
<1>4. ASSUME NEW h \in HostConns, NEW code \in Codes, HostRefused(h, code)
      PROVE  RolesOK'
  BY <1>4 DEF HostRefused, TypeInv, TypeOK, RolesOK, HostLabels,
     ClientLabels, DataLabels
<1>5. ASSUME NEW d \in DataConns, NEW code \in Codes, NEW q \in Requests, DataJoin(d, code, q)
      PROVE  RolesOK'
  BY <1>5, RolesAssumption
  DEF DataJoin, TypeInv, TypeOK, RolesOK, HostLabels, ClientLabels, DataLabels
<1>6. ASSUME NEW d \in DataConns, NEW code \in Codes, NEW q \in Requests, DataRefused(d, code, q)
      PROVE  RolesOK'
  BY <1>6 DEF DataRefused, TypeInv, TypeOK, RolesOK, HostLabels,
     ClientLabels, DataLabels
<1>7. ASSUME NEW c \in Conns, ClientTurnedAway(c) PROVE RolesOK'
  BY <1>7 DEF ClientTurnedAway, TypeInv, TypeOK, RolesOK, HostLabels,
     ClientLabels, DataLabels
<1>8. ASSUME NEW c \in Conns, ClientEnter(c) PROVE RolesOK'
  BY <1>8, RolesAssumption
  DEF ClientEnter, TypeInv, TypeOK, RolesOK, HostLabels, ClientLabels, DataLabels
<1>9. ASSUME NEW c \in Conns, ClientRefused(c) PROVE RolesOK'
  BY <1>9 DEF ClientRefused, ClientLeaves, TypeInv, TypeOK, RolesOK,
     HostLabels, ClientLabels, DataLabels
<1>10. ASSUME NEW c \in Conns, NEW q \in Requests, RegisterRequest(c, q)
      PROVE  RolesOK'
  BY <1>10 DEF RegisterRequest, TypeInv, TypeOK, RolesOK, HostLabels,
     ClientLabels, DataLabels
<1>11. ASSUME NEW c \in Conns, RegisterNilEntry(c) PROVE RolesOK'
  BY <1>11 DEF RegisterNilEntry, TypeInv, TypeOK, RolesOK, HostLabels,
     ClientLabels, DataLabels
<1>12. ASSUME NEW c \in Conns, Announce(c) PROVE RolesOK'
  BY <1>12 DEF Announce, ClientLeaves, TypeInv, TypeOK, RolesOK, HostLabels,
     ClientLabels, DataLabels
<1>13. ASSUME NEW c \in Conns, WaitFails(c) PROVE RolesOK'
  BY <1>13 DEF WaitFails, WaitReturns, TypeInv, TypeOK, RolesOK, HostLabels,
     ClientLabels, DataLabels
<1>14. ASSUME NEW c \in Conns, WaitLooksUp(c) PROVE RolesOK'
  BY <1>14 DEF WaitLooksUp, TypeInv, TypeOK, RolesOK, HostLabels,
     ClientLabels, DataLabels
<1>15. ASSUME NEW c \in Conns, PollFinds(c) PROVE RolesOK'
  BY <1>15 DEF PollFinds, WaitReturns, TypeInv, TypeOK, RolesOK, HostLabels,
     ClientLabels, DataLabels
<1>16. ASSUME NEW c \in Conns, PollAgain(c) PROVE RolesOK'
  BY <1>16 DEF PollAgain, TypeInv, TypeOK, RolesOK, HostLabels, ClientLabels,
     DataLabels
<1>17. ASSUME NEW c \in Conns, PollTimesOut(c) PROVE RolesOK'
  BY <1>17 DEF PollTimesOut, WaitReturns, TypeInv, TypeOK, RolesOK,
     HostLabels, ClientLabels, DataLabels
<1>18. ASSUME NEW c \in Conns, ForgetRequest(c) PROVE RolesOK'
  BY <1>18 DEF ForgetRequest, ClientLeaves, RequestsWithout, TypeInv, TypeOK,
     RolesOK, HostLabels, ClientLabels, DataLabels
<1>19. ASSUME NEW c \in Conns, HostEnter(c) PROVE RolesOK'
  BY <1>19 DEF HostEnter, TypeInv, TypeOK, RolesOK, HostLabels, ClientLabels,
     DataLabels
<1>20. ASSUME NEW c \in Conns, HostTooLate(c) PROVE RolesOK'
  BY <1>20 DEF HostTooLate, TypeInv, TypeOK, RolesOK, HostLabels,
     ClientLabels, DataLabels
<1>21. ASSUME NEW c \in Conns, TakeRequest(c) PROVE RolesOK'
  <2>1. /\ c \in DataConns
        /\ RequestedConnectionsMap[room[c]][request[c]] \in ClientConns \cup {Absent}
    BY <1>21, DataPlaces DEF TakeRequest, TypeInv, TypeOK
  <2>2. peer' = peer \/ \E client \in ClientConns :
                            peer' = [peer EXCEPT ![c] = client]
    BY <1>21, <2>1 DEF TakeRequest
  <2>3. \E label \in {"link", "done"} : pc' = [pc EXCEPT ![c] = label]
    BY <1>21 DEF TakeRequest
  <2> QED
    BY <2>1, <2>2, <2>3, RolesAssumption
    DEF TypeInv, TypeOK, RolesOK, HostLabels, ClientLabels, DataLabels
<1>22. ASSUME NEW c \in Conns, LinkClient(c) PROVE RolesOK'
  BY <1>22 DEF LinkClient, TypeInv, TypeOK, RolesOK, HostLabels,
     ClientLabels, DataLabels
<1>23. ASSUME NEW c \in Conns, LinkBack(c) PROVE RolesOK'
  BY <1>23 DEF LinkBack, TypeInv, TypeOK, RolesOK, HostLabels, ClientLabels,
     DataLabels
<1>24. ASSUME NEW c \in Conns, DataEnter(c) PROVE RolesOK'
  <2>1. c \in DataConns /\ gameId[c] \in Codes
    BY <1>24, CodeKnown DEF DataEnter
  <2>2. ClientOf(c) \in ClientConns \cup {Absent}
    BY <2>1 DEF ClientOf, TypeInv, TypeOK
  <2>3. peer' = peer \/ \E client \in ClientConns :
                            peer' = [peer EXCEPT ![c] = client]
    BY <1>24, <2>2 DEF DataEnter
  <2>4. \E label \in {"relaying", "cleanup"} : pc' = [pc EXCEPT ![c] = label]
    BY <1>24 DEF DataEnter
  <2> QED
    BY <2>1, <2>3, <2>4, RolesAssumption
    DEF TypeInv, TypeOK, RolesOK, HostLabels, ClientLabels, DataLabels
<1>25. ASSUME NEW c \in Conns, CleanupAsHost(c) PROVE RolesOK'
  BY <1>25 DEF CleanupAsHost, Unregistered, TypeInv, TypeOK, RolesOK,
     HostLabels, ClientLabels, DataLabels
<1>26. ASSUME NEW c \in Conns, CleanupAsMember(c) PROVE RolesOK'
  BY <1>26 DEF CleanupAsMember, TypeInv, TypeOK, RolesOK, HostLabels,
     ClientLabels, DataLabels
<1>27. ASSUME NEW c \in Conns, CleanupWithoutRoom(c) PROVE RolesOK'
  BY <1>27 DEF CleanupWithoutRoom, TypeInv, TypeOK, RolesOK, HostLabels,
     ClientLabels, DataLabels
<1>28. ASSUME NEW c \in Conns, CloseOwn(c) PROVE RolesOK'
  BY <1>28 DEF CloseOwn, TypeInv, TypeOK, RolesOK, HostLabels, ClientLabels,
     DataLabels
<1>29. ASSUME NEW c \in Conns, ClientRelayEnds(c) PROVE RolesOK'
  BY <1>29 DEF ClientRelayEnds, ClientLeaves, TypeInv, TypeOK, RolesOK,
     HostLabels, ClientLabels, DataLabels
<1>30. ASSUME NEW c \in Conns, HostSignalEnds(c) PROVE RolesOK'
  BY <1>30 DEF HostSignalEnds, TypeInv, TypeOK, RolesOK, HostLabels,
     ClientLabels, DataLabels
<1>31. ASSUME NEW c \in Conns, DataRelayEnds(c) PROVE RolesOK'
  BY <1>31 DEF DataRelayEnds, TypeInv, TypeOK, RolesOK, HostLabels,
     ClientLabels, DataLabels
<1>32. CASE UNCHANGED <<pc, peer>>
  BY <1>32 DEF TypeInv, RolesOK
<1> QED
  BY <1>1, <1>2, <1>3, <1>4, <1>5, <1>6, <1>7, <1>8, <1>9, <1>10, <1>11,
     <1>12, <1>13, <1>14, <1>15, <1>16, <1>17, <1>18, <1>19, <1>20, <1>21,
     <1>22, <1>23, <1>24, <1>25, <1>26, <1>27, <1>28, <1>29, <1>30, <1>31, <1>32
     DEF Next, Arrive, Proceed, StopRelaying, ClientStep, HostStep, LinkStep,
     CleanupStep, EvictStep, SweepStep, Age, vars, CreateFresh, ReuseHostless,
     EvictBegin, CloseOther, PeerLeaves, EvictClose, EvictFinish, UnusedScan,
     UnusedPrune, IdleScan, IdleDelete, IdleClose, Expire, BecomeIdle,
     ForgetReason

\* Every step has set the locals that the next one reads.
LEMMA LocalsStep ==
    ASSUME TypeInv, [Next]_vars
    PROVE  LocalsOK'
<1>1. ASSUME NEW p \in Creators, NEW code \in Codes, EvictBegin(p, code)
      PROVE  LocalsOK'
  BY <1>1 DEF EvictBegin, TypeInv, TypeOK, RolesOK, LocalsOK, HostLabels,
     ClientLabels, DataLabels, BeforeRoom, UsesRoom, UsesRequest
<1>2. ASSUME NEW c \in ClientConns, NEW code \in Codes, ClientJoin(c, code)
      PROVE  LocalsOK'
  BY <1>2 DEF ClientJoin, TypeInv, TypeOK, RolesOK, LocalsOK, HostLabels,
     ClientLabels, DataLabels, BeforeRoom, UsesRoom, UsesRequest
<1>3. ASSUME NEW c \in ClientConns, NEW code \in Codes, ClientMissesRoom(c, code)
      PROVE  LocalsOK'
  BY <1>3 DEF ClientMissesRoom, TypeInv, TypeOK, RolesOK, LocalsOK,
     HostLabels, ClientLabels, DataLabels, BeforeRoom, UsesRoom, UsesRequest
<1>4. ASSUME NEW h \in HostConns, NEW code \in Codes, HostJoin(h, code)
      PROVE  LocalsOK'
  BY <1>4, RolesAssumption
  DEF HostJoin, Claimable, TypeInv, TypeOK, LocalsOK, BeforeRoom, UsesRoom, UsesRequest
<1>5. ASSUME NEW h \in HostConns, NEW code \in Codes, HostRefused(h, code)
      PROVE  LocalsOK'
  BY <1>5 DEF HostRefused, TypeInv, TypeOK, RolesOK, LocalsOK, HostLabels,
     ClientLabels, DataLabels, BeforeRoom, UsesRoom, UsesRequest
<1>6. ASSUME NEW d \in DataConns, NEW code \in Codes, NEW q \in Requests, DataJoin(d, code, q)
      PROVE  LocalsOK'
  BY <1>6 DEF DataJoin, TypeInv, TypeOK, RolesOK, LocalsOK, HostLabels,
     ClientLabels, DataLabels, BeforeRoom, UsesRoom, UsesRequest
<1>7. ASSUME NEW d \in DataConns, NEW code \in Codes, NEW q \in Requests, DataRefused(d, code, q)
      PROVE  LocalsOK'
  BY <1>7 DEF DataRefused, TypeInv, TypeOK, RolesOK, LocalsOK, HostLabels,
     ClientLabels, DataLabels, BeforeRoom, UsesRoom, UsesRequest
<1>8. ASSUME NEW c \in Conns, ClientTurnedAway(c) PROVE LocalsOK'
  BY <1>8 DEF ClientTurnedAway, TypeInv, TypeOK, RolesOK, LocalsOK,
     HostLabels, ClientLabels, DataLabels, BeforeRoom, UsesRoom, UsesRequest
<1>9. ASSUME NEW c \in Conns, ClientEnter(c) PROVE LocalsOK'
  BY <1>9 DEF ClientEnter, TypeInv, TypeOK, RolesOK, LocalsOK, HostLabels,
     ClientLabels, DataLabels, BeforeRoom, UsesRoom, UsesRequest
<1>10. ASSUME NEW c \in Conns, ClientRefused(c) PROVE LocalsOK'
  BY <1>10 DEF ClientRefused, ClientLeaves, TypeInv, TypeOK, RolesOK,
     LocalsOK, HostLabels, ClientLabels, DataLabels, BeforeRoom, UsesRoom,
     UsesRequest
<1>11. ASSUME NEW c \in Conns, NEW q \in Requests, RegisterRequest(c, q)
      PROVE  LocalsOK'
  BY <1>11 DEF RegisterRequest, TypeInv, TypeOK, RolesOK, LocalsOK,
     HostLabels, ClientLabels, DataLabels, BeforeRoom, UsesRoom, UsesRequest
<1>12. ASSUME NEW c \in Conns, RegisterNilEntry(c) PROVE LocalsOK'
  BY <1>12 DEF RegisterNilEntry, TypeInv, TypeOK, RolesOK, LocalsOK,
     HostLabels, ClientLabels, DataLabels, BeforeRoom, UsesRoom, UsesRequest
<1>13. ASSUME NEW c \in Conns, Announce(c) PROVE LocalsOK'
  BY <1>13 DEF Announce, ClientLeaves, TypeInv, TypeOK, RolesOK, LocalsOK,
     HostLabels, ClientLabels, DataLabels, BeforeRoom, UsesRoom, UsesRequest
<1>14. ASSUME NEW c \in Conns, WaitFails(c) PROVE LocalsOK'
  BY <1>14 DEF WaitFails, WaitReturns, TypeInv, TypeOK, RolesOK, LocalsOK,
     HostLabels, ClientLabels, DataLabels, BeforeRoom, UsesRoom, UsesRequest
<1>15. ASSUME NEW c \in Conns, WaitLooksUp(c) PROVE LocalsOK'
  BY <1>15 DEF WaitLooksUp, TypeInv, TypeOK, RolesOK, LocalsOK, HostLabels,
     ClientLabels, DataLabels, BeforeRoom, UsesRoom, UsesRequest
<1>16. ASSUME NEW c \in Conns, PollFinds(c) PROVE LocalsOK'
  BY <1>16 DEF PollFinds, WaitReturns, TypeInv, TypeOK, RolesOK, LocalsOK,
     HostLabels, ClientLabels, DataLabels, BeforeRoom, UsesRoom, UsesRequest
<1>17. ASSUME NEW c \in Conns, PollAgain(c) PROVE LocalsOK'
  BY <1>17 DEF PollAgain, TypeInv, TypeOK, RolesOK, LocalsOK, HostLabels,
     ClientLabels, DataLabels, BeforeRoom, UsesRoom, UsesRequest
<1>18. ASSUME NEW c \in Conns, PollTimesOut(c) PROVE LocalsOK'
  BY <1>18 DEF PollTimesOut, WaitReturns, TypeInv, TypeOK, RolesOK, LocalsOK,
     HostLabels, ClientLabels, DataLabels, BeforeRoom, UsesRoom, UsesRequest
<1>19. ASSUME NEW c \in Conns, ForgetRequest(c) PROVE LocalsOK'
  BY <1>19 DEF ForgetRequest, ClientLeaves, RequestsWithout, TypeInv, TypeOK,
     RolesOK, LocalsOK, HostLabels, ClientLabels, DataLabels, BeforeRoom,
     UsesRoom, UsesRequest
<1>20. ASSUME NEW c \in Conns, HostEnter(c) PROVE LocalsOK'
  BY <1>20, RolesAssumption
  DEF HostEnter, TypeInv, TypeOK, LocalsOK, BeforeRoom, UsesRoom, UsesRequest
<1>21. ASSUME NEW c \in Conns, HostTooLate(c) PROVE LocalsOK'
  BY <1>21 DEF HostTooLate, TypeInv, TypeOK, RolesOK, LocalsOK, HostLabels,
     ClientLabels, DataLabels, BeforeRoom, UsesRoom, UsesRequest
<1>22. ASSUME NEW c \in Conns, TakeRequest(c) PROVE LocalsOK'
  <2>1. /\ c \in DataConns
        /\ room[c] \in RoomObjs
        /\ request[c] \in Requests
        /\ gameId[c] \in Codes
        /\ RequestedConnectionsMap[room[c]][request[c]] \in ClientConns \cup {Absent}
    BY <1>22, DataPlaces DEF TakeRequest, TypeInv, TypeOK
  <2>2. CASE /\ peer' = [peer EXCEPT ![c] = RequestedConnectionsMap[room[c]][request[c]]]
             /\ RequestedConnectionsMap[room[c]][request[c]] # Absent
             /\ pc' = [pc EXCEPT ![c] = "link"]
    BY <1>22, <2>1, <2>2, RolesAssumption
    DEF TakeRequest, TypeInv, TypeOK, LocalsOK, BeforeRoom, UsesRoom, UsesRequest
  <2>3. CASE peer' = peer /\ pc' = [pc EXCEPT ![c] = "done"]
    BY <1>22, <2>1, <2>3, RolesAssumption
    DEF TakeRequest, TypeInv, TypeOK, LocalsOK, BeforeRoom, UsesRoom, UsesRequest
  <2> QED
    BY <1>22, <2>2, <2>3 DEF TakeRequest
<1>23. ASSUME NEW c \in Conns, LinkClient(c) PROVE LocalsOK'
  BY <1>23 DEF LinkClient, TypeInv, TypeOK, RolesOK, LocalsOK, HostLabels,
     ClientLabels, DataLabels, BeforeRoom, UsesRoom, UsesRequest
<1>24. ASSUME NEW c \in Conns, LinkBack(c) PROVE LocalsOK'
  BY <1>24 DEF LinkBack, TypeInv, TypeOK, RolesOK, LocalsOK, HostLabels,
     ClientLabels, DataLabels, BeforeRoom, UsesRoom, UsesRequest
<1>25. ASSUME NEW c \in Conns, DataEnter(c) PROVE LocalsOK'
  <2>1. c \in DataConns /\ gameId[c] \in Codes
    BY <1>25, CodeKnown DEF DataEnter
  <2>2. \E label \in {"relaying", "cleanup"} : pc' = [pc EXCEPT ![c] = label]
    BY <1>25 DEF DataEnter
  <2>3. \A d \in DataConns : d # c => peer'[d] = peer[d]
    BY <1>25 DEF DataEnter, TypeInv, TypeOK
  <2> QED
    BY <1>25, <2>1, <2>2, <2>3, RolesAssumption
    DEF DataEnter, TypeInv, TypeOK, LocalsOK, BeforeRoom, UsesRoom, UsesRequest
<1>26. ASSUME NEW c \in Conns, CleanupAsHost(c) PROVE LocalsOK'
  BY <1>26 DEF CleanupAsHost, Unregistered, TypeInv, TypeOK, RolesOK,
     LocalsOK, HostLabels, ClientLabels, DataLabels, BeforeRoom, UsesRoom,
     UsesRequest
<1>27. ASSUME NEW c \in Conns, CleanupAsMember(c) PROVE LocalsOK'
  BY <1>27 DEF CleanupAsMember, TypeInv, TypeOK, RolesOK, LocalsOK,
     HostLabels, ClientLabels, DataLabels, BeforeRoom, UsesRoom, UsesRequest
<1>28. ASSUME NEW c \in Conns, CleanupWithoutRoom(c) PROVE LocalsOK'
  BY <1>28 DEF CleanupWithoutRoom, TypeInv, TypeOK, RolesOK, LocalsOK,
     HostLabels, ClientLabels, DataLabels, BeforeRoom, UsesRoom, UsesRequest
<1>29. ASSUME NEW c \in Conns, CloseOwn(c) PROVE LocalsOK'
  BY <1>29 DEF CloseOwn, TypeInv, TypeOK, RolesOK, LocalsOK, HostLabels,
     ClientLabels, DataLabels, BeforeRoom, UsesRoom, UsesRequest
<1>30. ASSUME NEW c \in Conns, ClientRelayEnds(c) PROVE LocalsOK'
  BY <1>30 DEF ClientRelayEnds, ClientLeaves, TypeInv, TypeOK, RolesOK,
     LocalsOK, HostLabels, ClientLabels, DataLabels, BeforeRoom, UsesRoom,
     UsesRequest
<1>31. ASSUME NEW c \in Conns, HostSignalEnds(c) PROVE LocalsOK'
  BY <1>31 DEF HostSignalEnds, TypeInv, TypeOK, RolesOK, LocalsOK,
     HostLabels, ClientLabels, DataLabels, BeforeRoom, UsesRoom, UsesRequest
<1>32. ASSUME NEW c \in Conns, DataRelayEnds(c) PROVE LocalsOK'
  BY <1>32 DEF DataRelayEnds, TypeInv, TypeOK, RolesOK, LocalsOK, HostLabels,
     ClientLabels, DataLabels, BeforeRoom, UsesRoom, UsesRequest
<1>33. ASSUME NEW p \in Creators, EvictClose(p) PROVE LocalsOK'
  BY <1>33 DEF EvictClose, TypeInv, TypeOK, RolesOK, LocalsOK, HostLabels,
     ClientLabels, DataLabels, BeforeRoom, UsesRoom, UsesRequest
<1>34. ASSUME NEW p \in Creators, NEW r \in RoomObjs, EvictFinish(p, r)
      PROVE  LocalsOK'
  BY <1>34 DEF EvictFinish, Allocate, TypeInv, TypeOK, RolesOK, LocalsOK,
     HostLabels, ClientLabels, DataLabels, BeforeRoom, UsesRoom, UsesRequest
<1>35. CASE UNCHANGED <<pc, gameId, room, request, peer, polled, creatorPc, creatorCode>>
  BY <1>35 DEF TypeInv, LocalsOK
<1> QED
  BY <1>1, <1>2, <1>3, <1>4, <1>5, <1>6, <1>7, <1>8, <1>9, <1>10, <1>11,
     <1>12, <1>13, <1>14, <1>15, <1>16, <1>17, <1>18, <1>19, <1>20, <1>21,
     <1>22, <1>23, <1>24, <1>25, <1>26, <1>27, <1>28, <1>29, <1>30, <1>31,
     <1>32, <1>33, <1>34, <1>35 DEF Next, Arrive, Proceed, StopRelaying,
     ClientStep, HostStep, LinkStep, CleanupStep, EvictStep, SweepStep, Age,
     vars, CreateFresh, ReuseHostless, CloseOther, PeerLeaves, UnusedScan,
     UnusedPrune, IdleScan, IdleDelete, IdleClose, Expire, BecomeIdle,
     ForgetReason

LEMMA TypeInit ==
    ASSUME Init
    PROVE  TypeInv
BY DEF Init, TypeInv, TypeOK, RolesOK, LocalsOK, Labels, HostLabels, ClientLabels,
       DataLabels, BeforeRoom, UsesRoom, UsesRequest

LEMMA TypeStep ==
    ASSUME TypeInv, [Next]_vars
    PROVE  TypeInv'
BY TypeOKStep, RolesStep, LocalsStep DEF TypeInv

\* Every variable keeps its type, every goroutine the places of its role, and
\* the locals that a handler is about to use have been set: no handler ever
\* indexes a map with a nil room, client or request.
THEOREM TypeCorrect == Spec => []TypeOK
<1>1. Init => TypeInv
  BY TypeInit
<1>2. TypeInv /\ [Next]_vars => TypeInv'
  BY TypeStep
<1>3. TypeInv => TypeOK
  BY DEF TypeInv
<1> QED
  BY <1>1, <1>2, <1>3, PTL DEF Spec

=============================================================================
