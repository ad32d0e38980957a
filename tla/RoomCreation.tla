---------------------------- MODULE RoomCreation ----------------------------
(***************************************************************************)
(* HandleCreatePath (RoomCreation.go) after the proof of work is accepted. *)
(* The whole body runs under RoomsMu, sleeps included, so it is one step,  *)
(* except when a reuse token meets a room with a host: then the lock is    *)
(* released while the old host is being closed.                            *)
(*                                                                         *)
(* Reuse tokens outlive the process that issued them, so any reusable code *)
(* can be asked for at any time.  A /create that gives up after 10000      *)
(* random codes, or is refused, changes nothing.                           *)
(***************************************************************************)
EXTENDS RelayState

Allocate(code, r) ==
    /\ r \in RoomObjs \ allocated
    /\ allocated' = allocated \cup {r}
    /\ Rooms' = [Rooms EXCEPT ![code] = r]

\* Without a token: any free code, the joke code 676767 among them.
CreateFresh(code, r) ==
    /\ Rooms[code] = Absent
    /\ Allocate(code, r)
    /\ UNCHANGED <<RecentlyDeletedRooms, roomVars, expired, idle, sock, pc,
                   NumberOfClientsConnected, localVars, toClose, signalled,
                   creatorVars, sweeperVars>>

\* A room that waits for its host is dropped with everything it holds.
ReuseHostless(code, r) ==
    /\ code \in ReusableCodes
    /\ Rooms[code] # Absent
    /\ Host[Rooms[code]] = Nil
    /\ Allocate(code, r)
    /\ UNCHANGED <<RecentlyDeletedRooms, roomVars, expired, idle, sock, pc,
                   NumberOfClientsConnected, localVars, toClose, signalled,
                   creatorVars, sweeperVars>>

EvictBegin(p, code) ==
    /\ creatorPc[p] = "idle"
    /\ code \in ReusableCodes
    /\ Rooms[code] # Absent
    /\ Host[Rooms[code]] # Nil
    /\ creatorPc' = [creatorPc EXCEPT ![p] = "evict"]
    /\ creatorCode' = [creatorCode EXCEPT ![p] = code]
    /\ oldRoom' = [oldRoom EXCEPT ![p] = Rooms[code]]
    /\ UNCHANGED <<Rooms, RecentlyDeletedRooms, roomVars, ageVars, sock, pc,
                   NumberOfClientsConnected, localVars, toClose, signalled,
                   sweeperVars>>

EvictClose(p) ==
    /\ creatorPc[p] = "evict"
    /\ CloseWebsocket(Host[oldRoom[p]], "REUSE_TOKEN_PRESENTED")
    /\ creatorPc' = [creatorPc EXCEPT ![p] = "retake"]
    /\ UNCHANGED <<Rooms, RecentlyDeletedRooms, roomVars, ageVars, pc, localVars,
                   NumberOfClientsConnected, toClose, signalled, creatorCode,
                   oldRoom, sweeperVars>>

(***************************************************************************)
(* RoomsMu is taken again, and kept through the delete, the 5 s sleep and  *)
(* the new room.  The delete takes whatever room the code has by now.      *)
(***************************************************************************)
EvictFinish(p, r) ==
    /\ creatorPc[p] = "retake"
    /\ Allocate(creatorCode[p], r)
    /\ creatorPc' = [creatorPc EXCEPT ![p] = "done"]
    /\ UNCHANGED <<RecentlyDeletedRooms, roomVars, expired, idle, sock, pc,
                   NumberOfClientsConnected, localVars, toClose, signalled,
                   creatorCode, oldRoom, sweeperVars>>
=============================================================================
