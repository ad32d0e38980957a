---------------------------- MODULE RoomDirectory ----------------------------
(***************************************************************************)
(* What app.Rooms and Room.Host promise together, whatever the number of   *)
(* creators, hosts and sweepers at work: a room is listed under one code,  *)
(* and only from its creation on; a room that left the directory is never  *)
(* listed again; it is claimed at most once, while it is listed, by a host *)
(* that has claimed no other room.                                         *)
(***************************************************************************)
CONSTANTS Codes, RoomObjs, HostConns, Nil, Absent

VARIABLES directory, owner, made

dirVars == <<directory, owner, made>>

Init ==
    /\ directory = [code \in Codes |-> Absent]
    /\ owner = [r \in RoomObjs |-> Nil]
    /\ made = {}

\* A new room takes the place of whatever the code had.
Open(code, r) ==
    /\ r \notin made
    /\ directory' = [directory EXCEPT ![code] = r]
    /\ made' = made \cup {r}
    /\ UNCHANGED owner

Claim(code, h) ==
    /\ directory[code] \in RoomObjs
    /\ owner[directory[code]] = Nil
    /\ \A r \in RoomObjs : owner[r] # h
    /\ owner' = [owner EXCEPT ![directory[code]] = h]
    /\ UNCHANGED <<directory, made>>

Close(codes) ==
    /\ directory' = [code \in Codes |->
                        IF code \in codes THEN Absent ELSE directory[code]]
    /\ UNCHANGED <<owner, made>>

Next ==
    \/ \E code \in Codes : \/ \E r \in RoomObjs : Open(code, r)
                           \/ \E h \in HostConns : Claim(code, h)
    \/ \E codes \in SUBSET Codes : Close(codes)

Spec == Init /\ [][Next]_dirVars
=============================================================================
