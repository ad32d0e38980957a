CONSTANTS
    Codes = {k1}
    ReusableCodes = {k1}
    RoomObjs = {r1, r2}
    HostConns = {h1}
    ClientConns = {c1}
    DataConns = {d1}
    Requests = {q1}
    UniqueRequests = TRUE
    Leavers = {h1, c1}
    AgingRooms = {}
    Creators = {p1}
    Nil = Nil
    Absent = Absent
CHECK_DEADLOCK FALSE
SPECIFICATION FairSpec
PROPERTY LostHostLosesRoom
PROPERTY TunnelEnds
