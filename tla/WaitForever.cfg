CONSTANTS
    Codes = {k1}
    ReusableCodes = {k1}
    RoomObjs = {r1}
    HostConns = {h1}
    ClientConns = {c1}
    DataConns = {}
    Requests = {q1}
    UniqueRequests = TRUE
    Leavers = {}
    AgingRooms = {}
    Creators = {}
    Nil = Nil
    Absent = Absent
CHECK_DEADLOCK FALSE
SPECIFICATION FairSpec
PROPERTY WaitEnds
