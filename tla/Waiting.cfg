CONSTANTS
    Codes = {k1}
    ReusableCodes = {k1}
    RoomObjs = {r1, r2}
    HostConns = {h1, h2}
    ClientConns = {c1}
    DataConns = {}
    Requests = {q1}
    UniqueRequests = TRUE
    Leavers = {}
    AgingRooms = {}
    Creators = {p1}
    Nil = Nil
    Absent = Absent
CHECK_DEADLOCK FALSE
SPECIFICATION FairSpec
PROPERTY WaiterNoticesLostRoom
