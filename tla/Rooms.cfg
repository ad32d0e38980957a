CONSTANTS
    Codes = {k1, k2}
    ReusableCodes = {k1}
    RoomObjs = {r1, r2, r3}
    HostConns = {h1, h2}
    ClientConns = {}
    DataConns = {}
    Requests = {}
    UniqueRequests = TRUE
    Leavers = {}
    AgingRooms = {r1, r2}
    Creators = {p1}
    Nil = Nil
    Absent = Absent
CHECK_DEADLOCK FALSE
SPECIFICATION Spec
SYMMETRY Symmetry
INVARIANT TypeOK
INVARIANT HostHoldsRoom
PROPERTY DirectorySpec
