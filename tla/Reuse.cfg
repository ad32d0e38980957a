CONSTANTS
    Codes = {k1}
    ReusableCodes = {k1}
    RoomObjs = {r1, r2}
    HostConns = {h1, h2}
    ClientConns = {c1}
    DataConns = {d1}
    Requests = {q1}
    UniqueRequests = TRUE
    Leavers = {}
    AgingRooms = {}
    Creators = {p1}
    Nil = Nil
    Absent = Absent
CHECK_DEADLOCK FALSE
SPECIFICATION Spec
SYMMETRY Symmetry
INVARIANT NoStrandedSocket
INVARIANT TunnelFallsTogether
INVARIANT WaitersCanBeAnswered
INVARIANT IInv
