CONSTANTS
    Codes = {k1}
    ReusableCodes = {k1}
    RoomObjs = {r1}
    HostConns = {h1}
    ClientConns = {c1, c2}
    DataConns = {d1, d2}
    Requests = {q1}
    UniqueRequests = FALSE
    Leavers = {}
    AgingRooms = {}
    Creators = {}
    Nil = Nil
    Absent = Absent
CHECK_DEADLOCK FALSE
SPECIFICATION Spec
SYMMETRY Symmetry
INVARIANT NoCrossedTunnels
INVARIANT TunnelFallsTogether
INVARIANT NoStrandedSocket
INVARIANT CounterCoversHandlers
PROPERTY MatchingSpec
