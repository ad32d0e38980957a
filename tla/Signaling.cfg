CONSTANTS
    RoomObjs = {r1, r2}
    Hosts = {h1, h2}
    Clients = {c1}
    Players = {p1}
    Ids = {i1}
    None = None
SPECIFICATION FairSpec
INVARIANT NilHostNeedsReuse
INVARIANT ListedHostHasOneWriter
INVARIANT AnswersFollowRequests
INVARIANT HostMuHasWriter
PROPERTY HostMuIsGranted
CHECK_DEADLOCK FALSE
