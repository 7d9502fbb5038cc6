\* Three requests, a pool of three connections and one thread: requests wait for a
\* connection, for the second one, for each other, and for the thread.
CONSTANTS
    Requests = {r1, r2, r3}
    Connections = {c1, c2, c3}
    Threads = 1
    MaxCrashes = 1
SPECIFICATION FairSpec
CHECK_DEADLOCK FALSE
INVARIANTS
    TypeOK
    NoConnectionLost
    NoMutualWait
    OnlyOrphansRemain
PROPERTY RequestsEnd
