\* Three threads, one socket, fish_11_dll as it is (it never unregisters) in the pre
\* list and an engine of the post list that unregisters.
SPECIFICATION Spec
CONSTANTS
    t1 = t1
    t2 = t2
    t3 = t3
    i1 = i1
    i2 = i2
    Threads <- ThreeThreads
    Engines = {fish, other}
    Sockets = {s1}
    Post = {other}
    Forgetful = {fish}
    Infos = {i1, i2}
    NoInfo = NoInfo
    Nobody = Nobody
    NoEngine = NoEngine
    NoSocket = NoSocket
SYMMETRY Symmetry
INVARIANTS NoCircularWait ListsMatchPointers CallbacksReachLoaded
PROPERTIES OneInfoPerSocket
