\* Two streams for one permit, two tasks beside the finalize task.
CONSTANTS
    Streams = {s1, s2}
    Tasks = {t1, t2}
    Finalizer = fin
    MaxConnections = 1
SPECIFICATION FairSpec
INVARIANTS
    ConnectionsAreCapped
    NobodyIsStuck
PROPERTIES
    EveryCallEnds
    StreamsAreAccepted
