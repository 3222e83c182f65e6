SPECIFICATION SyncSpec
CONSTANTS
    Peer = {p1, p2}
    BATCH = 2
    SYNC_THRESHOLD = 1
    FAR_BEHIND = 2
    MAX_PENDING_SYNC_REQUESTS = 2
    EARLY_HEIGHT = 2
    MaxHeight = 3
    MaxEvents = 2
    MaxFailures = 1
CONSTRAINT BoundSync
INVARIANT SyncStateAgrees
PROPERTY CatchesUp
