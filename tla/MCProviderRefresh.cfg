SPECIFICATION FairSpec
CONSTANTS
    Providers = {p1}
    Updates = {u1, u2}
    Batches = {b1, b2}
    Nobody = Nobody
    MaxToggles = 1
INVARIANTS
    TypeOK
    LockHasOwner
    CurrentBatchNotStale
    DisabledNotCached
PROPERTIES
    ImplementsRefreshRound
    EnabledGetsPublished
    DisabledGetsDropped
