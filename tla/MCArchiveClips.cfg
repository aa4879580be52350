\* Archive exports: requests, both syncs, users and crashes.
CONSTANTS
    e1 = e1
    k1 = k1
    u1 = u1
    u2 = u2
    sync = sync
    None = None
    Events = {e1}
    Chunks = {k1}
    Users = {u1, u2}
    Sync = sync
    Clips = {1, 2}
    Worlds <- MCWorlds
SPECIFICATION FairSpec
INVARIANTS
    InputOutlivesJob
PROPERTIES
    RetentionHolds
    QueuedIsCleaned
    StaleLinksHeal
