\* Probes, rotations, the state file and the shutdown.
CONSTANTS
    c1 = c1
    c2 = c2
    nvr = nvr
    camera = camera
    t1 = t1
    h1 = h1
    None = None
    Failed = Failed
    Configs = {c1, c2}
    Home = c1
    Prefs = {nvr, camera}
    Default = nvr
    Tokens = {t1}
    Handlers = {h1}
    Worlds <- MCWorlds
SPECIFICATION FairSpec
INVARIANTS CleanIsSaved PublishedIsDurable ExitSaves
PROPERTIES StateCatchesUp
