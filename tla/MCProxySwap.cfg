SPECIFICATION FairSpec
CONSTANTS
    r1 = r1
    Requests = {r1}
    Versions <- MCVersions
    Routes <- MCRoutes
    SelValues <- MCSelValues
    Messages <- MCMessages
    Descs <- MCDescs
    Empty = "Empty"
    Targets <- MCTargets
    Upstreams <- MCUpstreams
    Resolutions = {"none", "chain"}
    LayerSets = {"both", "newest"}
    LoadBundle <- MCLoadBundle
    LoadError = LoadError
    NoBundle = NoBundle
    Inputs <- SingleInput
    Statuses <- TwoStatuses
    Unknown = "unknown"
    MaxEdits = 2
    MaxSignals = 2
INVARIANTS
    TypeOK
    MirroredChain
    ReadyMeansServed
    ResolvableUnlessSwapped
PROPERTY
    SighupHonoured
    KeepsPromise
\* Every request may have ended and every bound may have been reached.
CHECK_DEADLOCK FALSE
