SPECIFICATION Spec
CONSTANTS
    r1 = r1
    Requests = {r1}
    Versions <- MCVersions
    Routes <- MCRoutes
    SelValues <- MCSelValues
    Messages <- MCMessages
    Descs <- MCDescs
    Empty = "Empty"
    Targets <- MCTargets
    Upstreams <- MCUpstreams
    Resolutions = {"none"}
    LayerSets = {"both","newest"}
    LoadBundle <- MCLoadBundle
    LoadError = LoadError
    NoBundle = NoBundle
    Inputs <- SingleInput
    Statuses <- OneStatus
    Unknown = "unknown"
    MaxEdits = 1
    MaxSignals = 1
INVARIANT
    OneBundlePerRequest
\* Every request may have ended and every bound may have been reached.
CHECK_DEADLOCK FALSE
