SPECIFICATION Spec
CONSTANTS
    r1 = r1
    Requests = {r1}
    Versions <- MCVersions
    Routes <- MCRoutes
    SelValues <- MCSelValues
    Messages <- MCMessages
    Descs <- MCDescs
    Empty = "Empty"
    Targets <- MCTargets
    Upstreams <- MCUpstreams
    Resolutions = {"none"}
    LayerSets = {"both"}
    LoadBundle <- MCLoadBundle
    LoadError = LoadError
    NoBundle = NoBundle
    Inputs <- SingleInput
    Statuses <- WithInvalid
    Unknown = "unknown"
    MaxEdits = 0
    MaxSignals = 0
INVARIANT
    NoFabricatedSuccess
\* Every request may have ended and every bound may have been reached.
CHECK_DEADLOCK FALSE
