SPECIFICATION Spec
CONSTANTS
    Versions <- MCVersions
    Routes <- MCRoutes
    SelValues <- MCSelValues
    Messages <- MCMessages
    Descs <- MCDescs
    Empty = "Empty"
    Targets <- MCTargets
    Dirs <- MCDirs
    MaxChain = 5
INVARIANTS
    TypeOK
    LoadSound
    RulesDoNotCombine
    LoadComplete
    ChainRefusalJustified
PROPERTY
    Terminates
\* Load returns: there is nothing left to do once it has.
CHECK_DEADLOCK FALSE
