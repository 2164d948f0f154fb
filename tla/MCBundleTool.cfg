SPECIFICATION Spec
CONSTANTS
    Versions <- MCVersions
    Routes <- MCRoutes
    Selectors <- MCSelectors
    Docs <- MCDocs
    Edits <- MCEdits
    Absent = Absent
    Part = Part
    Committed <- MCCommitted
    MaxEvents = 3
INVARIANTS
    TypeOK
    OneDocumentPerLayer
    LoadedFromOneDocument
    CarefulStaysLoadable
PROPERTIES
    Implements
\* The commands and edits may be used up.
CHECK_DEADLOCK FALSE
