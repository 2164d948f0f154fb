SPECIFICATION Spec
CONSTANTS
    Versions <- MCVersions
    Routes <- MCRoutes
    Selectors <- MCSelectors
    Docs <- MCDocs
    Edits <- MCEdits
    Absent = Absent
    Part = Part
    Committed <- MCCommitted
    MaxEvents = 3
INVARIANT
    RetirePreservesOverrides
CHECK_DEADLOCK FALSE
