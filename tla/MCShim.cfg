SPECIFICATION Spec
CONSTANTS
    Components <- MCComponents
    Documents <- MCDocuments
    Order <- MCOrder
    Empty = "Empty"
    None = None
    Ident <- MCIdent
    Numbered <- MCNumbered
    Folded <- MCFolded
    Normalized <- MCNormalized
    Names <- MCNames
    Texts <- MCTexts
    ParseFloat <- MCParseFloat
    Float64 <- MCFloat64
    Chains <- MCChains
    JSONBodies <- MCBodies
    Replies <- MCReplies
INVARIANTS
    TypeOK
    Reproducible
    NamesDistinct
    BindingsKeepProperties
    StaysJSON
    OnlyAddressedChange
    EchoRoundTrip
    DraftBridges
\* A request may have been answered, a document or a shim refused.
CHECK_DEADLOCK FALSE
