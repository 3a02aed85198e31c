\* Legacy resolution, every catalog: a transport error on a lookup.
CONSTANTS
    Catalogs <- MCCatalogs
    Languages <- MCLanguages
    DefaultLanguage <- LangM
    DefaultImage <- MCDefaultImage
    SelectorTypes = {"legacy"}
    SelectorNames <- MCSelectorNames
SPECIFICATION Spec
INVARIANT TransportErrorPropagates
CHECK_DEADLOCK FALSE
