\* Legacy resolution of language c in a project that also has cpp images.
CONSTANTS
    Catalogs <- MCCollisionCatalogs
    Languages <- MCCollisionLanguages
    DefaultLanguage <- LangM
    DefaultImage <- MCDefaultImage
    SelectorTypes = {"legacy"}
    SelectorNames <- MCSelectorNames
SPECIFICATION Spec
INVARIANT LegacyImageOfLanguage
CHECK_DEADLOCK FALSE
