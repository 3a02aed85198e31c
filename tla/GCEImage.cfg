\* Every selector type, both languages, mapped or not, every catalog.
CONSTANTS
    Catalogs <- MCCatalogs
    Languages <- MCLanguages
    DefaultLanguage <- LangM
    DefaultImage <- MCDefaultImage
    SelectorTypes = {"legacy", "env", "api"}
    SelectorNames <- MCSelectorNames
SPECIFICATION Spec
INVARIANT TypeOK
INVARIANT ResolvesToNewest
INVARIANT FirstSuccessWins
\* getImage returns: a resolution ends.
CHECK_DEADLOCK FALSE
