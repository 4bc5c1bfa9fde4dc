SPECIFICATION Spec
CONSTANTS
    Lexemes = {"-", "?", ":", "[", "]", "{", "}", ",", "quoted"}
    Names = {}
    NoName = NoName
    MaxLine = 1
    MaxCol = 3
    MaxTokens = 12
INVARIANTS
    WellFormed
    SlotsReserved
    OpenCollections
    KeySpan
PROPERTY
    TokensPreserved
