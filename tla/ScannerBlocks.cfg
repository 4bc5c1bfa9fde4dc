SPECIFICATION Spec
CONSTANTS
    Lexemes = {"-", "?", ":", "plain", "quoted", "block"}
    Names = {}
    NoName = NoName
    MaxLine = 2
    MaxCol = 2
    MaxTokens = 16
INVARIANTS
    TypeOK
    WellFormed
    SlotsReserved
    OpenCollections
    KeySpan
    Aligned
    TokensInOrder
