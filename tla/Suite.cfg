CONSTANTS
    None = None
    Header = Header
    Missing = "missing"
    Parsers = {"missing", "strict", "lenient", "slow"}
    Include13 = {"6VJK"}
    Ids <- MCIds
    Lines <- MCLines
    Invisible <- MCInvisible
    Answer <- MCAnswer
    MaxLines <- MCMaxLines

SPECIFICATION Spec
CHECK_DEADLOCK FALSE

INVARIANTS
    TypeOK
    CasesAsWritten
    GuardsHold

PROPERTIES
    KeepsMeta
