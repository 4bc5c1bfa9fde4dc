CONSTANTS
    Absent = Absent
    Unreadable = Unreadable
    Texts <- MCTexts
    IntOf <- MCIntOf
    FloatOf <- MCFloatOf
    First <- MCFirst
    Special <- MCSpecial
    Breaks <- MCBreaks
    SpaceEnds <- MCSpaceEnds
    Halved <- MCHalved
    FlowUnsafe <- MCFlowUnsafe
    BlockUnsafe <- MCBlockUnsafe
    Rest <- MCRest
    Calls <- MCCalls
    Read <- MCRead
    Serialized <- SerializedText
    Parsed <- ParsedText
    Dumped <- DumpedText
    Loaded <- LoadedText
    Faithful <- FaithfulText

SPECIFICATION Spec
CHECK_DEADLOCK FALSE

INVARIANTS
    TypeOK
    RoundTrips
    ConfigEffective
    AllOrNothing
