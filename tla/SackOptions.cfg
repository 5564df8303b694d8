SPECIFICATION ParserSpec
CONSTANTS
    Offsets <- AllOffsets
CHECK_DEADLOCK FALSE
INVARIANTS
    LeftIsHonest
