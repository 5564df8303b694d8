SPECIFICATION Spec
CONSTANTS
    WINDOW_SIZE = 3
    IDX_MOD = 4
    SEQ_MOD = 12
    Arrivals <- AllSeqNos
INVARIANTS
    TypeOK
    AtMostOnce
    DeliveredIsRemembered
    WindowBelowWrap
    BitmapIsExact
    NoFalseRefusal
PROPERTIES
    ExhaustedForever
