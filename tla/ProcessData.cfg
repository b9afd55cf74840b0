SPECIFICATION ExchangeSpec
CONSTANTS
    Networks <- AnyNetwork
    MaxSegment = 4
    MAXIOSEGMENTS = 8
    MaxBuf = 8
    MaxCycle = 1
INVARIANTS
    PointerMeetsData
    NoSharedBit
    SegmentsCover
    WkcProvesExchange
    StaysInImage
