SPECIFICATION Spec
CONSTANTS
    BITBUF_ROWS = 3
    RowBits = 4
    ByteBits = 2
    UINT16_MAX = 12
    OsvPreamble = 2
    RzPreamble = 2
    NrzPreamble = 3
    RzMeasured = 1
    NrzMeasured = 2
    FirstSize = 2
    NULL = NULL
    Junk = Junk
    Protocols <- MCProtocols
    OfferedTo <- MCOfferedTo
    PackagesOf <- MCPackagesOf
    Recodings = {"invert", "nrzs", "nrzm"}
    UINT_MAX = 3
    MaxDevices = 3
INVARIANTS
    TypeOK
    DevicesListed
    LowerFirst
    NonePassedOver
    RowsFit
    CleanTail
    DeliveredOnce
    NothingLost
    RoundTrip
PROPERTIES
    RowsKept
CHECK_DEADLOCK FALSE
