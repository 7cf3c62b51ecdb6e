CONSTANTS
    MaxCalls = 3
    MaxOpen = 4
    TokenSize = 2
    ResponseCap = 4
    TokenLens <- MCTokenLens
    DeviceErrors <- MCDeviceErrors
    WriteMayFail = FALSE

SPECIFICATION HSpec

INVARIANT FailureOnlyTruncates
