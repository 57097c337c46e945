CONSTANTS
    Msgs = {m1}
    ListHead = ListHead
    Timeouts <- MCWideTimeouts
    MaxTick = 2
    Width = 2
    BatchMax = 1

SPECIFICATION Spec

PROPERTY NoEarlyTimeout
