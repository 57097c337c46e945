CONSTANTS
    Msgs = {m1, m2}
    ListHead = ListHead
    Timeouts <- MCTimeouts
    MaxTick = 2
    Width = 2
    BatchMax = 2

SPECIFICATION Spec

PROPERTY ExpiringEntriesResolved
