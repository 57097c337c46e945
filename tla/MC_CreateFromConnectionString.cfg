CONSTANTS
    NULL = NULL
    Vals = {v1}
    MaxPairs = 4
    HostVals <- MCHostVals
SPECIFICATION Spec
INVARIANT TypeOK
INVARIANT CreateConfigMatchesReference
INVARIANT OnlyRepeatedKeysLeak
