CONSTANTS
    NULL = NULL
    Vals = {v1}
    MaxPairs = 4
    HostVals <- MCHostVals
SPECIFICATION Spec

INVARIANT HostNameSplitHonoured
