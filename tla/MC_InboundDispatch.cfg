CONSTANTS
    Callbacks = {c1, c2}
    NULL = NULL
    MaxTime = 2

SPECIFICATION Spec

INVARIANT TypeOK
INVARIANT CallbackImpliesSubscribed
