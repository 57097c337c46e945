CONSTANTS
    Callbacks = {c1}
    NULL = NULL
    MaxTime = 2

SPECIFICATION Spec

PROPERTY ReceiveTimeMonotone
