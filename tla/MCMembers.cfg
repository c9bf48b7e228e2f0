CONSTANTS
    MaxPort = 6
SPECIFICATION Spec
INVARIANTS
    RoundTrip
    Canonical
CHECK_DEADLOCK FALSE
