\* The switch rejects `vlan V`, and nothing ever times out.
SPECIFICATION Spec
CONSTANTS
    Rejected = {"vlan"}
    Timeouts = FALSE
INVARIANT SentInItsMode
\* The collector ends.
CHECK_DEADLOCK FALSE
