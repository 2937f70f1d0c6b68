SPECIFICATION Spec
CONSTANTS
    Hosts = {a, b, p}
    Keys = {k1, k2}
INVARIANT OneVoterPerKey
CHECK_DEADLOCK FALSE
