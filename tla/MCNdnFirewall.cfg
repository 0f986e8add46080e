\* The composed firewall under an upstream that answers every forwarded
\* Interest. The process stops for good after exit(-1) on an egress face
\* error, so deadlock is not checked.
CONSTANTS
    f1 = f1
    Names <- MCNames
    Faces <- MCFaces
    Lifetimes = {0, 1}
    InitialSize = 2
    MINIMAL_INTEREST_LIFETIME = 1
    RETRANSMISSION_TIME = 2
    MaxTime = 1
    RuleNames <- MCLiveRuleNames
    Hash <- MCHash
    TotalItems <- MCTotalItems
    COUNTER_BITS = 16
    ADD_FAILURE_LOAD = 1

SPECIFICATION LiveSpec
CHECK_DEADLOCK FALSE

PROPERTY WaitersReleased
