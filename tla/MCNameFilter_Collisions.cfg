\* Rule administration under colliding hashes and failing cuckoo Adds:
\* the filters keep exactly one fingerprint per registered prefix and the
\* classifier never ignores a registered prefix.
CONSTANTS
    Names <- MCNames
    RuleNames <- MCRuleNames
    Hash <- MCCollidingHash
    TotalItems <- MCTotalItems
    Text <- MCText
    COUNTER_BITS = 16
    ADD_FAILURE_LOAD = 1

SPECIFICATION Spec

INVARIANT FilterHoldsExactlyTheRules
INVARIANT NoRuleIgnored
