CONSTANTS
    Names <- MCNames
    RuleNames <- MCRuleNames
    Hash <- MCHash
    TotalItems <- MCTotalItems
    Text <- MCText
    COUNTER_BITS = 1
    ADD_FAILURE_LOAD = 1

SPECIFICATION Spec

INVARIANT FilterDecidesLongestPrefix
