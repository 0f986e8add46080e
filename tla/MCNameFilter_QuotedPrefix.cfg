\* A posted prefix whose string holds '"' characters, read back through
\* getRules: the reply no longer reads as the rule list.
CONSTANTS
    Names <- MCNames
    RuleNames <- MCQuoteRuleNames
    Hash <- MCQuoteHash
    TotalItems <- MCTotalItems
    Text <- MCQuoteText
    COUNTER_BITS = 16
    ADD_FAILURE_LOAD = 1

SPECIFICATION Spec

INVARIANT GetRepliesAsRequested
