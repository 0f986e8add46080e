\* Every command line of up to four tokens; the loop ends, so deadlock
\* (no step after the loop) is not checked.
CONSTANTS
    ArgVectors <- MCArgVectors
    DigitStrings <- MCDigitStrings
    Atoi <- MCAtoi
    Addresses <- MCAddresses
    INDEX_BITS = 8

SPECIFICATION Spec
CHECK_DEADLOCK FALSE

INVARIANT OptionsAsParsed
