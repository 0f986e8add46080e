\* Violation run: ParseTerminates with the uint8_t index narrowed to two
\* bits, so that five tokens play the part of 257 arguments.
CONSTANTS
    ArgVectors <- MCWrapVectors
    DigitStrings <- MCDigitStrings
    Atoi <- MCAtoi
    Addresses <- MCAddresses
    INDEX_BITS = 2

SPECIFICATION Spec
CHECK_DEADLOCK FALSE

PROPERTY ParseTerminates
