\* Retransmission timing: one face (faces do not take part in the
\* forwarding decision), a longer clock and three lifetimes.
CONSTANTS
    f1 = f1
    f2 = f2
    Names <- MCNames
    Faces <- MCOneFace
    Lifetimes <- MCLifetimes
    Sizes <- MCSizes
    InitialSize = 2
    MINIMAL_INTEREST_LIFETIME = 1
    RETRANSMISSION_TIME = 2
    MaxTime = 4

SPECIFICATION Spec

PROPERTY RetransmissionWindow
