\* Table structure and refinement: two faces, a short clock, one lifetime
\* below the floor and one above it.
CONSTANTS
    f1 = f1
    f2 = f2
    Names <- MCNames
    Faces <- MCFaces
    Lifetimes <- MCShortLifetimes
    Sizes <- MCSizes
    InitialSize = 2
    MINIMAL_INTEREST_LIFETIME = 1
    RETRANSMISSION_TIME = 2
    MaxTime = 1

SPECIFICATION Spec
SYMMETRY Symmetry

INVARIANT TypeOK
INVARIANT TreeAndListAgree
PROPERTY AbstractSpec
