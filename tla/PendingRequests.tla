--------------------------- MODULE PendingRequests ---------------------------
(***************************************************************************)
(* What the Pending Interest Table promises its caller, with the tree,     *)
(* the recency list, the clock and the retransmission window abstracted   *)
(* away.  Every name has a set of downstream faces waiting for it.         *)
(*   - An Interest from a live face adds the face to the set of its name;  *)
(*     at the same time the set of at most one OTHER name may be dropped  *)
(*     (an eviction), never the set of the requested name itself.          *)
(*   - A Data packet returns the live faces waiting on its name or on any  *)
(*     ancestor prefix of it, and empties exactly those sets.              *)
(*   - A face may disappear; it is then never returned again.              *)
(***************************************************************************)
EXTENDS SequencesExt

CONSTANTS
    Names,      \* the names Interests and Data can carry (sequences of components)
    Faces,      \* downstream faces
    NoName      \* no eviction in this step

ASSUME NoName \notin Names

VARIABLES
    waiting,    \* waiting[n]: faces waiting for Data named n (dead ones included)
    alive,      \* faces that still exist
    delivered   \* faces the last Data packet was handed to

Ancestors(d) == {n \in Names : IsPrefix(n, d)}

Request(f, n) ==
    /\ f \in alive
    /\ \E victim \in (Names \ {n}) \cup {NoName} :
         waiting' = [m \in Names |->
                        IF m = n THEN waiting[m] \cup {f}
                        ELSE IF m = victim THEN {}
                        ELSE waiting[m]]
    /\ UNCHANGED <<alive, delivered>>

Satisfy(d) ==
    /\ delivered' = UNION {waiting[n] : n \in Ancestors(d)} \cap alive
    /\ waiting' = [m \in Names |-> IF m \in Ancestors(d) THEN {} ELSE waiting[m]]
    /\ UNCHANGED alive

FaceGone(f) ==
    /\ f \in alive
    /\ alive' = alive \ {f}
    /\ UNCHANGED <<waiting, delivered>>

Init ==
    /\ waiting = [n \in Names |-> {}]
    /\ alive = Faces
    /\ delivered = {}

Next ==
    \/ \E f \in Faces, n \in Names : Request(f, n)
    \/ \E d \in Names : Satisfy(d)
    \/ \E f \in Faces : FaceGone(f)

Spec == Init /\ [][Next]_<<waiting, alive, delivered>>
=============================================================================
