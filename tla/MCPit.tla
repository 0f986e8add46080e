-------------------------------- MODULE MCPit --------------------------------
(***************************************************************************)
(* Pit instantiated for TLC.  Three names, two of which are in an         *)
(* ancestor relation (/a is a prefix of /a/b), so Data for /a/b drains    *)
(* both; a capacity of two with three names, so eviction happens; times   *)
(* scaled so that RETRANSMISSION_TIME = 2 and MINIMAL_INTEREST_LIFETIME = *)
(* 1 units, with one lifetime below the floor, one that expires before    *)
(* the retransmission window closes, and one that outlives it.            *)
(***************************************************************************)
EXTENDS Pit, TLC

CONSTANTS f1, f2

MCNames == {<<"a">>, <<"a", "b">>, <<"b">>}
MCFaces == {f1, f2}
MCOneFace == {f1}
MCLifetimes == {0, 1, 3}
MCShortLifetimes == {0, 1}
MCSizes == {1, 2}

ASSUME MCSizes \subseteq Nat \ {0}   \* Pit is only built with 1000000

Symmetry == Permutations(MCFaces)
=============================================================================
