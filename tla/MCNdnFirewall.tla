---------------------------- MODULE MCNdnFirewall ----------------------------
(***************************************************************************)
(* NdnFirewall for TLC: the root, /a and /a/b as Interest and Data names; *)
(* /a as the one rule prefix, in either list, so that it admits or refuses*)
(* both /a and /a/b (overriding rules are checked in MCNameFilter); one   *)
(* face (aggregation is checked in MCPit); a                              *)
(* table of two entries, so that a third name evicts; one lifetime below  *)
(* the floor and one above it.                                             *)
(***************************************************************************)
EXTENDS NdnFirewall

CONSTANTS f1

MCNames == {<<>>, <<"a">>, <<"a", "b">>}
MCRuleNames == {<<"a">>, <<"a", "b">>}
MCFaces == {f1}
MCLiveRuleNames == {<<"a">>}
MCHash == [n \in MCNames |-> Len(n)]
MCTotalItems == [l \in {"white", "black"} |-> 1]

=============================================================================
