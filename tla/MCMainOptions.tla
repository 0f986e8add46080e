---------------------------- MODULE MCMainOptions ----------------------------
(***************************************************************************)
(* MainOptions for TLC: every argument vector of up to four tokens drawn  *)
(* from options (valid, unknown, -h) and values (modes, a bad word, digit *)
(* strings including the empty one and one above 65535, addresses); and,  *)
(* for the index wrap, every vector of up to five tokens of a smaller set *)
(* with a two-bit index.                                                   *)
(***************************************************************************)
EXTENDS MainOptions

MCTokens == {"-m", "-lp", "-ra", "-h", "-q", "accept", "x", "7", "", "70000",
             "10.0.0.1"}
MCArgVectors == UNION {[1..k -> MCTokens] : k \in 0..4}

MCWrapTokens == {"-m", "-lp", "-h", "accept", "7"}
MCWrapVectors == UNION {[1..k -> MCWrapTokens] : k \in 0..5}

MCDigitStrings == {"7", "", "70000"}
MCAtoi == [t \in MCDigitStrings |-> CASE t = "7" -> 7 [] t = "" -> 0
                                      [] t = "70000" -> 70000]
MCAddresses == {"10.0.0.1"}
=============================================================================
