----------------------------- MODULE MCNameFilter -----------------------------
(***************************************************************************)
(* NameFilter instantiated for TLC: Interest names of up to three        *)
(* components and rules of one or two over {a, b}, so that one-component and two-component rules coexist and the *)
(* slash counters need both the append-at-end and the sort path; lists of *)
(* up to three rules each; an injective hash.                              *)
(***************************************************************************)
EXTENDS NameFilter

MCNames == UNION {[1..k -> {"a", "b"}] : k \in 0..3}

\* Prefixes the control channel posts: every name of one or two components
MCRuleNames == {n \in MCNames : Len(n) \in 1..2}

\* std::hash on distinct short strings: distinct values
Code(c) == IF c = "a" THEN 1 ELSE 2
RECURSIVE Digits(_)
Digits(n) == IF n = <<>> THEN 0 ELSE Code(Head(n)) + 3 * Digits(Tail(n))
MCHash == [n \in MCNames |-> Digits(n)]

\* ... and a hash under which /b/a and /a collide (one list may hold both,
\* and /b/a/x or /b/a/b then also test positive for /a)
MCCollidingHash ==
    [n \in MCNames |-> IF n = <<"b", "a">> THEN Digits(<<"a">>) ELSE Digits(n)]

\* No prefix string holds a '"': each is one piece of a getRules reply
MCText == [r \in MCRuleNames |-> <<Item(r)>>]

\* The rule string /a", "/b (posted in a JSON array as "/a\", \"/b") as a
\* name of two components and two slashes; pasted between quotes by
\* getRules, it reads as the two prefixes /a and /b.
MCQuoted == <<"a\", \"", "b">>
MCQuoteRuleNames == {<<"a">>, MCQuoted}
MCQuoteHash == [n \in MCNames \cup {MCQuoted} |->
                  IF n = MCQuoted THEN 100 ELSE Digits(n)]
MCQuoteText ==
    [r \in MCQuoteRuleNames |->
        IF r = MCQuoted
        THEN <<Item(<<"a">>), Sym("\""), Sym(","), Sym(" "), Sym("\""), Item(<<"b">>)>>
        ELSE <<Item(r)>>]

MCTotalItems == [l \in Lists |-> 3]
=============================================================================
