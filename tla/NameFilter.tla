------------------------------ MODULE NameFilter ------------------------------
(***************************************************************************)
(* The admission side of NdnFirewall (src/ndn-firewall.cpp): the two rule *)
(* lists, their cuckoo filters and slash counters, the default mode, the  *)
(* rule operations of commandPost and the decision interestNameFilter.     *)
(*                                                                         *)
(*   m_whitelist / m_blacklist                    -> rules["white"/"black"]*)
(*   m_cuckooFilterForWhitelist / ...Blacklist    -> filter[...], a bag of *)
(*                                                   hash values           *)
(*   m_slashCounterForWhitelist / ...Blacklist    -> slashCounter[...], a  *)
(*                            sequence of <<number of slashes, counter>>   *)
(*   m_mode                                       -> mode                  *)
(*                                                                         *)
(* A name is a sequence of components; its URI is "/c1/.../ck", and "/"   *)
(* for the empty name.  The code works on the URI string: it counts '/'   *)
(* and hashes substrings, which the definitions below do on the sequence. *)
(* Outcomes that change nothing (a warning sent back, a cuckoo filter Add *)
(* that reports NotEnoughSpace, a delete of an absent prefix) are         *)
(* stuttering steps and are not written as actions.                        *)
(***************************************************************************)
EXTENDS Naturals, SequencesExt, FiniteSets, BagsExt, TLC

CONSTANTS
    Names,          \* Interest names; closed under taking prefixes
    RuleNames,      \* name prefixes the control channel may post
    Hash,           \* std::hash<std::string> of the URI of each name
    TotalItems,     \* m_totalItemsInWhitelist / m_totalItemsInBlacklist
    COUNTER_BITS,   \* width of the counter in each slash-counter pair (uint16_t)
    ADD_FAILURE_LOAD,\* fingerprints a cuckoo filter holds before an Add may fail
    Text            \* the pieces a JSON reader sees in the string of each rule
                    \* (see commandGet below)

Lists == {"white", "black"}
Other(l) == IF l = "white" THEN "black" ELSE "white"
Modes == {"accept", "drop"}
PostedModes == Modes \cup {"reject"}   \* any other string the channel may carry

ASSUME /\ \A n \in Names : \A k \in 0..Len(n) : SubSeq(n, 1, k) \in Names
       /\ DOMAIN Hash = Names \cup RuleNames
       /\ TotalItems \in [Lists -> Nat]
       /\ COUNTER_BITS \in Nat \ {0}
       /\ ADD_FAILURE_LOAD \in Nat

VARIABLES rules, filter, slashCounter, mode

vars == <<rules, filter, slashCounter, mode>>

(* Number of '/' in the URI of a name *)
SlashCount(n) == IF n = <<>> THEN 1 ELSE Len(n)

(* std::count(namePrefix, '/') + 1: the slash-counter key of a rule *)
Bucket(r) == SlashCount(r) + 1

Wrap(x) == x % (2 ^ COUNTER_BITS)

MaxSlash(l) == Last(slashCounter[l])[1]

(* std::sort on pairs *)
PairLess(p, q) == p[1] < q[1] \/ (p[1] = q[1] /\ p[2] < q[2])

(* Seeded fault: appendRules without the final sort *)
AddToBucketsUnsorted(sc, b) ==
    LET at == {i \in DOMAIN sc : sc[i][1] = b}
    IN IF Last(sc)[1] < b THEN Append(sc, <<b, 1>>)
       ELSE IF at # {}
            THEN LET i == CHOOSE i \in at : \A j \in at : i <= j
                 IN [sc EXCEPT ![i][2] = Wrap(@ + 1)]
            ELSE Append(sc, <<b, 1>>)

(* appendRules, after cuckooFilter.Add(hash) returned Ok *)
AddToBuckets(sc, b) ==
    LET at == {i \in DOMAIN sc : sc[i][1] = b}
    IN IF Last(sc)[1] < b THEN Append(sc, <<b, 1>>)
       ELSE IF at # {}
            THEN LET i == CHOOSE i \in at : \A j \in at : i <= j
                 IN [sc EXCEPT ![i][2] = Wrap(@ + 1)]
            ELSE SortSeq(Append(sc, <<b, 1>>), PairLess)

(* Seeded fault: deleteRules that never erases an emptied pair *)
RemoveFromBucketsKeepZero(sc, b) ==
    LET at == {i \in DOMAIN sc : sc[i][1] = b}
    IN IF at = {} THEN sc
       ELSE LET i == CHOOSE i \in at : \A j \in at : i <= j
            IN [sc EXCEPT ![i][2] = Wrap(@ - 1)]

(* deleteRules: decrement the first pair with this key, erase it at 0 *)
RemoveFromBuckets(sc, b) ==
    LET at == {i \in DOMAIN sc : sc[i][1] = b}
    IN IF at = {} THEN sc
       ELSE LET i == CHOOSE i \in at : \A j \in at : i <= j
                c == Wrap(sc[i][2] - 1)
            IN IF c = 0 THEN RemoveAt(sc, i) ELSE [sc EXCEPT ![i][2] = c]

(* commandPost "append-accept" / "append-drop" for one prefix r that is   *)
(* in neither list while the list has room                                *)
AppendAllowed(l, r) ==
    /\ r \notin rules[Other(l)]
    /\ r \notin rules[l]
    /\ TotalItems[l] >= Cardinality(rules[l]) + 1

(* CuckooFilter::Add may answer NotEnoughSpace once the filter holds      *)
(* ADD_FAILURE_LOAD fingerprints (a full bucket pair and a parked victim); *)
(* below that it always succeeds.                                         *)
AddMayFail(l) == BagCardinality(filter[l]) >= ADD_FAILURE_LOAD

(* Seeded fault: the prefix and its slash count recorded before the       *)
(* result of cuckooFilter.Add is looked at                                 *)
AppendRuleNoSpaceRecorded(l, r) ==
    /\ AppendAllowed(l, r)
    /\ AddMayFail(l)
    /\ rules' = [rules EXCEPT ![l] = @ \cup {r}]
    /\ slashCounter' = [slashCounter EXCEPT ![l] = AddToBuckets(@, Bucket(r))]
    /\ UNCHANGED <<filter, mode>>

(* appendRules returning false: Add failed, nothing else is touched and   *)
(* commandPost only sends the "not enough space" warning                  *)
AppendRuleNoSpace(l, r) ==
    /\ AppendAllowed(l, r)
    /\ AddMayFail(l)
    /\ UNCHANGED vars

(* appendRules after cuckooFilter.Add(hash) returned Ok *)
AppendRule(l, r) ==
    /\ AppendAllowed(l, r)
    /\ filter' = [filter EXCEPT ![l] = @ (+) SetToBag({Hash[r]})]
    /\ rules' = [rules EXCEPT ![l] = @ \cup {r}]
    /\ slashCounter' = [slashCounter EXCEPT ![l] = AddToBuckets(@, Bucket(r))]
    /\ UNCHANGED mode

(* Seeded fault: a filter Delete that drops every copy of the fingerprint *)
DeleteRuleAllCopies(l, r) ==
    /\ r \in rules[l]
    /\ rules' = [rules EXCEPT ![l] = @ \ {r}]
    /\ slashCounter' = [slashCounter EXCEPT ![l] = RemoveFromBuckets(@, Bucket(r))]
    /\ filter' = [filter EXCEPT ![l] = BagRemoveAll(@, Hash[r])]
    /\ UNCHANGED mode

(* commandPost "delete-accept" / "delete-drop" for a prefix r of the list:*)
(* erase from the set, then deleteRules (buckets, then cuckoo Delete).     *)
DeleteRule(l, r) ==
    /\ r \in rules[l]
    /\ rules' = [rules EXCEPT ![l] = @ \ {r}]
    /\ slashCounter' = [slashCounter EXCEPT ![l] = RemoveFromBuckets(@, Bucket(r))]
    /\ filter' = [filter EXCEPT ![l] = @ (-) SetToBag({Hash[r]})]
    /\ UNCHANGED mode

(* Seeded fault: commandPost without the check that a posted mode is *)
(* "accept" or "drop"                                                   *)
SetModeUnchecked(m) ==
    /\ mode' = m
    /\ UNCHANGED <<rules, filter, slashCounter>>

(* commandPost "mode": the syntax check rejects any value other than     *)
(* "accept" and "drop" before anything is applied; the last value of the *)
(* array is the one that stays.                                          *)
SetMode(m) ==
    /\ m \in Modes
    /\ mode' = m
    /\ UNCHANGED <<rules, filter, slashCounter>>

(***************************************************************************)
(* interestNameFilter(uri): TRUE = accept.  The scan over the URI stops at *)
(* the slash whose number equals the larger of the two last slash-counter *)
(* keys; the prefixes it collected are tested longest first, each with    *)
(* the slash count the loop has reached, allow list before deny list.     *)
(***************************************************************************)
Tested(n, m) ==
    LET L == Len(n)
    IN IF 2 <= m /\ m <= L
       THEN {<<SubSeq(n, 1, k), k + 1>> : k \in 1..(m - 1)}   \* breakCheck
       ELSE IF L = 0 THEN {<<<<>>, 1>>}
       ELSE {<<SubSeq(n, 1, k), k>> : k \in 1..L}

ScanBound == IF MaxSlash("white") >= MaxSlash("black")
             THEN MaxSlash("white") ELSE MaxSlash("black")

Hit(l, t) == MaxSlash(l) >= t[2] /\ BagIn(Hash[t[1]], filter[l])

(* the collected prefixes a Contains test of either filter answers Ok for *)
FilterHits(n) ==
    IF ScanBound = 0 THEN {}
    ELSE {t \in Tested(n, ScanBound) : Hit("white", t) \/ Hit("black", t)}

InterestNameFilter(n) ==
    LET hits == FilterHits(n)
    IN IF hits = {} THEN mode = "accept"
       ELSE Hit("white", CHOOSE t \in hits : \A u \in hits : Len(u[1]) <= Len(t[1]))

(***************************************************************************)
(* commandGet: the replies a "get" document is answered with.  A reply is *)
(* a record; the rule list of getRules is the sequence of pieces the      *)
(* response string is appended from, each prefix one piece.  std::set     *)
(* iterates in string order; the model takes some fixed order of the set. *)
(* getRules pastes a prefix's string between quotes unescaped: a prefix  *)
(* is the one piece <<Item(r)>> unless its string holds a '"', which then *)
(* ends a piece for any reader of the reply; Text[r] gives those pieces.  *)
(* A document is [isObject, members], a member [name, isArray, values].  *)
(***************************************************************************)
Sym(c) == [sym |-> c]
Item(r) == [prefix |-> r]
Error(reason) == [kind |-> "error", reason |-> reason]

(* Seeded fault: only one pop_back after the loop *)
GetRulesPopOnce(l) ==
    LET opened == FoldLeft(LAMBDA acc, r : acc \o <<Sym("\"")>> \o Text[r] \o <<Sym("\""), Sym(","), Sym(" ")>>,
                           <<Sym("[")>>, SetToSeq(rules[l]))
        trimmed == IF opened # <<Sym("[")>> THEN Front(opened) ELSE opened
    IN [kind |-> "rules", list |-> l, array |-> Append(trimmed, Sym("]"))]

(* getRules: "[", then "\"prefix\", " per rule, the last ", " popped,   *)
(* then "]"; wrapped as {"whitelist":...} or {"blacklist":...}            *)
GetRules(l) ==
    LET opened == FoldLeft(LAMBDA acc, r : acc \o <<Sym("\"")>> \o Text[r] \o <<Sym("\""), Sym(","), Sym(" ")>>,
                           <<Sym("[")>>, SetToSeq(rules[l]))
        trimmed == IF opened # <<Sym("[")>> THEN SubSeq(opened, 1, Len(opened) - 2) ELSE opened
    IN [kind |-> "rules", list |-> l, array |-> Append(trimmed, Sym("]"))]

(* The first syntax error of a member, checked in the code's order: the  *)
(* member name, then the array, then each value; "none" if it passes.     *)
Fault(m) ==
    CASE m.name \notin {"mode", "rules"}                     -> "member"
      [] ~m.isArray                                         -> "array"
      [] m.name = "mode" /\ m.values # <<>>                 -> "mode"
      [] m.name = "rules" /\ \E i \in DOMAIN m.values :
                               m.values[i] \notin Lists     -> "rules"
      [] OTHER                                              -> "none"

(* The second pass: "mode" answers the mode, "rules" runs getRules per value *)
Answer(m) ==
    IF m.name = "mode" THEN <<[kind |-> "mode", mode |-> mode]>>
    ELSE [i \in DOMAIN m.values |-> GetRules(m.values[i])]

Answers(members) == FoldLeft(LAMBDA acc, m : acc \o Answer(m), <<>>, members)

FirstFault(doc) == SelectInSeq(doc, LAMBDA m : Fault(m) # "none")

(* Seeded fault: each member answered as soon as it has been checked *)
CommandGetOnePass(doc) ==
    LET ms == doc.members
        k == FirstFault(ms)
    IN IF ~doc.isObject THEN <<Error("object")>>
       ELSE IF k = 0 THEN Answers(ms)
       ELSE Answers(SubSeq(ms, 1, k - 1)) \o <<Error(Fault(ms[k]))>>

(* commandGet: the whole document is checked before anything is answered;*)
(* the first error is the only reply.                                     *)
CommandGet(doc) ==
    LET ms == doc.members
        k == FirstFault(ms)
    IN IF ~doc.isObject THEN <<Error("object")>>
       ELSE IF k = 0 THEN Answers(ms)
       ELSE <<Error(Fault(ms[k]))>>

(* The get documents a client may send: up to two members with distinct *)
(* names (with a repeated name the code reads the first member's array   *)
(* for both), arrays of up to two values.                                 *)
GetValues == {<<>>, <<"white">>, <<"black">>, <<"grey">>, <<"white", "black">>}
GetMembers == [name : {"mode", "rules", "rule"}, isArray : {TRUE}, values : GetValues]
                \cup [name : {"mode", "rules"}, isArray : {FALSE}, values : {<<>>}]
GetDocuments ==
    {[isObject |-> FALSE, members |-> <<>>]}
      \cup {[isObject |-> TRUE, members |-> ms] :
              ms \in {<<>>} \cup {<<m>> : m \in GetMembers}
                \cup {<<m1, m2>> \in GetMembers \X GetMembers : m1.name # m2.name}}

Init ==
    /\ rules = [l \in Lists |-> {}]
    /\ filter = [l \in Lists |-> EmptyBag]
    /\ slashCounter = [l \in Lists |-> <<<<0, 0>>>>]
    /\ mode \in Modes     \* "-m accept" or "-m drop" on the command line

Next ==
    \/ \E l \in Lists, r \in RuleNames :
          AppendRule(l, r) \/ AppendRuleNoSpace(l, r) \/ DeleteRule(l, r)
    \/ \E m \in PostedModes : SetMode(m)

Spec == Init /\ [][Next]_vars

-----------------------------------------------------------------------------
(***************************************************************************)
(* Properties                                                              *)
(***************************************************************************)

TypeOK ==
    /\ rules \in [Lists -> SUBSET RuleNames]
    /\ \A l \in Lists : IsABag(filter[l])
    /\ slashCounter \in [Lists -> Seq(Nat \X Nat)]
    /\ mode \in Modes

(* The decision spec.md 4.3 describes, on the exact rule sets: the longest *)
(* registered prefix of the name decides (allow wins a tie, which mutual  *)
(* exclusion makes impossible anyway); with no registered prefix, the mode.*)
LongestPrefixDecision(n) ==
    LET matches == {r \in rules["white"] \cup rules["black"] : IsPrefix(r, n)}
    IN IF matches = {} THEN mode = "accept"
       ELSE (CHOOSE r \in matches : \A q \in matches : Len(q) <= Len(r))
               \in rules["white"]

(* Whatever sequence of appends and deletes built the lists, the cuckoo   *)
(* filter walk of interestNameFilter, gated by the slash counters, decides *)
(* every Interest exactly as the longest-prefix rule over the exact lists *)
(* (hash collisions aside: Hash is injective in the model).               *)
FilterDecidesLongestPrefix ==
    \A n \in Names : InterestNameFilter(n) = LongestPrefixDecision(n)

(* Reading a getRules array back: "[" then "]", or quoted prefixes        *)
(* separated by ", " and closed by "]".  The set of readings, empty when   *)
(* the pieces are not such an array.                                      *)
RECURSIVE ReadItems(_)
ReadItems(s) ==
    IF Len(s) >= 4 /\ s[1] = Sym("\"") /\ "prefix" \in DOMAIN s[2] /\ s[3] = Sym("\"")
    THEN IF Len(s) = 4 /\ s[4] = Sym("]") THEN {{s[2].prefix}}
         ELSE IF Len(s) > 5 /\ s[4] = Sym(",") /\ s[5] = Sym(" ")
              THEN {{s[2].prefix} \cup S : S \in ReadItems(SubSeq(s, 6, Len(s)))}
              ELSE {}
    ELSE {}

ReadArray(s) ==
    IF s = <<Sym("["), Sym("]")>> THEN {{}}
    ELSE IF Len(s) > 0 /\ s[1] = Sym("[") THEN ReadItems(Tail(s)) ELSE {}

(* spec.md 6 (getMode, listRules): the queries a get document may carry, *)
(* and what each asks for, in order.                                      *)
GetWellFormed(doc) ==
    /\ doc.isObject
    /\ \A i \in DOMAIN doc.members :
          LET m == doc.members[i]
          IN /\ m.isArray
             /\ \/ m.name = "mode" /\ m.values = <<>>
                \/ m.name = "rules" /\ Range(m.values) \subseteq Lists

Requested(doc) ==
    FoldLeft(LAMBDA acc, m : acc \o (IF m.name = "mode" THEN <<"mode">> ELSE m.values),
             <<>>, doc.members)

(* commandGet answers a well-formed get document with one reply per query,*)
(* in order: the current mode, or a JSON array that reads back as exactly *)
(* the current rule list; any other document gets one syntax error and   *)
(* nothing else, however far into it the error sits (the code checks the *)
(* whole document before it answers anything).                           *)
GetRepliesAsRequested ==
    \A doc \in GetDocuments :
        LET rs == CommandGet(doc)
            q == Requested(doc)
        IN IF GetWellFormed(doc)
           THEN /\ Len(rs) = Len(q)
                /\ \A i \in 1..Len(q) :
                      IF q[i] = "mode"
                      THEN rs[i].kind = "mode" /\ rs[i].mode = mode
                      ELSE /\ rs[i].kind = "rules" /\ rs[i].list = q[i]
                           /\ ReadArray(rs[i].array) = {rules[q[i]]}
           ELSE Len(rs) = 1 /\ rs[1].kind = "error"

(* spec.md 3: each slash-counter pair counts the rules of the list with   *)
(* that many slashes, the pairs are sorted, the (0, 0) sentinel stays     *)
(* first, and a pair disappears when its count reaches zero.              *)
BucketsCountRules ==
    \A l \in Lists :
        LET keys == {Bucket(r) : r \in rules[l]}
            Count(b) == Cardinality({r \in rules[l] : Bucket(r) = b})
        IN slashCounter[l] =
             <<<<0, 0>>>> \o SetToSortSeq({<<b, Count(b)>> : b \in keys}, PairLess)

(* spec.md 3 and 5: each cuckoo filter holds one fingerprint per prefix of *)
(* its list and nothing else, whatever sequence of appends (failed ones   *)
(* included), deletes and colliding hashes led here; a failed Add leaves  *)
(* the set and the counters untouched.                                     *)
FilterHoldsExactlyTheRules ==
    \A l \in Lists :
        filter[l] = BagOfAll(LAMBDA r : Hash[r], SetToBag(rules[l]))

(* spec.md 5: false negatives never occur: an Interest with a registered  *)
(* prefix (other than the root, which the walk of spec.md 4.3 never       *)
(* tests) is never decided by the default mode, even when other prefixes  *)
(* share its fingerprint and one of them was deleted.                     *)
NoRuleIgnored ==
    \A n \in Names :
        (\E r \in (rules["white"] \cup rules["black"]) \ {<<>>} : IsPrefix(r, n))
            => FilterHits(n) # {}
=============================================================================
