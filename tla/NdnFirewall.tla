----------------------------- MODULE NdnFirewall -----------------------------
(***************************************************************************)
(* The firewall's event handlers (src/ndn-firewall.cpp) composing the     *)
(* admission decision (NameFilter) with the Pending Interest Table (Pit). *)
(* Each io_service callback is one atomic step:                           *)
(*   onIngressInterest : interestNameFilter, then Pit::insert, then send  *)
(*                       upstream when insert returned true               *)
(*   onEgressData      : Pit::get, then send to every returned face       *)
(*   onFaceError       : exit(-1) when the failing face is the egress face*)
(*   commandPost       : the rule and mode operations of NameFilter       *)
(* The Pit is built with 1000000 entries and setSize is never called.      *)
(***************************************************************************)
EXTENDS Naturals, SequencesExt

CONSTANTS
    Names, Faces, Lifetimes, InitialSize,
    MINIMAL_INTEREST_LIFETIME, RETRANSMISSION_TIME, MaxTime,
    RuleNames, Hash, TotalItems, COUNTER_BITS, ADD_FAILURE_LOAD

VARIABLES
    tree, list, maxSize, now, alive, delivered, insertResult, forwardedAt,
    rules, filter, slashCounter, mode,
    running,    \* FALSE once exit(-1) has been called
    upstream    \* names of the Interests sent on the egress face that no
                \* Data from upstream has answered yet

pitVars == <<tree, list, maxSize, now, alive, delivered, insertResult, forwardedAt>>
filterVars == <<rules, filter, slashCounter, mode>>
vars == <<pitVars, filterVars, running, upstream>>

P == INSTANCE Pit WITH Sizes <- {InitialSize}
F == INSTANCE NameFilter WITH Text <- [r \in RuleNames |-> <<[prefix |-> r]>>]

PitInsert(f, n, lt) ==
    \/ P!InsertRejected(f, n, lt)
    \/ P!InsertExisting(f, n, lt)
    \/ P!InsertNew(f, n, lt)

(* NdnFirewall::onIngressInterest *)
OnIngressInterest(f, n, lt) ==
    /\ running
    /\ f \in alive
    /\ IF F!InterestNameFilter(n)
       THEN /\ PitInsert(f, n, lt)
            /\ upstream' = IF insertResult'.outcome = "forward"
                           THEN upstream \cup {n} ELSE upstream
       ELSE UNCHANGED <<pitVars, upstream>>       \* logged and dropped
    /\ UNCHANGED <<filterVars, running>>

(* NdnFirewall::onEgressData: the faces Pit::get returns are sent the Data.*)
(* A Data named d answers the upstream Interests for d and its prefixes.  *)
OnEgressData(d) ==
    /\ running
    /\ P!Get(d)
    /\ upstream' = {n \in upstream : ~IsPrefix(n, d)}
    /\ UNCHANGED <<filterVars, running>>

(* NdnFirewall::onFaceError for the egress face: exit(-1) *)
OnEgressFaceError ==
    /\ running
    /\ running' = FALSE
    /\ UNCHANGED <<pitVars, filterVars, upstream>>

(* commandPost, one rule or mode value at a time *)
OnCommand ==
    /\ running
    /\ \/ \E l \in F!Lists, r \in RuleNames :
             F!AppendRule(l, r) \/ F!AppendRuleNoSpace(l, r) \/ F!DeleteRule(l, r)
       \/ \E m \in F!PostedModes : F!SetMode(m)
    /\ UNCHANGED <<pitVars, running, upstream>>

(* Environment: a downstream face goes away (onMasterFaceError only logs; *)
(* the transport drops its shared_ptr), or the clock advances.             *)
Environment ==
    /\ running
    /\ \/ \E f \in Faces : P!FaceGone(f)
       \/ P!Tick
    /\ UNCHANGED <<filterVars, running, upstream>>

Init ==
    /\ P!Init
    /\ F!Init
    /\ running = TRUE
    /\ upstream = {}

Next ==
    \/ \E f \in Faces, n \in Names, lt \in Lifetimes : OnIngressInterest(f, n, lt)
    \/ \E d \in Names : OnEgressData(d)
    \/ OnEgressFaceError
    \/ OnCommand
    \/ Environment

Spec == Init /\ [][Next]_vars

(* The upstream answers every Interest the firewall sent it and has not   *)
(* yet answered (an assumption about the producer side, not a guarantee  *)
(* of this code); the single io_service thread then runs onEgressData.   *)
UpstreamAnswers == \A n \in Names : WF_vars(n \in upstream /\ OnEgressData(n))

LiveSpec == Spec /\ UpstreamAnswers

-----------------------------------------------------------------------------
(* A face aggregated into the entry of a name whose Interest went upstream *)
(* and is still unanswered is released when the answer comes: Pit::get on *)
(* the Data hands it over and clears it, unless the entry was evicted or  *)
(* the process exited on an egress error first.                           *)
WaitersReleased ==
    \A n \in Names, f \in Faces :
        (n \in upstream /\ n \in DOMAIN tree /\ f \in tree[n].faces)
            ~> (~running \/ n \notin DOMAIN tree \/ f \notin tree[n].faces)
=============================================================================
