--------------------------------- MODULE Pit ---------------------------------
(***************************************************************************)
(* The Pending Interest Table of src/pit.cpp with its entries             *)
(* (src/pit_entry.cpp).                                                    *)
(*                                                                         *)
(*   _tree        -> tree  : the NamedTree, a function from the names that *)
(*                           have an entry to the PitEntry kept there      *)
(*   _list        -> list  : names, most recently inserted/refreshed first *)
(*   _list_index  -> (none): a map from toUri(name) to its list position;  *)
(*                           toUri is injective on names, so the index     *)
(*                           holds exactly the names of the list           *)
(*   _max_size    -> maxSize                                               *)
(*   steady_clock -> now   : a discrete clock, one unit per Tick           *)
(*   weak_ptr<Face> lock() -> membership of alive                          *)
(*                                                                         *)
(* Every handler runs to completion on the single io_service thread       *)
(* (src/main.cpp runs ios.run() on the main thread only), so each         *)
(* operation is one atomic step.                                           *)
(***************************************************************************)
EXTENDS Naturals, SequencesExt, Functions

CONSTANTS
    Names,                      \* names carried by Interests and Data
    Faces,                      \* downstream faces
    Lifetimes,                  \* Interest lifetimes the model sends
    Sizes,                      \* values setSize may be called with
    InitialSize,                \* Pit(size) in the constructor
    MINIMAL_INTEREST_LIFETIME,  \* pit.cpp:20, 5 ms
    RETRANSMISSION_TIME,        \* pit_entry.cpp:20, 250 ms
    MaxTime                     \* bound on the clock

ASSUME /\ Lifetimes \subseteq Nat /\ Sizes \subseteq Nat
       /\ InitialSize \in Nat /\ MaxTime \in Nat
       /\ {MINIMAL_INTEREST_LIFETIME, RETRANSMISSION_TIME} \subseteq Nat

VARIABLES
    tree, list, maxSize, now, alive,
    delivered,      \* the set Pit::get returned in the last step
    insertResult,   \* what the last Pit::insert did (history, for properties)
    forwardedAt     \* forwardedAt[n]: time of the last insert of n that
                    \* returned true (history, for properties)

vars == <<tree, list, maxSize, now, alive, delivered, insertResult, forwardedAt>>

Never == -1
NoResult == [name |-> <<>>, outcome |-> "none"]
Outcomes == {"forward", "suppress", "reject"}

(* PitEntry: _faces, _keep_until, _last_update *)
Entry == [faces : SUBSET Faces, keepUntil : Nat, lastUpdate : Nat]

(* Seeded fault for mutation analysis: a new entry stamped one window in *)
(* the past, so that its first retransmission always goes upstream.       *)
NewEntryBackdated(f, lt) ==
    [faces |-> {f}, keepUntil |-> now + lt, lastUpdate |-> now - RETRANSMISSION_TIME]

(* PitEntry::PitEntry *)
NewEntry(f, lt) == [faces |-> {f}, keepUntil |-> now + lt, lastUpdate |-> now]

(* Seeded fault: addFace that leaves _last_update alone *)
AddFaceNoTouch(e, f, lt) ==
    [faces |-> e.faces \cup {f}, keepUntil |-> now + lt, lastUpdate |-> e.lastUpdate]

(* PitEntry::addFace: the refreshed entry, and its return value *)
AddFace(e, f, lt) == [faces |-> e.faces \cup {f}, keepUntil |-> now + lt, lastUpdate |-> now]
NeedRetransmission(e) == e.lastUpdate + RETRANSMISSION_TIME < now

(* PitEntry::isValid *)
IsValid(e) == e.keepUntil > now

Record(n, out) ==
    /\ insertResult' = [name |-> n, outcome |-> out]
    /\ forwardedAt' = IF out = "forward" THEN [forwardedAt EXCEPT ![n] = now]
                                         ELSE forwardedAt

(* Pit::insert, lifetime below the minimum: returns false, no change *)
InsertRejected(f, n, lt) ==
    /\ f \in alive
    /\ lt < MINIMAL_INTEREST_LIFETIME
    /\ Record(n, "reject")
    /\ UNCHANGED <<tree, list, maxSize, now, alive, delivered>>

(* Pit::insert, name already has an entry: splice it to the front of the  *)
(* list and return addFace's verdict.                                      *)
InsertExisting(f, n, lt) ==
    /\ f \in alive
    /\ lt >= MINIMAL_INTEREST_LIFETIME
    /\ n \in DOMAIN tree
    /\ list' = <<n>> \o Remove(list, n)
    /\ tree' = [tree EXCEPT ![n] = AddFace(@, f, lt)]
    /\ Record(n, IF NeedRetransmission(tree[n]) THEN "forward" ELSE "suppress")
    /\ UNCHANGED <<maxSize, now, alive, delivered>>

(* Seeded fault: the eviction removes the front of the list (the new     *)
(* name) from the tree instead of the back.                               *)
InsertNewEvictFront(f, n, lt) ==
    /\ f \in alive
    /\ lt >= MINIMAL_INTEREST_LIFETIME
    /\ n \notin DOMAIN tree
    /\ LET t1 == (n :> NewEntry(f, lt)) @@ tree
           l1 == <<n>> \o list
       IN IF Len(l1) > maxSize
          THEN /\ tree' = Restrict(t1, DOMAIN t1 \ {Head(l1)})
               /\ list' = Front(l1)
          ELSE /\ tree' = t1
               /\ list' = l1
    /\ Record(n, "forward")
    /\ UNCHANGED <<maxSize, now, alive, delivered>>

(* Pit::insert, new name: insert into the tree and at the front of the    *)
(* list; if the list is now longer than _max_size, drop its last name from *)
(* tree, index and list (once).  Returns true.                             *)
InsertNew(f, n, lt) ==
    /\ f \in alive
    /\ lt >= MINIMAL_INTEREST_LIFETIME
    /\ n \notin DOMAIN tree
    /\ LET t1 == (n :> NewEntry(f, lt)) @@ tree
           l1 == <<n>> \o list
       IN IF Len(l1) > maxSize
          THEN /\ tree' = Restrict(t1, DOMAIN t1 \ {Last(l1)})
               /\ list' = Front(l1)
          ELSE /\ tree' = t1
               /\ list' = l1
    /\ Record(n, "forward")
    /\ UNCHANGED <<maxSize, now, alive, delivered>>

(* Seeded fault: findAllUntil stopping above the node of d itself *)
FindAllUntilStrict(d) == {n \in DOMAIN tree : IsStrictPrefix(n, d)}

(* NamedTree::findAllUntil: the names with an entry on the path from the *)
(* root to d, d included                                                   *)
FindAllUntil(d) == {n \in DOMAIN tree : IsPrefix(n, d)}

(* PitEntry::getAndResetFaces: the faces whose weak_ptr still locks *)
LiveFaces(e) == e.faces \cap alive

(* Seeded fault: getAndResetFaces without the _faces.clear() *)
GetNoReset(d) ==
    LET hit == FindAllUntil(d)
    IN /\ delivered' = UNION {LiveFaces(tree[n]) : n \in hit}
       /\ UNCHANGED tree
       /\ insertResult' = NoResult
       /\ UNCHANGED <<list, maxSize, now, alive, forwardedAt>>

(* Pit::get: every entry on the path from the root to the Data name       *)
(* (findAllUntil) hands over its live faces and is emptied, not removed.  *)
Get(d) ==
    LET hit == FindAllUntil(d)
    IN /\ delivered' = UNION {LiveFaces(tree[n]) : n \in hit}
       /\ tree' = [n \in DOMAIN tree |->
                     IF n \in hit THEN [tree[n] EXCEPT !.faces = {}] ELSE tree[n]]
       /\ insertResult' = NoResult
       /\ UNCHANGED <<list, maxSize, now, alive, forwardedAt>>

(* Pit::setSize: no eviction *)
SetSize(s) ==
    /\ maxSize' = s
    /\ insertResult' = NoResult
    /\ UNCHANGED <<tree, list, now, alive, delivered, forwardedAt>>

(* Environment: a face is destroyed by the transport; weak_ptrs to it     *)
(* no longer lock.                                                         *)
FaceGone(f) ==
    /\ f \in alive
    /\ alive' = alive \ {f}
    /\ insertResult' = NoResult
    /\ UNCHANGED <<tree, list, maxSize, now, delivered, forwardedAt>>

(* Environment: steady_clock advances *)
Tick ==
    /\ now < MaxTime
    /\ now' = now + 1
    /\ insertResult' = NoResult
    /\ UNCHANGED <<tree, list, maxSize, alive, delivered, forwardedAt>>

Init ==
    /\ tree = <<>>      \* the empty function
    /\ list = <<>>
    /\ maxSize = InitialSize
    /\ now = 0
    /\ alive = Faces
    /\ delivered = {}
    /\ insertResult = NoResult
    /\ forwardedAt = [n \in Names |-> Never]

Next ==
    \/ \E f \in Faces, n \in Names, lt \in Lifetimes :
          \/ InsertRejected(f, n, lt)
          \/ InsertExisting(f, n, lt)
          \/ InsertNew(f, n, lt)
    \/ \E d \in Names : Get(d)
    \/ \E s \in Sizes : SetSize(s)
    \/ \E f \in Faces : FaceGone(f)
    \/ Tick

Spec == Init /\ [][Next]_vars

-----------------------------------------------------------------------------
(***************************************************************************)
(* Properties                                                              *)
(***************************************************************************)

TypeOK ==
    /\ DOMAIN tree \subseteq Names
    /\ \A n \in DOMAIN tree : tree[n] \in Entry
    /\ list \in Seq(Names)
    /\ maxSize \in Nat
    /\ now \in 0..MaxTime
    /\ alive \subseteq Faces
    /\ delivered \subseteq Faces
    /\ insertResult \in {NoResult} \cup [name : Names, outcome : Outcomes]
    /\ forwardedAt \in [Names -> {Never} \cup (0..MaxTime)]

(* The tree, the recency list and its index stay in step: every name with *)
(* an entry appears exactly once in _list, and nothing else does.  If they *)
(* drift apart, _list_index.at() in Pit::insert throws, or an eviction     *)
(* removes a name from the list whose entry stays in the tree forever.     *)
TreeAndListAgree ==
    /\ IsInjective(list)
    /\ ToSet(list) = DOMAIN tree

(* While a name keeps its entry, Pit::insert lets an Interest for it go   *)
(* upstream again only after more than RETRANSMISSION_TIME has passed    *)
(* since the previous one went: suppressed retransmissions refresh        *)
(* _last_update but never let a second copy through inside the window.    *)
RetransmissionWindow ==
    [][\A n \in Names :
         (insertResult'.outcome = "forward" /\ insertResult'.name = n
            /\ n \in DOMAIN tree)
         => now > forwardedAt[n] + RETRANSMISSION_TIME]_vars

(* The detailed table implements the abstract one of PendingRequests:     *)
(* faces are aggregated per name, Data hands over and clears the faces of *)
(* its name and all its ancestors, and an insert loses at most the faces  *)
(* of one other name.                                                      *)
NoName == <<"none">>
Abstract == INSTANCE PendingRequests WITH
    waiting <- [n \in Names |-> IF n \in DOMAIN tree THEN tree[n].faces ELSE {}]
AbstractSpec == Abstract!Spec

-----------------------------------------------------------------------------
(***************************************************************************)
(* Statements the spec makes that the code does not keep (violation runs) *)
(***************************************************************************)

(* spec.md section 5: "for a given name, requests are forwarded upstream  *)
(* at most once per retransmission window".  An entry evicted by other    *)
(* names is forgotten, and the next Interest for it is forwarded at once. *)
AtMostOncePerWindow ==
    [][\A n \in Names :
         (insertResult'.outcome = "forward" /\ insertResult'.name = n
            /\ forwardedAt[n] # Never)
         => now > forwardedAt[n] + RETRANSMISSION_TIME]_vars

(* spec.md section 3: an entry is refreshed by "every subsequent request  *)
(* for the same name before expiry", and expiry destroys it (lazily).      *)
(* Pit::insert never calls isValid: an Interest arriving after the entry  *)
(* has expired is aggregated into it and suppressed.                       *)
ExpiredEntryNotRefreshed ==
    [][\A n \in Names :
         (insertResult'.outcome = "suppress" /\ insertResult'.name = n)
         => IsValid(tree[n])]_vars
=============================================================================
