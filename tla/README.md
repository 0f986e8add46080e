# TLA+ models of the NDN firewall

This directory holds TLA+ models of the NDN firewall in `src/`, together with
the TLC configurations that check them. The firewall sits between downstream
consumers and one upstream (egress) face. It does two things with each
incoming Interest:

- it decides whether the Interest is admitted, using an allow list and a deny
  list of name prefixes, which are stored in cuckoo filters; and
- it aggregates admitted Interests in a Pending Interest Table (PIT), so that
  each name is forwarded upstream at most once per 250 ms retransmission
  window, and the Data that comes back is handed to every face that asked.

A UDP control channel adds and removes rules, changes the default mode, and
queries the lists.

## System inventory

| Part | Source | State | Operations that change state |
|---|---|---|---|
| PIT | `src/pit.cpp`, `src/pit.h` | `_tree` (name → entry), `_list` (recency order), `_list_index`, `_max_size` | `insert`, `get`, `setSize` |
| PIT entry | `src/pit_entry.cpp`, `src/pit_entry.h` | weak faces, `_keep_until`, `_last_update` | `addFace` (returns "need retransmission"), `getAndResetFaces` |
| Name tree | `tree/named_tree.h` (not in the repository) | prefix tree of entries | find, insert, remove, `findAllUntil` |
| Classifier and rules | `src/ndn-firewall.cpp:109-175, 292-467` | two `std::set`s of prefixes, two cuckoo filters, two sorted vectors of `(slashes, counter)` pairs (`uint16_t`), `m_mode` | `commandPost` (mode, append-accept/drop, delete-accept/drop), `appendRules`, `deleteRules`; `interestNameFilter` only reads |
| Event handlers | `src/ndn-firewall.cpp:45-107` | the above plus the egress face | `onIngressInterest`, `onEgressData`, `onFaceError` (`exit(-1)` on the egress face) |
| Control channel | `src/ndn-firewall.cpp:177-290` | receive buffer | parsing; `commandGet` and `getRules` only reply |
| Transport faces | `src/network/*.h` | sockets and queues (declarations only) | connect, reconnect, send |
| Bootstrap | `src/main.cpp` | parsed options | builds the filters and the firewall, runs `ios.run()` |

**How the parts interact.** Everything runs on one `boost::asio::io_service`,
and `ios.run()` is called on the main thread only (`main.cpp:157`). Each
callback therefore runs to completion before the next one starts, and each
handler is modelled as one atomic step. Interleavings happen between
handlers:

- an Interest from some face;
- a Data from upstream;
- a command datagram;
- a face going away;
- time passing.

## Modules

- **`Pit.tla`** models `Pit` and `PitEntry`. Its variables map to the code as
  follows:
  - `tree` is `_tree` seen through its lookups, as a function from the
    names that carry an entry to entry records `[faces, keepUntil,
    lastUpdate]`;
  - `list` is `_list`, most recent first;
  - `maxSize` is `_max_size`;
  - `now` is `steady_clock`, in abstract ticks;
  - `alive` is the set of faces whose `shared_ptr` still exists;
  - `delivered` is the set of faces returned by the last `get`;
  - `insertResult` and `forwardedAt` are history variables, recording each
    insert's outcome and the time each name was last forwarded.

  The actions are the three exits of `Pit::insert`:
  - `InsertRejected`: the lifetime is below `MINIMAL_INTEREST_LIFETIME`;
  - `InsertExisting`: refresh with `addFace` and move the name to the front of
    the list;
  - `InsertNew`: a new entry, forwarded, with one eviction from the back when
    the table is over its bound.

  The other actions are `Get` (`findAllUntil`, the names with an entry on
  the path from the root to the Data name, then `getAndResetFaces` on
  each entry, which leaves the entries in place), `SetSize`, and two
  environment steps, `FaceGone` and `Tick`. `isValid` is defined, as in the
  code, and, as in the code, no action calls it.
- **`PendingRequests.tla`** is the abstract promise the PIT makes. Each name
  has a set of waiting faces, and the actions are:
  - a request adds a face to its name's set, and may drop the waiters of one
    other name (capacity eviction);
  - a Data for `d` delivers the live waiters of `d` and of its ancestors, and
    empties their sets.

  `Pit` implements it through
  `INSTANCE PendingRequests WITH waiting <- [n |-> faces of tree[n], or {}]`.
  The run checks `AbstractSpec` as a temporal property.
- **`NameFilter.tla`** models the classifier and the rule administration. Its
  variables are `rules`, `filter` (each cuckoo filter as a bag of hash
  values), `slashCounter` and `mode`.
  - `AppendRule` is `commandPost` append plus `appendRules`, including the
    final `std::sort`.
  - `AppendRuleNoSpace` is the same post when `CuckooFilter::Add` answers
    `NotEnoughSpace`: only a warning is sent. The filter library is not in
    the repository, so when Add may fail is a constant,
    `ADD_FAILURE_LOAD`; the runs set it to 1 so that failure can happen
    from the second rule on.
  - `DeleteRule` is `commandPost` delete plus `deleteRules`; the filter's
    `Delete` removes one copy of the fingerprint.
  - `SetMode` is `commandPost` mode, with its syntax check.
  - `InterestNameFilter(n)` translates the URI scan:
    - the break at the slash whose number is the larger of the last keys;
    - the prefixes collected and the slash count recorded with each;
    - the walk from longest to shortest, with the gate
      `slashCounter.back().first >= count`;
    - the allow list tested before the deny list;
    - the default mode when nothing is hit.
  - The counter width is the constant `COUNTER_BITS`, and counters are kept
    modulo `2^COUNTER_BITS`.
  - The queries change no state, so they are operators, not actions.
    - `CommandGet(doc)` is the sequence of replies `commandGet` sends for
      a document. It has the code's two passes: `FirstFault`/`Fault`
      check every member first, and then `Answers` replies to each query.
    - `GetRules(l)` builds the reply as the sequence of pieces `getRules`
      appends, and then does the two `pop_back`s. The pieces of each
      prefix string are the constant `Text`: one piece for a prefix,
      except where the string holds a `"`, which ends a piece for any
      reader of the reply.
    - A document is a record of members rather than JSON text.
      `GetDocuments` lists every get document with up to two members of
      distinct names.
- **`NdnFirewall.tla`** composes both modules through `INSTANCE`:
  - `OnIngressInterest` is the filter decision, then `Pit::insert`; if the
    insert says so, the name is sent upstream;
  - `OnEgressData` is `Pit::get`;
  - `OnEgressFaceError` stops the process;
  - `OnCommand` is any rule or mode operation;
  - `Environment` is a face disappearing or the clock advancing.

  `upstream` holds the names sent on the egress face that no Data has
  answered yet: a Data named `d` answers the Interests for `d` and its
  prefixes.
- **`MainOptions.tla`** models the command-line loop of `main`
  (`main.cpp:47-146`). Its variables are the argument vector (chosen in
  `Init`), the `uint8_t` index `i` (kept modulo `2^INDEX_BITS`), the parsed
  options, `breakCheck` and `done`. Each branch of the loop body is an action:
  - `LoopExit` when `i < argc` fails;
  - `Help` for `-h`;
  - `MissingValue` for an option with no value;
  - `SetOption` for a known option whose value passes its check;
  - `InvalidOption` for an unknown option or a bad value.

  Arguments are tokens. The constants say which tokens are digit strings
  (`checkUnsignedInt`, which also accepts the empty string), what `atoi`
  makes of them, and which are addresses.
- **`MCPit.tla`, `MCNameFilter.tla` and `MCNdnFirewall.tla`** fix the constants:
  - names are small sequences of the components `"a"` and `"b"`;
  - faces are model values;
  - `Hash` is an injective encoding of names (a recursive base-3 numeral).

## Runs

| Run | cfg | Expect | What it shows |
|---|---|---|---|
| pit_structure | `MCPit.cfg` | pass | Tree and list stay one-to-one and equal in names (`TreeAndListAgree`); across inserts, evictions and shrinking; the PIT refines `PendingRequests` (`AbstractSpec`). 3 names, 2 faces (symmetric), sizes {1, 2}, lifetimes {0, 1}, time 0..1. |
| pit_window | `MCPitWindow.cfg` | pass | While a name keeps its entry, it is forwarded again only after the window since the last update (`RetransmissionWindow`). 1 face, lifetimes {0, 1, 3}, RT = 2, time 0..4, so a window can open, close and reopen. |
| pit_evicted_reforwarded | `MCPit_AtMostOncePerWindow.cfg` | violation | Eviction makes the PIT forget a name. The name is forwarded again inside the window (finding). |
| pit_expired_suppresses | `MCPit_ExpiredEntryNotRefreshed.cfg` | violation | An expired entry still suppresses a new Interest (finding). |
| filter_rules | `MCNameFilter.cfg` | pass | After any sequence of appends, deletes and mode posts, two things hold. The counters describe exactly the rule lists (`BucketsCountRules`). The filter walk decides every name of length ≤ 3 as longest-prefix matching over the exact lists (`FilterDecidesLongestPrefix`). In every state, every get document of up to two members is answered correctly (`GetRepliesAsRequested`). A well-formed document gets one reply per query, in order: the current mode, or an array that a small reader (`ReadArray`) parses back to exactly the current list. Any other document gets a single syntax error and nothing more. Rules are names of 1 and 2 components, capacity 3 per list. |
| filter_quoted_prefix | `MCNameFilter_QuotedPrefix.cfg` | violation | A rule string holding `"` characters, listed by a get, reads back as other prefixes (finding). |
| filter_counter_wrap | `MCNameFilter_CounterWrap.cfg` | violation | A wrapped counter erases a pair that still has rules (finding; `uint16_t` in the code, 1 bit here so that three rules reach it). |
| filter_collisions | `MCNameFilter_Collisions.cfg` | pass | With `/b/a` and `/a` sharing a fingerprint and Adds that may fail, each filter holds exactly one fingerprint per registered prefix (`FilterHoldsExactlyTheRules`), and no Interest with a registered prefix falls through to the default mode (`NoRuleIgnored`: the filter gives no false negatives). |
| main_options | `MCMainOptions.cfg` | pass | For every command line of up to four tokens drawn from 11 (valid, unknown and `-h` options; good and bad modes; `""`, `7` and `70000`; an address), the loop goes on exactly for the well-formed command lines, with the last value of each option (`OptionsAsParsed`, compared against a reference reading written from the usage text). |
| main_index_wrap | `MCMainOptions_IndexWrap.cfg` | violation | The `uint8_t` index wraps, so the loop never ends on a long command line of valid pairs (finding; a 2-bit index and four tokens (argc 5) stand for 8 bits and 256 arguments). |
| firewall | `MCNdnFirewall.cfg` | pass | Whatever the interleaving of Interests, Data, rule changes, face loss and egress failure, if the upstream answers every forwarded Interest, every face aggregated into an unanswered forwarded Interest is eventually handed the Data, unless its entry was evicted or the process exited (`WaitersReleased`). Rule prefix `/a` only, in either list, to keep the liveness check small. |

**Bounds.** Three names, including a prefix pair `a`, `a/b`, exercise the
ancestor drain in `get` and eviction at capacity 1 and 2. The clock bound
`MaxTime` and the lifetimes are chosen so that an entry can expire and a window
can pass (RT = 2 with time up to 4). The classifier runs over every name of up
to 3 components and every rule of 1 or 2 components. That covers every case of
the scan:

- a break before the end of the URI;
- no break;
- the root name;
- the allow list and the deny list having different maximum lengths.

**Deadlock checking.** `MCNdnFirewall.cfg` disables deadlock checking, because
once the egress face fails the process exits (`ndn-firewall.cpp:105`) and no
step remains. The `MainOptions` cfgs disable it as well: `main`'s option
loop ends by leaving the loop (`done`) or by `exit`, after which the model
has no step. All other runs check deadlock.

**Fairness.** Two specifications assume fairness.

- `MainOptions` is weakly fair on its loop step. `main` runs the loop alone,
  before `ios.run()` starts any callback, so nothing can stop it.
- `NdnFirewall!LiveSpec` (the firewall run) adds `UpstreamAnswers`: for each name, weak fairness
  of the Data for it while an Interest for it is unanswered upstream. This
  is an assumption about the producer side, which the code cannot
  guarantee. Given it, the single `io_service` thread runs `onEgressData`,
  and the property asks whether the firewall itself ever strands a waiting
  face.

No fairness is put on consumers: they may never retransmit, and a face may
disappear at any time.

**Mutants.** Each property of a passing run is shown to catch a plausible bug.
The seeded-fault operators sit just above the definitions they replace:

- a back-dated new entry;
- a failed Add that still records the prefix in the set and the counters;
- a filter Delete that drops every copy of a fingerprint;
- `findAllUntil` stopping above the Data's own node;
- `getRules` with a single `pop_back`;
- `commandGet` answering each member as soon as it has been checked;
- an unchecked `-m` value;
- eviction from the wrong end;
- `get` without resetting the faces;
- `addFace` that does not touch `_last_update`;
- an append without the sort;
- a delete that keeps zero pairs;
- an unchecked mode post.

## Findings

1. **Evicted names are re-forwarded at once.** `pit.cpp:45-51`: evicting an
   entry under load makes the next Interest for that name a new entry, which
   is forwarded at once. This breaks the spec's "at most once per window".
2. **Expiry is never checked.** `Pit::insert` never calls `isValid`. An
   Interest arriving after its entry expired is aggregated into the stale
   entry and suppressed.
3. **Rule counters can wrap.** The slash counters are `uint16_t`, while the
   lists hold up to 1,000,000 rules. After 65,536 rules of one length, the
   counter wraps, and a later delete erases the pair while rules of that length
   remain. Those rules then stop matching.
4. **Listed prefixes are not escaped.** `getRules` (`ndn-firewall.cpp:277`)
   pastes each prefix string between quotes as it is. The rule string
   `/a", "/b` (posted as `"/a\", \"/b"`) is listed as `["/a", "/b"]`, two
   prefixes that are not registered.
5. **The option loop can run forever.** `main`'s option loop index is a
   `uint8_t`. With 256 or more arguments of valid pairs it wraps from 255 to
   1, and the firewall never gets past parsing.

One more observation is modelled but not checked as a finding.
`checkUnsignedInt` accepts any digit string, and ports are stored with a
`uint16_t` cast, so `-lp 70000` silently listens on port 4464. `Parse` keeps
that cast. Neither the usage text nor spec.md says what a port beyond 65535
should do, so there is no property to check it against.

## Not modelled

- **Transport faces.** Only their declarations are in the repository. Their
  effect on the firewall is modelled as faces disappearing and as the egress
  error.
- **JSON parsing and logging.** (`commandReadHandler`'s `Parse`, `logger.h`) These change no firewall state. `commandGet` is modelled on documents given as records of members, with these limits:
  - A JSON object with a repeated member name is not enumerated. For such an object the code reads the first member's array for every member of that name.
  - Replies list the rules in some fixed order, not the string order of `std::set`.
  - Prefix strings are not built character by character; `Text` gives the pieces a reader sees, which covers a `"` inside a prefix but not a `\`.
- **The internal structure of the cuckoo filter.** The filter is modelled as a
  bag. When `Add` fails is left to a constant, and collisions come from the
  `Hash` constant, which is colliding in `filter_collisions` and injective
  elsewhere.
- **The rest of `main`.** Building the filters and the firewall only passes
  the parsed values on. `atoi` past `INT_MAX` depends on the C library. The
  SIGINT handler just stops `ios.run()`.
- **`toJSON`**, which has no caller.
- **The node structure of `NamedTree`.** `tree/named_tree.h` is not in the
  repository. `Pit` uses it only through lookups by name and
  `findAllUntil`, which are modelled from spec.md 4.1; how nodes are
  created and pruned is not.
- **Control-socket errors.** `commandReadHandler` re-arms `commandRead()`
  only after a successful read (`ndn-firewall.cpp:211-213`). After one
  socket error, no further command is ever read. This is listed as a hazard
  without a property. Socket errors come from the transport layer, which is
  not modelled, and `NdnFirewall` treats commands as always deliverable.

## Plan for further work

- **Partial application.** `commandPost` can apply a multi-value post
  partially, when a later value fails or is a duplicate.
- **Shrinking with `setSize`.** Check shrinking together with the
  one-eviction-per-insert rule.
- **Upstream loss.** Model the upstream losing Interests (TCP reconnect)
  together with suppression.
