------------------------------- MODULE Pages --------------------------------
(***************************************************************************)
(* The paged queries: read_holders of the staking contract (Holders) and   *)
(* query_all_accounts of the token (AllAccounts).  A reader asks for one   *)
(* page after another, each from the last key of the page before, while    *)
(* transactions between two queries store new keys.  Neither map ever      *)
(* removes a key: a holder or a balance that reaches zero stays stored.    *)
(***************************************************************************)
EXTENDS Naturals, SequencesExt

CONSTANTS
  HolderKeys,      \* canonical addresses, the keys of PREFIXED_HOLDERS
  AccountKeys,     \* addresses as text, the keys of BALANCES
  RequestedLimits, \* the limit of a query: {} for None, {limit} for Some
  DefaultLimit,    \* DEFAULT_LIMIT
  MaxLimit         \* MAX_LIMIT

\* Keys are sequences of bytes: the canonical ones of one length, those of
\* text without the byte zero, and neither of them without a bound.
ASSUME KeysAssumption ==
  /\ HolderKeys \cup AccountKeys \subseteq Seq(0 .. 255)
  /\ IsFiniteSet(HolderKeys \cup AccountKeys)
  /\ \A k, l \in HolderKeys : Len(k) = Len(l)
  /\ \A k \in AccountKeys : 0 \notin Range(k)
ASSUME LimitsAssumption ==
  /\ RequestedLimits \subseteq SUBSET Nat
  /\ {DefaultLimit, MaxLimit} \subseteq Nat \ {0}

VARIABLES
  query,        \* "Holders" or "AllAccounts"
  stored,       \* keys of the map
  known,        \* those that were stored when the reader started
  start_after,  \* the key the reader goes on from: {} for None, {key} for Some
  seen,         \* the keys it has been given, in order
  reading       \* it has not met an empty page, but for a limit of zero

pagesVars == <<query, stored, known, start_after, seen, reading>>

StorableKeys == IF query = "Holders" THEN HolderKeys ELSE AccountKeys

PagesInit ==
  /\ query \in {"Holders", "AllAccounts"}
  /\ stored \in SUBSET StorableKeys
  /\ known = stored
  /\ start_after = {}
  /\ seen = << >>
  /\ reading = TRUE

-----------------------------------------------------------------------------
\* The order of the store: that of the bytes, and a prefix first.
Below(k, l) ==
  \/ IsStrictPrefix(k, l)
  \/ \E i \in DOMAIN k \cap DOMAIN l :
       SubSeq(k, 1, i - 1) = SubSeq(l, 1, i - 1) /\ k[i] < l[i]

\* calc_range_start appends a zero byte to the key of a holder.
RangeStart(key) == IF query = "Holders" THEN Append(key, 0) ELSE key

\* Slip: the bound included.
FromInclusive(key) == key

\* Bound::exclusive appends a zero byte, and the range begins there.
From(key) == Append(RangeStart(key), 0)

InRange(k) == \A key \in start_after : ~Below(k, From(key))

\* The limit asked for, or the default one, and never above the highest.
PageLimit(limit) ==
  LET requested == IF limit = {} THEN {DefaultLimit} ELSE limit
  IN  Min(requested \cup {MaxLimit})

\* Slip: read from the end of the range.
InOrderDescending(keys) ==
  CHOOSE s \in SetToSeqs(keys) : \A i, j \in DOMAIN s : i < j => Below(s[j], s[i])

InOrder(keys) ==
  CHOOSE s \in SetToSeqs(keys) : \A i, j \in DOMAIN s : i < j => Below(s[i], s[j])

\* What read_holders and query_all_accounts return.
Page(limit) ==
  LET range == InOrder({k \in stored : InRange(k)})
  IN  SubSeq(range, 1, Min({PageLimit(limit), Len(range)}))

-----------------------------------------------------------------------------
\* External: the reader goes on from the last key until a page is empty that
\* it did not ask to be.
Read(limit) ==
  /\ reading
  /\ seen' = seen \o Page(limit)
  /\ reading' = (Page(limit) = << >> => PageLimit(limit) = 0)
  /\ start_after' = IF Page(limit) # << >> THEN {Last(Page(limit))}
                    ELSE start_after
  /\ UNCHANGED <<query, stored, known>>

\* A transaction stores a holder or a balance for the first time.
Store(key) ==
  /\ key \notin stored
  /\ stored' = stored \cup {key}
  /\ UNCHANGED <<query, known, start_after, seen, reading>>

PagesNext ==
  \/ \E limit \in RequestedLimits : Read(limit)
  \/ \E key \in StorableKeys : Store(key)

PagesSpec == PagesInit /\ [][PagesNext]_pagesVars

-----------------------------------------------------------------------------
\* state.rs, enumerable.rs: a reader that comes to an empty page, other than
\* for a limit of zero, was given every key stored before it started, whatever
\* limits it asked for and whatever was stored meanwhile.
NothingSkipped == ~reading => known \subseteq Range(seen)

\* state.rs, enumerable.rs: no key is given twice, and they come in order
\* across the pages.
NothingTwice ==
  \A i, j \in DOMAIN seen : i < j => Below(seen[i], seen[j])

=============================================================================
