---------------------------- MODULE GrantsQuery ----------------------------
(***************************************************************************)
(* The granter's paginated query: a client lists all grants page by page,  *)
(* continuing after the last pair it was given, while the account goes on  *)
(* granting and revoking between two pages.                                *)
(*                                                                         *)
(* GRANTS is ordered by its (type_url, grantee) keys; a key is its         *)
(* position in that order.                                                 *)
(***************************************************************************)
EXTENDS Integers, Sequences, FiniteSets

CONSTANTS
    NKeys,         \* keys 1..NKeys
    DEFAULT_LIMIT, \* page length if the client states none
    MAX_LIMIT,     \* longest page
    Limits         \* limits a client may state, -1 for None

Key == 1..NKeys

ASSUME GrantsQueryAssumption ==
    /\ NKeys \in Nat
    /\ DEFAULT_LIMIT \in Nat \ {0}
    /\ MAX_LIMIT \in Nat \ {0}
    /\ Limits \subseteq Nat \cup {-1}

VARIABLES
    grants,      \* the keys in GRANTS
    listing,     \* whether a client is listing
    startAfter,  \* the last key it was given, 0 for None
    listed,      \* all keys it was given, in order
    kept         \* history: keys that were in GRANTS since the listing began

listingVars == <<grants, listing, startAfter, listed, kept>>

ListingInit ==
    /\ grants = {}
    /\ listing = FALSE
    /\ startAfter = 0
    /\ listed = <<>>
    /\ kept = {}

-----------------------------------------------------------------------------
(* GRANTS.save and GRANTS.remove *)

SaveGrant(k) ==
    /\ grants' = grants \cup {k}
    /\ UNCHANGED <<listing, startAfter, listed, kept>>

RemoveGrant(k) ==
    /\ grants' = grants \ {k}
    /\ kept' = kept \ {k}
    /\ UNCHANGED <<listing, startAfter, listed>>

-----------------------------------------------------------------------------
(* query::grants *)

\* limit.unwrap_or(DEFAULT_LIMIT).min(MAX_LIMIT)
Limit(limit) ==
    LET n == IF limit = -1 THEN DEFAULT_LIMIT ELSE limit
    IN  IF n <= MAX_LIMIT THEN n ELSE MAX_LIMIT

\* Mutants: the page begins with the last key of the one before; start_after is
\* ignored.
InRangeInclusive(k, start) == k >= start

InRangeAlways(k, start) == TRUE

\* Bound::exclusive; None if the client has no key yet.
InRange(k, start) == k > start

\* The page is ascending, holds keys in range only, and take(limit) leaves out only
\* keys after those it holds.
IsPage(page, start, limit) ==
    LET range == {k \in grants : InRange(k, start)}
        given == {page[i] : i \in DOMAIN page}
    IN  /\ given \subseteq range
        /\ \A i, j \in DOMAIN page : i < j => page[i] < page[j]
        /\ Len(page) <= Limit(limit)
        /\ given # range => Len(page) = Limit(limit)
        /\ \A k \in range \ given, i \in DOMAIN page : page[i] < k

Pages == UNION {[1..n -> Key] : n \in 0..NKeys}

-----------------------------------------------------------------------------
(* The client (external) *)

StartListing ==
    /\ ~listing
    /\ listing' = TRUE
    /\ startAfter' = 0
    /\ listed' = <<>>
    /\ kept' = grants
    /\ UNCHANGED grants

NextPage(page, limit) ==
    /\ listing
    /\ page # <<>>
    /\ IsPage(page, startAfter, limit)
    /\ listed' = listed \o page
    /\ startAfter' = page[Len(page)]
    /\ UNCHANGED <<grants, listing, kept>>

\* An empty page ends the listing; asking for 0 grants shows nothing.
LastPage(limit) ==
    /\ listing
    /\ limit # 0
    /\ IsPage(<<>>, startAfter, limit)
    /\ listing' = FALSE
    /\ UNCHANGED <<grants, startAfter, listed, kept>>

ListingNext ==
    \/ \E k \in Key : SaveGrant(k)
    \/ \E k \in Key : RemoveGrant(k)
    \/ StartListing
    \/ \E page \in Pages, limit \in Limits : NextPage(page, limit)
    \/ \E limit \in Limits : LastPage(limit)

ListingSpec == ListingInit /\ [][ListingNext]_listingVars

-----------------------------------------------------------------------------
(* Properties *)

\* No key the client was given lies beyond the one it continues after.
ListingTypeOK ==
    /\ grants \subseteq Key
    /\ listing \in BOOLEAN
    /\ listed \in Seq(Key)
    /\ startAfter \in 0..NKeys
    /\ \A i \in DOMAIN listed : listed[i] <= startAfter
    /\ kept \subseteq grants

Listed == {listed[i] : i \in DOMAIN listed}

\* Whatever is granted and revoked between two pages, and however the client varies
\* its limits: no grant is listed twice, the keys come in ascending order, and a
\* grant that was there from the beginning of the listing to its end is listed.
ListingComplete ==
    /\ \A i, j \in DOMAIN listed : i < j => listed[i] < listed[j]
    /\ ~listing => kept \subseteq Listed
=============================================================================
