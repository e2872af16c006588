---------------------------- MODULE ZoneListing ----------------------------
(***************************************************************************)
(* The zones offered by the web wizard: CloudflareProvider.list_zones asks *)
(* for one page after the other until the last that the latest answer      *)
(* knows of, while zones are added to and removed from the account.        *)
(***************************************************************************)
EXTENDS Integers, FiniteSets, SequencesExt

CONSTANTS
  Zones,
  PerPage,     \* _ZONES_PER_PAGE
  MaxChanges   \* bound: zones added and removed while a listing runs

ASSUME ListingAssumption == IsFiniteSet(Zones) /\ PerPage \in Nat \ {0} /\ MaxChanges \in Nat

VARIABLES
  account,   \* the zones of the account, in the order in which they are listed
  stage,     \* of the wizard's request: idle, listing, listed or failed
  page,      \* the page to ask for
  zones,     \* what has been collected
  witness    \* of the listing: the account at its start, what came and went (history)

vars == <<account, stage, page, zones, witness>>

NoWitness == [start |-> <<>>, added |-> {}, removed |-> {}]

---------------------------------------------------------------------------
\* total_pages, and a page, of what the API answers.
TotalPages == (Len(account) + PerPage - 1) \div PerPage
Page(n) == SubSeq(account, (n - 1) * PerPage + 1, IF n * PerPage < Len(account) THEN n * PerPage ELSE Len(account))

\* Bug: the last page is never asked for.
BugLastPage == page + 1 >= TotalPages
\* Bug: only the page that is the last counts as such.
BugExactPage == page = TotalPages
\* An account without zones has total_pages 0, which counts as 1.
LastPage == page >= TotalPages

Open ==
  /\ stage # "listing" /\ stage' = "listing"
  /\ page' = 1 /\ zones' = <<>> /\ witness' = [NoWitness EXCEPT !.start = account]
  /\ UNCHANGED account

Ask ==
  /\ stage = "listing"
  /\ zones' = zones \o Page(page)
  /\ IF LastPage
     THEN stage' = "listed" /\ UNCHANGED page
     ELSE page' = page + 1 /\ UNCHANGED stage
  /\ UNCHANGED <<account, witness>>

\* The request, with its retries, has failed: 502, and nothing is shown.
Fail ==
  /\ stage = "listing" /\ stage' = "failed" /\ zones' = <<>>
  /\ UNCHANGED <<account, page, witness>>

Changes == Cardinality(witness.added) + Cardinality(witness.removed)

\* A zone is added to the account at any place, or removed for good.
Change ==
  /\ stage = "listing" /\ Changes < MaxChanges
  /\ \/ \E z \in Zones \ (ToSet(account) \cup witness.removed), i \in 1 .. Len(account) + 1 :
          account' = InsertAt(account, i, z) /\ witness' = [witness EXCEPT !.added = @ \cup {z}]
     \/ \E i \in 1 .. Len(account) :
          account' = RemoveAt(account, i) /\ witness' = [witness EXCEPT !.removed = @ \cup {account[i]}]
  /\ UNCHANGED <<stage, page, zones>>

Init ==
  /\ account \in UNION {[1 .. Cardinality(S) -> S] : S \in SUBSET Zones} /\ IsInjective(account)
  /\ stage = "idle" /\ page = 1 /\ zones = <<>> /\ witness = NoWitness

Next == Open \/ Ask \/ Fail \/ Change

Spec == Init /\ [][Next]_vars

---------------------------------------------------------------------------
(* Properties. *)

Kept == ToSet(witness.start) \ witness.removed

\* The wizard offers every zone, once and in order, if the account was left alone;
\* a zone that was there all the time is missing only if another was removed, and
\* is there twice only if another was added.
ListingIsComplete ==
  stage = "listed" =>
    /\ Changes = 0 => zones = witness.start
    /\ witness.removed = {} => Kept \subseteq ToSet(zones)
    /\ witness.added = {} => IsInjective(zones)
    /\ ToSet(zones) \subseteq ToSet(witness.start) \cup witness.added

\* A listing ends though the account grows or shrinks while it is read: it never
\* asks for a page beyond those that could hold a zone.
ListingsEnd == page > 1 => (page - 1) * PerPage < Len(witness.start) + Cardinality(witness.added)
=============================================================================
