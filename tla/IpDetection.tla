---------------------------- MODULE IpDetection ----------------------------
(***************************************************************************)
(* ip_detection.py: the public address of one family, seen from one source *)
(* address or from the default route. Several endpoints are asked at once  *)
(* and the first answer of the right family wins; if none gives one, the   *)
(* routing table decides between "absent" and an error. Answers are kept   *)
(* for a short time in a small cache.                                      *)
(*                                                                         *)
(* A process looks up one key at a time: run_once, the only caller, waits  *)
(* for IPv4 before it asks for IPv6. Time passes in ticks.                 *)
(***************************************************************************)
EXTENDS Integers, SequencesExt

CONSTANTS
  Families,
  Default,      \* the source of a lookup over the default route
  Keys,         \* [family, source]: the cache keys
  AddrsOf,      \* [Families -> SUBSET Addrs]
  Addrs,
  Endpoints,    \* how many _IPV4_ENDPOINTS and _IPV6_ENDPOINTS there are
  TTL,          \* _CACHE_TTL_SECONDS, in ticks
  Patience,     \* how many ticks a lookup can take
  Capacity,     \* _CACHE_CAPACITY
  MaxChanges,   \* bound: how often the uplinks change
  Junk,         \* a reply that is no address, or an error
  Absent,       \* None of the code: the family is absent
  Failed,       \* IPDetectionError
  None

ASSUME KeysAssumption ==
  /\ \A k \in Keys : k.family \in Families
  /\ \A k, q \in Keys : k.family = q.family /\ k.source = q.source => k = q
  /\ AddrsOf \in [Families -> SUBSET Addrs]
  /\ \A f, g \in Families : f # g => AddrsOf[f] \cap AddrsOf[g] = {}
  /\ {Junk, Absent, Failed, None} \cap Addrs = {}
  /\ None \notin {Junk, Absent, Failed} /\ Absent # Failed
ASSUME NumbersAssumption ==
  /\ Endpoints \in Nat \ {0} /\ Capacity \in Nat \ {0}
  /\ TTL \in Nat /\ Patience \in Nat /\ MaxChanges \in Nat

VARIABLES
  reach,    \* reach[k]: the address the Internet sees for k, or None
  routed,   \* routed[f]: whether the kernel has a route for f
  cache,    \* cache[k]: an answer and its age, or value None
  recent,   \* the cached keys, least recently used first
  lookup,   \* the lookup in progress
  answer,   \* what the last step answered, or value None
  since,    \* since[k][a]: the ticks since reach[k] was a    (history)
  unrouted, \* unrouted[f]: the ticks since f had no route    (history)
  changes   \* changes left

world == <<reach, routed, since, unrouted, changes>>
vars == <<world, cache, recent, lookup, answer>>

\* Counters stop where nothing depends on them any more.
Window == TTL + Patience
Horizon == Window + Patience
Later(n, bound) == IF n > bound THEN n ELSE n + 1

NoEntry == [value |-> None, age |-> 0]
NoAnswer == [key |-> None, value |-> None]
NoLookup == [pc |-> "idle", key |-> None, running |-> 0, done |-> <<>>,
             spent |-> 0, hit |-> None]

---------------------------------------------------------------------------
(* The cache. *)

\* The cached keys but k, in their order.
Others(k) == IF k \in ToSet(recent)
             THEN RemoveAt(recent, CHOOSE i \in DOMAIN recent : recent[i] = k) ELSE recent

\* Bug: the age of an entry is not looked at.
BugFresh(k) == cache[k].value # None
Fresh(k) == cache[k].value # None /\ cache[k].age <= TTL

\* _TTLCache.put, which evicts the least recently used entry of a full cache.
Put(k, value) ==
  LET used    == Append(Others(k), k)
      full    == Len(used) > Capacity
      dropped == IF full THEN {Head(used)} ELSE {}
  IN  /\ recent' = IF full THEN Tail(used) ELSE used
      /\ cache' = [q \in Keys |-> IF q \in dropped THEN NoEntry
                                  ELSE IF q = k THEN [value |-> value, age |-> 0]
                                  ELSE cache[q]]

\* Bug: a hit makes the entry young again.
BugTouch(k) ==
  recent' = Append(Others(k), k) /\ cache' = [cache EXCEPT ![k].age = 0]
\* _TTLCache.get of a live entry.
Touch(k) == recent' = Append(Others(k), k) /\ UNCHANGED cache

\* _TTLCache.get of an expired or missing one.
Forget(k) == recent' = Others(k) /\ cache' = [cache EXCEPT ![k] = NoEntry]

---------------------------------------------------------------------------
(* A lookup. *)

Deliver(k, value) == answer' = [key |-> k, value |-> value]
Silent == answer' = NoAnswer

\* _get_public_ip: an answer from the cache, or a probe of every endpoint.
Start(k) ==
  /\ lookup.pc = "idle"
  /\ \/ /\ Fresh(k) /\ Touch(k)
        /\ Deliver(k, cache[k].value)
        /\ UNCHANGED lookup
     \/ /\ ~Fresh(k) /\ Forget(k)
        /\ lookup' = [NoLookup EXCEPT !.pc = "probing", !.key = k, !.running = Endpoints]
        /\ Silent
  /\ UNCHANGED world

\* What an endpoint may reply: the address it sees, of whatever family it was
\* reached over, or junk.
Bodies(k) ==
  {Junk} \cup ({reach[q] : q \in {q \in Keys : q.source = k.source}} \ {None})

\* Bug: any address will do.
BugAccepted(k, body) == IF body = Junk THEN None ELSE body
\* The family check of _probe.
Accepted(k, body) == IF body \in AddrsOf[k.family] THEN body ELSE None

\* A probe ends: its reply arrives, or its time is up.
Reply ==
  /\ lookup.pc = "probing" /\ lookup.running > 0
  /\ \E body \in Bodies(lookup.key) :
       lookup' = [lookup EXCEPT !.running = @ - 1,
                    !.done = Append(@, Accepted(lookup.key, body))]
  /\ Silent
  /\ UNCHANGED <<world, cache, recent>>

\* Bug: the loop waits for an address even if nobody is left to give one.
BugOver(hit) == hit # None
\* The loop of _first_hit goes on until a probe had an address, or all ended.
Over(hit) == hit # None \/ (lookup.running = 0 /\ Len(lookup.done) = 1)

\* as_completed hands over the probes in the order in which they ended. With
\* the first hit the others are cancelled.
Consume ==
  /\ lookup.pc = "probing" /\ lookup.done # <<>>
  /\ LET hit == Head(lookup.done)
     IN  lookup' = IF Over(hit)
                   THEN [lookup EXCEPT !.pc = "closing", !.hit = hit,
                                       !.running = 0, !.done = <<>>]
                   ELSE [lookup EXCEPT !.done = Tail(@)]
  /\ Silent
  /\ UNCHANGED <<world, cache, recent>>

\* Bug: no address anywhere means that there is none.
BugTransient(k) == FALSE
\* No probe had an answer, but the family ought to work.
Transient(k) == k.source # Default \/ routed[k.family]

\* The client is closed; an address or an absence is cached, an error is not.
Finish ==
  /\ lookup.pc = "closing"
  /\ LET k == lookup.key
         found == IF lookup.hit # None THEN lookup.hit ELSE Absent
     IN  IF lookup.hit = None /\ Transient(k)
         THEN Deliver(k, Failed) /\ UNCHANGED <<cache, recent>>
         ELSE Deliver(k, found) /\ Put(k, found)
  /\ lookup' = NoLookup
  /\ UNCHANGED world

Step == Reply \/ Consume \/ Finish

---------------------------------------------------------------------------
(* Time, and the uplinks. *)

\* A lookup ends within its patience: every probe has a time-out.
Tick ==
  /\ lookup.pc # "idle" => lookup.spent < Patience
  /\ lookup' = [lookup EXCEPT !.spent = IF lookup.pc = "idle" THEN 0 ELSE @ + 1]
  /\ cache' = [k \in Keys |-> IF cache[k].value = None THEN NoEntry
                              ELSE [cache[k] EXCEPT !.age = Later(@, TTL)]]
  /\ since' = [k \in Keys |-> [a \in Addrs |->
                 IF reach[k] = a THEN 0 ELSE Later(since[k][a], Horizon)]]
  /\ unrouted' = [f \in Families |-> IF routed[f] THEN Later(unrouted[f], Window) ELSE 0]
  /\ Silent
  /\ UNCHANGED <<reach, routed, recent, changes>>

\* Without a route nothing is reached over the default route.
Plausible(r, on) ==
  \A k \in Keys : /\ r[k] \in AddrsOf[k.family] \cup {None}
                  /\ k.source = Default /\ r[k] # None => on[k.family]

\* What every change of the uplinks has in common.
Moved ==
  /\ changes > 0 /\ changes' = changes - 1
  /\ Plausible(reach', routed')
  /\ since' = [k \in Keys |-> [a \in Addrs |-> IF reach'[k] = a THEN 0 ELSE since[k][a]]]
  /\ unrouted' = [f \in Families |-> IF routed'[f] THEN unrouted[f] ELSE 0]
  /\ Silent
  /\ UNCHANGED <<cache, recent, lookup>>

Change ==
  /\ \/ \E k \in Keys, a \in Addrs \cup {None} : reach' = [reach EXCEPT ![k] = a] /\ routed' = routed
     \/ \E f \in Families :
          /\ routed' = [routed EXCEPT ![f] = ~@]
          /\ reach' = [k \in Keys |-> IF k.family = f /\ k.source = Default THEN None ELSE reach[k]]
  /\ Moved

Init ==
  /\ reach \in [Keys -> Addrs \cup {None}] /\ routed \in [Families -> BOOLEAN]
  /\ Plausible(reach, routed)
  /\ cache = [k \in Keys |-> NoEntry] /\ recent = <<>>
  /\ lookup = NoLookup /\ answer = NoAnswer
  /\ since = [k \in Keys |-> [a \in Addrs |-> IF reach[k] = a THEN 0 ELSE Horizon + 1]]
  /\ unrouted = [f \in Families |-> IF routed[f] THEN Window + 1 ELSE 0]
  /\ changes = MaxChanges

Next == (\E k \in Keys : Start(k)) \/ Step \/ Tick \/ Change

\* Probes end, the event loop goes on, and so does time. Nobody has to ask.
Fairness == WF_vars(Step) /\ WF_vars(Tick)
Spec == Init /\ [][Next]_vars /\ Fairness

---------------------------------------------------------------------------
(* Properties. *)

\* Every variable keeps its type: in particular an answer, cached or given, is
\* of the family that was asked for, and the cache stays within its capacity.
Values(k) == AddrsOf[k.family] \cup {Absent}
TypeOK ==
  /\ Plausible(reach, routed)
  /\ \A k \in Keys : /\ cache[k].value \in Values(k) \cup {None}
                     /\ cache[k].age \in 0 .. TTL + 1
                     /\ cache[k].value # None <=> k \in ToSet(recent)
  /\ Len(recent) <= Capacity /\ IsInjective(recent)
  /\ lookup.pc \in {"idle", "probing", "closing"} /\ lookup.running \in 0 .. Endpoints
  /\ lookup.pc # "idle" =>
       /\ lookup.key \in Keys /\ lookup.spent \in 0 .. Patience
       /\ lookup.hit \in Values(lookup.key) \cup {None}
  /\ answer = NoAnswer \/ (answer.key \in Keys /\ answer.value \in Values(answer.key) \cup {Failed})

\* An address that is answered was the link's own public address at most a
\* cache time and a lookup ago, whatever the probes raced and however often
\* the entry was used.
AddressesAreRecent ==
  answer.value \in Addrs => since[answer.key][answer.value] <= Window

\* "Absent", on which the sync engine deletes records, is only said of the
\* default route, and only if the kernel had no route within a cache time: no
\* failure of the probes, and no loss of a bound uplink, amounts to it.
AbsentMeansNoRoute ==
  answer.value = Absent => answer.key.source = Default /\ unrouted[answer.key.family] <= TTL

\* Once the uplinks stand still, answers become true and stay so: neither an
\* old address nor an old absence is kept alive by being asked for.
Truthful(k, value) ==
  CASE value = Absent -> ~routed[k.family]
    [] value \in Addrs -> reach[k] = value
    [] OTHER -> TRUE
SettlesOnTruth == <>[](answer # NoAnswer => Truthful(answer.key, answer.value))

\* Every lookup ends.
LookupsEnd == lookup.pc # "idle" ~> lookup.pc = "idle"
=============================================================================
