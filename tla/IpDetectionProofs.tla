------------------------- MODULE IpDetectionProofs -------------------------
(***************************************************************************)
(* What a lookup answers is recent, for every set of keys and addresses,   *)
(* any number of endpoints, any cache time, patience and capacity; and the *)
(* cache that answers it never exceeds its capacity nor mixes families.    *)
(***************************************************************************)
EXTENDS IpDetection, TLAPS, SequenceTheorems

Replies == Seq(Addrs \cup {None})
Lookups == [pc : {"idle", "probing", "closing"}, key : Keys \cup {None}, running : Nat,
            done : Replies, spent : Nat, hit : Addrs \cup {None}]
Entries == [value : Addrs \cup {Absent, None}, age : Nat]

Typed ==
  /\ reach \in [Keys -> Addrs \cup {None}]
  /\ \A k \in Keys : reach[k] \in AddrsOf[k.family] \cup {None}
  /\ routed \in [Families -> BOOLEAN]
  /\ cache \in [Keys -> Entries]
  /\ since \in [Keys -> [Addrs -> Nat]]
  /\ unrouted \in [Families -> Nat]
  /\ lookup \in Lookups

\* The history says of the present what is true of it.
HistoryInv ==
  /\ \A k \in Keys : reach[k] \in Addrs => since[k][reach[k]] = 0
  /\ \A f \in Families : ~routed[f] => unrouted[f] = 0

\* A live entry is no older than its age says, but for the lookup it is from.
Backed(k, e) ==
  e.age <= TTL =>
    /\ e.value \in Addrs => since[k][e.value] <= e.age + Patience
    /\ e.value = Absent => k.source = Default /\ unrouted[k.family] <= e.age
CacheInv == \A k \in Keys : Backed(k, cache[k])

\* What the probes of a lookup have found was true since the lookup began.
Found(l, a) == a = l.hit \/ \E i \in DOMAIN l.done : l.done[i] = a
Sound(l) ==
  l.pc # "idle" =>
    /\ l.key \in Keys /\ l.spent <= Patience
    /\ \A a \in Addrs : Found(l, a) => since[l.key][a] <= l.spent

AnswerInv ==
  /\ answer.value \in Addrs \cup {Absent} => answer.key \in Keys
  /\ AddressesAreRecent /\ AbsentMeansNoRoute

IInv == Typed /\ HistoryInv /\ CacheInv /\ Sound(lookup) /\ AnswerInv

\* The names of the special answers are no addresses.
LEMMA Specials ==
  /\ Absent \notin Addrs /\ Failed \notin Addrs /\ None \notin Addrs /\ Junk \notin Addrs
  /\ Absent # Failed /\ None # Absent /\ None # Failed
  /\ TTL \in Nat /\ Patience \in Nat /\ Window = TTL + Patience
BY KeysAssumption, NumbersAssumption DEF Window

\* A key that is being probed has an address of the family it is for.
LEMMA AcceptedIsReach ==
  ASSUME Typed, NEW k \in Keys, NEW body \in Bodies(k)
  PROVE  Accepted(k, body) = None \/ (Accepted(k, body) \in Addrs /\ Accepted(k, body) = reach[k])
<1>1. CASE body \notin AddrsOf[k.family]
  BY <1>1 DEF Accepted
<1>2. CASE body \in AddrsOf[k.family]
  <2>1. body \in Addrs
    BY <1>2, KeysAssumption
  <2>2. PICK q \in Keys : q.source = k.source /\ body = reach[q]
    BY <2>1, Specials DEF Bodies
  <2>3. body \in AddrsOf[q.family]
    BY <2>1, <2>2, Specials DEF Typed
  <2>4. q = k
    BY <1>2, <2>2, <2>3, KeysAssumption
  <2> QED
    BY <1>2, <2>1, <2>2, <2>4 DEF Accepted
<1> QED
  BY <1>1, <1>2

\* A step that leaves the uplinks and the history alone need only show what it
\* does to the cache, the lookup and the answer.
LEMMA QuietWorld ==
  ASSUME IInv, UNCHANGED world,
         cache' \in [Keys -> Entries], \A k \in Keys : Backed(k, cache'[k]),
         lookup' \in Lookups, Sound(lookup'), AnswerInv'
  PROVE  IInv'
<1>1. Typed'
  BY DEF IInv, Typed, world
<1>2. HistoryInv'
  BY DEF IInv, HistoryInv, world
<1>3. CacheInv' /\ Sound(lookup)'
  BY DEF world, CacheInv, Backed, Sound, Found
<1> QED
  BY <1>1, <1>2, <1>3 DEF IInv

\* Saying nothing is always in order.
LEMMA SilentInOrder ==
  ASSUME Silent PROVE AnswerInv'
<1>1. answer' = NoAnswer
  BY DEF Silent
<1> QED
  BY <1>1, Specials DEF AnswerInv, AddressesAreRecent, AbsentMeansNoRoute, NoAnswer

\* Saying what a live entry would say is in order too.
LEMMA DeliverInOrder ==
  ASSUME NEW k \in Keys, NEW v, Deliver(k, v), UNCHANGED world,
         v \in Addrs => since[k][v] <= Window,
         v = Absent => k.source = Default /\ unrouted[k.family] <= TTL
  PROVE  AnswerInv'
<1>1. answer' = [key |-> k, value |-> v] /\ since' = since /\ unrouted' = unrouted
  BY DEF Deliver, world
<1> QED
  BY <1>1 DEF AnswerInv, AddressesAreRecent, AbsentMeansNoRoute

\* Start answers from a live entry, or begins with nothing found.
LEMMA StartKeeps ==
  ASSUME IInv, NEW k \in Keys, Start(k) PROVE IInv'
<1>1. cache[k] \in Entries /\ Backed(k, cache[k]) /\ lookup \in Lookups
  BY DEF IInv, Typed, CacheInv
<1>2. UNCHANGED world
  BY DEF Start
<1>3. CASE /\ Fresh(k) /\ Touch(k)
           /\ Deliver(k, cache[k].value)
           /\ UNCHANGED lookup
  <2>1. since[k] \in [Addrs -> Nat] /\ unrouted[k.family] \in Nat
    BY KeysAssumption DEF IInv, Typed
  <2>2. cache[k].value \in Addrs => since[k][cache[k].value] <= Window
    <3> SUFFICES ASSUME cache[k].value \in Addrs
                 PROVE  since[k][cache[k].value] <= Window
      OBVIOUS
    <3>1. since[k][cache[k].value] <= cache[k].age + Patience /\ cache[k].age <= TTL
      BY <1>1, <1>3 DEF Backed, Fresh
    <3>2. since[k][cache[k].value] \in Nat /\ cache[k].age \in Nat
      BY <1>1, <2>1 DEF Entries
    <3> QED
      BY <3>1, <3>2, Specials
  <2>3. cache[k].value = Absent => k.source = Default /\ unrouted[k.family] <= TTL
    BY <1>1, <1>3, <2>1, Specials DEF Backed, Fresh, Entries
  <2>4. AnswerInv'
    BY <1>2, <1>3, <2>2, <2>3, DeliverInOrder
  <2> QED
    BY <1>2, <1>3, <2>4, QuietWorld DEF Touch, IInv, Typed, CacheInv
<1>4. CASE /\ ~Fresh(k) /\ Forget(k)
           /\ lookup' = [NoLookup EXCEPT !.pc = "probing", !.key = k, !.running = Endpoints]
           /\ Silent
  <2>1. cache' \in [Keys -> Entries] /\ \A q \in Keys : cache'[q] \in {NoEntry, cache[q]}
    <3>1. NoEntry \in Entries
      BY DEF NoEntry, Entries
    <3> QED
      BY <1>4, <3>1 DEF Forget, IInv, Typed
  <2>2. \A q \in Keys : Backed(q, cache'[q])
    BY <2>1, Specials DEF IInv, CacheInv, Backed, NoEntry
  <2>3. lookup' \in Lookups
    <3>1. lookup' = [pc |-> "probing", key |-> k, running |-> Endpoints, done |-> <<>>,
                     spent |-> 0, hit |-> None]
      BY <1>4 DEF NoLookup
    <3>2. Endpoints \in Nat /\ <<>> \in Replies
      BY NumbersAssumption DEF Replies
    <3> QED
      BY <3>1, <3>2 DEF Lookups
  <2>4. /\ lookup'.key = k /\ lookup'.spent = 0 /\ lookup'.hit = None
        /\ lookup'.done = <<>>
    BY <1>4 DEF NoLookup
  <2>5. Sound(lookup')
    BY <2>4, Specials DEF Sound, Found
  <2> QED
    BY <1>2, <1>4, <2>1, <2>2, <2>3, <2>5, SilentInOrder, QuietWorld
<1> QED
  BY <1>3, <1>4 DEF Start

\* A reply adds nothing that is not true right now.
LEMMA ReplyKeeps ==
  ASSUME IInv, Reply PROVE IInv'
<1>1. UNCHANGED world /\ cache' = cache /\ Silent
  BY DEF Reply
<1>2. lookup \in Lookups /\ lookup.pc = "probing" /\ lookup.key \in Keys /\ Sound(lookup)
  BY DEF IInv, Typed, Reply, Sound
<1>3. PICK body \in Bodies(lookup.key) :
        lookup' = [lookup EXCEPT !.running = @ - 1,
                     !.done = Append(@, Accepted(lookup.key, body))]
  BY DEF Reply
<1> DEFINE new == Accepted(lookup.key, body)
<1>4. new = None \/ (new \in Addrs /\ since[lookup.key][new] = 0)
  BY <1>2, AcceptedIsReach DEF IInv, HistoryInv
<1>5. lookup' \in Lookups
  <2>1. Append(lookup.done, new) \in Replies
    BY <1>2, <1>4 DEF Lookups, Replies
  <2>2. lookup.running - 1 \in Nat
    BY <1>2 DEF Lookups, Reply
  <2> QED
    BY <1>2, <1>3, <2>1, <2>2 DEF Lookups
<1>6. /\ lookup'.pc = lookup.pc /\ lookup'.key = lookup.key /\ lookup'.spent = lookup.spent
      /\ lookup'.hit = lookup.hit /\ lookup'.done = Append(lookup.done, new)
  BY <1>2, <1>3 DEF Lookups
<1> HIDE DEF new
<1>7. \A a \in Addrs : Found(lookup', a) => Found(lookup, a) \/ a = new
  BY <1>2, <1>4, <1>6 DEF Found, Lookups, Replies
<1>8. Sound(lookup')
  BY <1>2, <1>4, <1>6, <1>7, Specials DEF Sound, Lookups
<1> QED
  BY <1>1, <1>5, <1>8, SilentInOrder, QuietWorld DEF IInv, Typed, CacheInv

\* Consuming a reply finds nothing new.
LEMMA ConsumeKeeps ==
  ASSUME IInv, Consume PROVE IInv'
<1>1. UNCHANGED world /\ cache' = cache /\ Silent
  BY DEF Consume
<1>2. lookup \in Lookups /\ lookup.pc = "probing" /\ lookup.done # <<>> /\ Sound(lookup)
  BY DEF IInv, Typed, Consume
<1> DEFINE hit == Head(lookup.done)
<1>3. hit \in Addrs \cup {None} /\ hit = lookup.done[1] /\ 1 \in DOMAIN lookup.done
  BY <1>2 DEF Lookups, Replies
<1>4. CASE lookup' = [lookup EXCEPT !.pc = "closing", !.hit = hit,
                                    !.running = 0, !.done = <<>>]
  <2>1. lookup' \in Lookups
    <3>1. <<>> \in Replies
      BY DEF Replies
    <3> QED
      BY <1>2, <1>3, <1>4, <3>1 DEF Lookups
  <2>2. /\ lookup'.key = lookup.key /\ lookup'.spent = lookup.spent
        /\ lookup'.hit = hit /\ lookup'.done = <<>>
    BY <1>2, <1>4 DEF Lookups
  <2>3. \A a \in Addrs : Found(lookup', a) => Found(lookup, a)
    BY <1>3, <2>2 DEF Found
  <2>4. Sound(lookup')
    BY <1>2, <2>2, <2>3 DEF Sound
  <2> QED
    BY <1>1, <2>1, <2>4, SilentInOrder, QuietWorld DEF IInv, Typed, CacheInv
<1>5. CASE lookup' = [lookup EXCEPT !.done = Tail(@)]
  <2>1. lookup' \in Lookups
    <3>1. Tail(lookup.done) \in Replies
      BY <1>2 DEF Lookups, Replies
    <3> QED
      BY <1>2, <1>5, <3>1 DEF Lookups
  <2>2. /\ lookup'.key = lookup.key /\ lookup'.spent = lookup.spent
        /\ lookup'.hit = lookup.hit /\ lookup'.done = Tail(lookup.done)
    BY <1>2, <1>5 DEF Lookups
  <2>3. \A i \in DOMAIN Tail(lookup.done) :
          i + 1 \in DOMAIN lookup.done /\ Tail(lookup.done)[i] = lookup.done[i + 1]
    BY <1>2 DEF Lookups, Replies
  <2>4. \A a \in Addrs : Found(lookup', a) => Found(lookup, a)
    BY <2>2, <2>3 DEF Found
  <2>5. Sound(lookup')
    BY <1>2, <2>2, <2>4 DEF Sound
  <2> QED
    BY <1>1, <2>1, <2>5, SilentInOrder, QuietWorld DEF IInv, Typed, CacheInv
<1> QED
  BY <1>4, <1>5 DEF Consume

\* Put leaves every entry but its own alone or drops it.
LEMMA PutOnly ==
  ASSUME NEW k \in Keys, NEW v, Put(k, v)
  PROVE  /\ cache' = [q \in Keys |-> cache'[q]]
         /\ \A q \in Keys : \/ cache'[q] \in {NoEntry, cache[q]}
                            \/ q = k /\ cache'[q] = [value |-> v, age |-> 0]
BY DEF Put

\* Finish answers what was found, or an absence the kernel has just confirmed.
LEMMA FinishKeeps ==
  ASSUME IInv, Finish PROVE IInv'
<1> DEFINE k == lookup.key
           found == IF lookup.hit # None THEN lookup.hit ELSE Absent
<1>1. UNCHANGED world /\ lookup' = NoLookup
  BY DEF Finish
<1>2. /\ lookup \in Lookups /\ k \in Keys
      /\ since[k] \in [Addrs -> Nat] /\ unrouted[k.family] \in Nat
  BY KeysAssumption DEF IInv, Typed, Finish, Sound
<1>3. lookup' \in Lookups /\ Sound(lookup')
  BY <1>1 DEF NoLookup, Lookups, Replies, Sound
<1>4. CASE Deliver(k, Failed) /\ UNCHANGED <<cache, recent>>
  <2>1. AnswerInv'
    BY <1>1, <1>2, <1>4, Specials, DeliverInOrder
  <2> QED
    BY <1>1, <1>3, <1>4, <2>1, QuietWorld DEF IInv, Typed, CacheInv
<1>5. CASE /\ ~(lookup.hit = None /\ Transient(k))
           /\ Deliver(k, found) /\ Put(k, found)
  <2>1. found \in Addrs \cup {Absent}
    BY <1>2 DEF Lookups
  <2>2. found \in Addrs => since[k][found] <= Patience
    <3> SUFFICES ASSUME found \in Addrs PROVE since[k][found] <= Patience
      OBVIOUS
    <3>1. found = lookup.hit
      BY Specials
    <3>2. since[k][found] <= lookup.spent /\ lookup.spent <= Patience
      BY <3>1 DEF IInv, Finish, Sound, Found
    <3> QED
      BY <1>2, <3>2, Specials DEF Lookups
  <2>3. found = Absent => k.source = Default /\ unrouted[k.family] = 0
    <3> SUFFICES ASSUME found = Absent
                 PROVE  k.source = Default /\ unrouted[k.family] = 0
      OBVIOUS
    <3>1. lookup.hit = None
      BY <1>2, Specials DEF Lookups
    <3>2. ~Transient(k)
      BY <1>5, <3>1
    <3> QED
      BY <1>2, <3>2, KeysAssumption DEF Transient, IInv, HistoryInv
  <2> HIDE DEF k, found
  <2>4. AnswerInv'
    <3>1. found \in Addrs => since[k][found] <= Window
      BY <1>2, <2>2, Specials
    <3>2. found = Absent => k.source = Default /\ unrouted[k.family] <= TTL
      BY <2>3, Specials
    <3> QED
      BY <1>1, <1>2, <1>5, <3>1, <3>2, DeliverInOrder
  <2>5. \A q \in Keys : \/ cache'[q] \in {NoEntry, cache[q]}
                        \/ q = k /\ cache'[q] = [value |-> found, age |-> 0]
    BY <1>2, <1>5, PutOnly
  <2>6. cache' \in [Keys -> Entries]
    <3>1. \A q \in Keys : cache[q] \in Entries
      BY DEF IInv, Typed
    <3>2. NoEntry \in Entries /\ [value |-> found, age |-> 0] \in Entries
      BY <2>1 DEF NoEntry, Entries
    <3> QED
      BY <1>2, <1>5, <2>5, <3>1, <3>2, PutOnly
  <2>7. ASSUME NEW q \in Keys PROVE Backed(q, cache'[q])
    <3>1. CASE cache'[q] \in {NoEntry, cache[q]}
      BY <3>1, Specials DEF IInv, CacheInv, Backed, NoEntry
    <3>2. CASE q = k /\ cache'[q] = [value |-> found, age |-> 0]
      BY <1>2, <2>2, <2>3, <3>2, Specials DEF Backed
    <3> QED
      BY <2>5, <3>1, <3>2
  <2> QED
    BY <1>1, <1>3, <2>4, <2>6, <2>7, QuietWorld
<1> QED
  BY <1>4, <1>5 DEF Finish

\* A tick makes the past older by one, and the present anew.
LEMMA TickAges ==
  ASSUME IInv, Tick
  PROVE  /\ since' \in [Keys -> [Addrs -> Nat]] /\ unrouted' \in [Families -> Nat]
         /\ \A k \in Keys, a \in Addrs : /\ since'[k][a] <= since[k][a] + 1
                                         /\ reach[k] = a => since'[k][a] = 0
         /\ \A f \in Families : /\ unrouted'[f] <= unrouted[f] + 1
                                /\ ~routed[f] => unrouted'[f] = 0
<1>1. since \in [Keys -> [Addrs -> Nat]] /\ unrouted \in [Families -> Nat]
  BY DEF IInv, Typed
<1> QED
  BY <1>1, Specials DEF Tick, Later

\* A tick makes entries and lookups older, and the past as much.
LEMMA TickKeeps ==
  ASSUME IInv, Tick PROVE IInv'
<1>1. /\ lookup \in Lookups /\ cache \in [Keys -> Entries]
      /\ since \in [Keys -> [Addrs -> Nat]] /\ unrouted \in [Families -> Nat]
  BY DEF IInv, Typed
<1>2. /\ lookup' = [lookup EXCEPT !.spent = IF lookup.pc = "idle" THEN 0 ELSE @ + 1]
      /\ reach' = reach /\ routed' = routed /\ Silent
  BY DEF Tick
<1>3. \A k \in Keys : cache'[k] = IF cache[k].value = None THEN NoEntry
                                  ELSE [cache[k] EXCEPT !.age = Later(@, TTL)]
  BY DEF Tick
<1>4. /\ since' \in [Keys -> [Addrs -> Nat]]
      /\ \A k \in Keys, a \in Addrs : since'[k][a] <= since[k][a] + 1
      /\ \A k \in Keys, a \in Addrs : reach[k] = a => since'[k][a] = 0
  BY TickAges
<1>5. /\ unrouted' \in [Families -> Nat]
      /\ \A f \in Families : unrouted'[f] <= unrouted[f] + 1
      /\ \A f \in Families : ~routed[f] => unrouted'[f] = 0
  BY TickAges
<1>6. lookup' \in Lookups
  <2> DEFINE spent == IF lookup.pc = "idle" THEN 0 ELSE lookup.spent + 1
  <2>1. spent \in Nat
    BY <1>1 DEF Lookups
  <2>2. lookup' = [lookup EXCEPT !.spent = spent]
    BY <1>2
  <2> HIDE DEF spent
  <2> QED
    BY <1>1, <2>1, <2>2 DEF Lookups
<1>7. cache' \in [Keys -> Entries]
  <2>1. ASSUME NEW k \in Keys PROVE cache'[k] \in Entries
    <3>1. cache[k] \in Entries /\ NoEntry \in Entries
      BY <1>1 DEF NoEntry, Entries
    <3>2. Later(cache[k].age, TTL) \in Nat
      BY <3>1 DEF Later, Entries
    <3>3. [cache[k] EXCEPT !.age = Later(@, TTL)] \in Entries
      BY <3>1, <3>2 DEF Entries
    <3> QED
      BY <1>3, <3>1, <3>3
  <2> QED
    BY <2>1 DEF Tick
<1>8. Typed' /\ HistoryInv'
  BY <1>2, <1>4, <1>5, <1>6, <1>7 DEF IInv, Typed, HistoryInv
<1>9. CacheInv'
  <2> SUFFICES ASSUME NEW k \in Keys, cache'[k].age <= TTL, cache[k].value # None
               PROVE  /\ cache'[k].value \in Addrs =>
                           since'[k][cache'[k].value] <= cache'[k].age + Patience
                      /\ cache'[k].value = Absent =>
                           k.source = Default /\ unrouted'[k.family] <= cache'[k].age
    <3>1. ASSUME NEW k \in Keys, cache[k].value = None
          PROVE  cache'[k].value \notin Addrs \cup {Absent}
      <4>1. cache'[k] = NoEntry
        BY <1>3, <3>1
      <4> QED
        BY <4>1, Specials DEF NoEntry
    <3>2. ASSUME NEW k \in Keys PROVE Backed(k, cache[k])'
      BY <3>1 DEF Backed
    <3> QED
      BY <3>2 DEF CacheInv
  <2>1. cache[k] \in Entries /\ k.family \in Families
    BY <1>1, KeysAssumption
  <2>2. cache'[k].value = cache[k].value /\ cache'[k].age = Later(cache[k].age, TTL)
    BY <1>3, <2>1 DEF Entries
  <2>3. cache[k].age <= TTL /\ cache'[k].age = cache[k].age + 1
    BY <2>1, <2>2, Specials DEF Later, Entries
  <2>4. Backed(k, cache[k])
    BY DEF IInv, CacheInv
  <2>5. cache[k].value \in Addrs => since'[k][cache[k].value] <= cache[k].age + 1 + Patience
    <3> SUFFICES ASSUME cache[k].value \in Addrs
                 PROVE  since'[k][cache[k].value] <= cache[k].age + 1 + Patience
      OBVIOUS
    <3>1. since[k][cache[k].value] <= cache[k].age + Patience
      BY <2>3, <2>4 DEF Backed
    <3>2. since'[k][cache[k].value] <= since[k][cache[k].value] + 1
      BY <1>4
    <3>3. since[k][cache[k].value] \in Nat /\ since'[k][cache[k].value] \in Nat
      BY <1>1, <1>4
    <3> QED
      BY <2>1, <3>1, <3>2, <3>3, Specials DEF Entries
  <2>6. cache[k].value = Absent => k.source = Default /\ unrouted'[k.family] <= cache[k].age + 1
    <3> SUFFICES ASSUME cache[k].value = Absent
                 PROVE  k.source = Default /\ unrouted'[k.family] <= cache[k].age + 1
      OBVIOUS
    <3>1. k.source = Default /\ unrouted[k.family] <= cache[k].age
      BY <2>3, <2>4 DEF Backed
    <3>2. unrouted'[k.family] <= unrouted[k.family] + 1
      BY <1>5, <2>1
    <3>3. unrouted[k.family] \in Nat /\ unrouted'[k.family] \in Nat
      BY <1>1, <1>5, <2>1
    <3> QED
      BY <2>1, <3>1, <3>2, <3>3 DEF Entries
  <2> QED
    BY <2>2, <2>3, <2>5, <2>6
<1>10. Sound(lookup)'
  <2> SUFFICES ASSUME lookup.pc # "idle" PROVE Sound(lookup)'
    BY <1>1, <1>2 DEF Sound, Lookups
  <2>1. /\ lookup'.key = lookup.key /\ lookup'.spent = lookup.spent + 1
        /\ lookup'.hit = lookup.hit /\ lookup'.done = lookup.done
    BY <1>1, <1>2 DEF Lookups
  <2>2. /\ lookup.key \in Keys /\ lookup.spent < Patience /\ lookup.spent \in Nat
        /\ \A a \in Addrs : Found(lookup, a) => since[lookup.key][a] <= lookup.spent
    BY <1>1 DEF IInv, Sound, Tick, Lookups
  <2>3. \A a \in Addrs : Found(lookup, a) => since'[lookup.key][a] <= lookup.spent + 1
    <3> SUFFICES ASSUME NEW a \in Addrs, Found(lookup, a)
                 PROVE  since'[lookup.key][a] <= lookup.spent + 1
      OBVIOUS
    <3>1. since[lookup.key][a] \in Nat /\ since'[lookup.key][a] \in Nat
      BY <1>1, <1>4, <2>2
    <3> QED
      BY <1>4, <2>2, <3>1
  <2>4. lookup.spent + 1 <= Patience
    BY <2>2, Specials
  <2> QED
    BY <2>1, <2>2, <2>3, <2>4 DEF Sound, Found
<1> QED
  BY <1>2, <1>8, <1>9, <1>10, SilentInOrder DEF IInv

\* A change of the uplinks makes nothing older.
LEMMA MovedAges ==
  ASSUME IInv, Moved
  PROVE  /\ since' \in [Keys -> [Addrs -> Nat]] /\ unrouted' \in [Families -> Nat]
         /\ \A k \in Keys, a \in Addrs : /\ since'[k][a] <= since[k][a]
                                         /\ reach'[k] = a => since'[k][a] = 0
         /\ \A f \in Families : /\ unrouted'[f] <= unrouted[f]
                                /\ ~routed'[f] => unrouted'[f] = 0
<1>1. since \in [Keys -> [Addrs -> Nat]] /\ unrouted \in [Families -> Nat]
  BY DEF IInv, Typed
<1> QED
  BY <1>1 DEF Moved

\* A change of the uplinks takes nothing back that was true.
LEMMA MovedKeeps ==
  ASSUME IInv, Moved, reach' = [k \in Keys |-> reach'[k]], routed' \in [Families -> BOOLEAN]
  PROVE  IInv'
<1>1. /\ lookup \in Lookups /\ cache \in [Keys -> Entries]
      /\ since \in [Keys -> [Addrs -> Nat]] /\ unrouted \in [Families -> Nat]
  BY DEF IInv, Typed
<1>2. lookup' = lookup /\ cache' = cache /\ Silent
  BY DEF Moved
<1>3. /\ since' \in [Keys -> [Addrs -> Nat]]
      /\ \A k \in Keys, a \in Addrs : since'[k][a] <= since[k][a]
      /\ \A k \in Keys, a \in Addrs : reach'[k] = a => since'[k][a] = 0
  BY MovedAges
<1>4. /\ unrouted' \in [Families -> Nat]
      /\ \A f \in Families : unrouted'[f] <= unrouted[f]
      /\ \A f \in Families : ~routed'[f] => unrouted'[f] = 0
  BY MovedAges
<1>5. /\ \A k \in Keys : reach'[k] \in AddrsOf[k.family] \cup {None}
      /\ reach' = [k \in Keys |-> reach'[k]] /\ routed' \in [Families -> BOOLEAN]
  BY DEF Moved, Plausible
<1>6. reach' \in [Keys -> Addrs \cup {None}]
  BY <1>5, KeysAssumption
<1>7. Typed' /\ HistoryInv'
  BY <1>1, <1>2, <1>3, <1>4, <1>5, <1>6 DEF Typed, HistoryInv
<1>8. CacheInv'
  <2> SUFFICES ASSUME NEW k \in Keys PROVE Backed(k, cache[k])'
    BY DEF CacheInv
  <2>1. Backed(k, cache[k]) /\ cache[k] \in Entries /\ k.family \in Families
    BY <1>1, KeysAssumption DEF IInv, CacheInv
  <2>2. cache[k].value \in Addrs =>
          /\ since[k][cache[k].value] \in Nat /\ since'[k][cache[k].value] \in Nat
          /\ since'[k][cache[k].value] <= since[k][cache[k].value]
    BY <1>1, <1>3
  <2>3. /\ unrouted[k.family] \in Nat /\ unrouted'[k.family] \in Nat
        /\ unrouted'[k.family] <= unrouted[k.family]
    BY <1>1, <1>4, <2>1
  <2> QED
    BY <1>2, <2>1, <2>2, <2>3, Specials DEF Backed, Entries
<1>9. Sound(lookup)'
  <2> SUFFICES ASSUME lookup.pc # "idle" PROVE Sound(lookup)'
    BY <1>2 DEF Sound
  <2>1. /\ lookup.key \in Keys /\ lookup.spent <= Patience /\ lookup.spent \in Nat
        /\ \A a \in Addrs : Found(lookup, a) => since[lookup.key][a] <= lookup.spent
    BY <1>1 DEF IInv, Sound, Lookups
  <2>2. \A a \in Addrs : Found(lookup, a) => since'[lookup.key][a] <= lookup.spent
    <3> SUFFICES ASSUME NEW a \in Addrs, Found(lookup, a)
                 PROVE  since'[lookup.key][a] <= lookup.spent
      OBVIOUS
    <3>1. since[lookup.key][a] \in Nat /\ since'[lookup.key][a] \in Nat
      BY <1>1, <1>3, <2>1
    <3> QED
      BY <1>3, <2>1, <3>1
  <2> QED
    BY <1>2, <2>1, <2>2 DEF Sound, Found
<1> QED
  BY <1>2, <1>7, <1>8, <1>9, SilentInOrder DEF IInv

\* A change of the uplinks falsifies nothing that was said of the past.
LEMMA ChangeKeeps ==
  ASSUME IInv, Change PROVE IInv'
<1>1. Moved /\ reach' = [k \in Keys |-> reach'[k]] /\ routed' \in [Families -> BOOLEAN]
  BY DEF Change, IInv, Typed
<1> QED
  BY <1>1, MovedKeeps

\* The invariant holds at first.
LEMMA InitInvariant == Init => IInv
<1> SUFFICES ASSUME Init PROVE IInv
  OBVIOUS
<1>1. NoEntry \in Entries /\ NoLookup \in Lookups
  BY DEF NoEntry, Entries, NoLookup, Lookups, Replies
<1>2. since \in [Keys -> [Addrs -> Nat]] /\ unrouted \in [Families -> Nat]
  BY Specials DEF Init, Horizon
<1>3. Typed
  BY <1>1, <1>2 DEF Init, Typed, Plausible
<1>4. HistoryInv
  BY DEF Init, HistoryInv
<1>5. CacheInv /\ Sound(lookup)
  BY Specials DEF Init, CacheInv, Backed, NoEntry, Sound, NoLookup
<1>6. AnswerInv
  BY Specials DEF Init, NoAnswer, AnswerInv, AddressesAreRecent, AbsentMeansNoRoute
<1> QED
  BY <1>3, <1>4, <1>5, <1>6 DEF IInv

\* A state that nothing happens to keeps it.
LEMMA StutterKeeps ==
  ASSUME IInv, UNCHANGED vars PROVE IInv'
BY DEF vars, world, IInv, Typed, HistoryInv, CacheInv, Backed, Sound, Found,
   AnswerInv, AddressesAreRecent, AbsentMeansNoRoute

\* The invariant holds of every reachable state.
THEOREM Invariance == Spec => []IInv
<1>1. ASSUME IInv, [Next]_vars PROVE IInv'
  <2>1. CASE \E k \in Keys : Start(k)
    BY <1>1, <2>1, StartKeeps
  <2>2. CASE Step
    BY <1>1, <2>2, ReplyKeeps, ConsumeKeeps, FinishKeeps DEF Step
  <2>3. CASE UNCHANGED vars
    BY <1>1, <2>3, StutterKeeps
  <2> QED
    BY <1>1, <2>1, <2>2, <2>3, TickKeeps, ChangeKeeps DEF Next
<1> QED
  BY <1>1, InitInvariant, PTL DEF Spec

\* An address that _get_public_ip returns was the link's own at most a cache
\* time and a lookup ago.
THEOREM AddressesSafe == Spec => []AddressesAreRecent
BY Invariance, PTL DEF IInv, AnswerInv

\* It returns None only for the default route, and only if the kernel had no
\* route within the cache time, whatever the endpoints reply.
THEOREM AbsenceSafe == Spec => []AbsentMeansNoRoute
BY Invariance, PTL DEF IInv, AnswerInv
---------------------------------------------------------------------------
(* The cache stays within its capacity, its order is that of its entries,  *)
(* and what it holds, and what is answered, is of the family asked for.    *)

EntriesTyped(c) == \A k \in Keys : c[k].value \in Values(k) \cup {None} /\ c[k].age <= TTL + 1

\* The order is one of just the keys that have an entry.
Ordered(c, r) ==
  /\ r \in Seq(Keys) /\ IsInjective(r) /\ Len(r) <= Capacity
  /\ \A k \in Keys : c[k].value # None <=> k \in ToSet(r)

LookupTyped(l) ==
  /\ l.running <= Endpoints
  /\ l.pc # "idle" => \A a \in Addrs : Found(l, a) => a \in AddrsOf[l.key.family]

AnswerTyped == answer = NoAnswer \/ (answer.key \in Keys /\ answer.value \in Values(answer.key) \cup {Failed})

TInv ==
  /\ IInv /\ Plausible(reach, routed) /\ EntriesTyped(cache) /\ Ordered(cache, recent)
  /\ LookupTyped(lookup) /\ AnswerTyped

\* A sequence without its n-th element.
LEMMA RemovedFacts ==
  ASSUME NEW S, NEW s \in Seq(S), NEW n \in 1 .. Len(s)
  PROVE  /\ RemoveAt(s, n) \in Seq(S) /\ Len(RemoveAt(s, n)) = Len(s) - 1
         /\ \A i \in 1 .. Len(s) - 1 : RemoveAt(s, n)[i] = IF i < n THEN s[i] ELSE s[i + 1]
<1> DEFINE before == SubSeq(s, 1, n - 1)
           after  == SubSeq(s, n + 1, Len(s))
<1>1. /\ before \in Seq(S) /\ Len(before) = n - 1
      /\ \A i \in 1 .. n - 1 : before[i] = s[i]
  OBVIOUS
<1>2. /\ after \in Seq(S) /\ Len(after) = Len(s) - n
      /\ \A i \in 1 .. Len(s) - n : after[i] = s[n + i]
  OBVIOUS
<1>3. RemoveAt(s, n) = before \o after
  BY DEF RemoveAt
<1> HIDE DEF before, after
<1>4. /\ before \o after \in Seq(S) /\ Len(before \o after) = Len(before) + Len(after)
      /\ \A i \in 1 .. Len(before) + Len(after) :
           (before \o after)[i] = IF i <= Len(before) THEN before[i] ELSE after[i - Len(before)]
  BY <1>1, <1>2, ConcatProperties, Zenon
<1>5. Len(before) + Len(after) = Len(s) - 1
  BY <1>1, <1>2
<1>6. ASSUME NEW i \in 1 .. Len(s) - 1
      PROVE  (before \o after)[i] = IF i < n THEN s[i] ELSE s[i + 1]
  <2>1. (before \o after)[i] = IF i <= Len(before) THEN before[i] ELSE after[i - Len(before)]
    BY <1>4, <1>5
  <2>2. CASE i < n
    BY <1>1, <2>1, <2>2
  <2>3. CASE ~(i < n)
    <3>1. i - (n - 1) \in 1 .. Len(s) - n /\ n + (i - (n - 1)) = i + 1 /\ ~(i <= n - 1)
      BY <2>3
    <3> QED
      BY <1>1, <1>2, <2>1, <2>3, <3>1
  <2> QED
    BY <2>2, <2>3
<1> QED
  BY <1>3, <1>4, <1>5, <1>6

\* The cached keys but one are the others, in their order.
LEMMA OthersFacts ==
  ASSUME recent \in Seq(Keys), IsInjective(recent), NEW k \in Keys
  PROVE  /\ Others(k) \in Seq(Keys) /\ IsInjective(Others(k))
         /\ \A q : q \in ToSet(Others(k)) <=> q \in ToSet(recent) /\ q # k
         /\ Len(Others(k)) <= Len(recent)
         /\ k \in ToSet(recent) => Len(Others(k)) = Len(recent) - 1
<1>1. DOMAIN recent = 1 .. Len(recent) /\ Len(recent) \in Nat
  OBVIOUS
<1>2. CASE k \notin ToSet(recent)
  <2>1. Others(k) = recent
    BY <1>2 DEF Others
  <2>2. Len(recent) <= Len(recent)
    BY <1>1
  <2> QED
    BY <1>2, <2>1, <2>2, Zenon
<1>3. CASE k \in ToSet(recent)
  <2>1. PICK n \in 1 .. Len(recent) : recent[n] = k /\ Others(k) = RemoveAt(recent, n)
    <3>1. \E i \in DOMAIN recent : recent[i] = k
      BY <1>3 DEF ToSet
    <3> DEFINE chosen == CHOOSE i \in DOMAIN recent : recent[i] = k
    <3>2. chosen \in DOMAIN recent /\ recent[chosen] = k
      BY <3>1, Zenon
    <3>3. Others(k) = RemoveAt(recent, chosen)
      BY <1>3 DEF Others
    <3> QED
      BY <1>1, <3>2, <3>3
  <2>2. /\ Others(k) \in Seq(Keys) /\ Len(Others(k)) = Len(recent) - 1
        /\ \A i \in 1 .. Len(recent) - 1 :
             Others(k)[i] = IF i < n THEN recent[i] ELSE recent[i + 1]
    BY <2>1, RemovedFacts, Zenon
  <2>3. DOMAIN Others(k) = 1 .. Len(recent) - 1
    BY <2>2
  <2>4. IsInjective(Others(k))
    BY <1>1, <2>1, <2>2, <2>3 DEF IsInjective
  <2>5. ASSUME NEW i \in 1 .. Len(recent) - 1
        PROVE  Others(k)[i] \in ToSet(recent) /\ Others(k)[i] # k
    <3>1. PICK m \in 1 .. Len(recent) : m # n /\ Others(k)[i] = recent[m]
      <4>1. /\ i \in 1 .. Len(recent) /\ i + 1 \in 1 .. Len(recent)
            /\ (i < n => i # n) /\ (~(i < n) => i + 1 # n)
        BY <1>1, <2>1
      <4> QED
        BY <2>2, <4>1
    <3>2. recent[m] # k
      BY <1>1, <2>1, <3>1 DEF IsInjective
    <3> QED
      BY <1>1, <3>1, <3>2 DEF ToSet
  <2>6. ASSUME NEW q \in ToSet(recent), q # k PROVE q \in ToSet(Others(k))
    <3>1. PICK m \in 1 .. Len(recent) : recent[m] = q
      BY <1>1, <2>6 DEF ToSet
    <3>2. CASE m < n
      BY <1>1, <2>1, <2>2, <2>3, <3>1, <3>2 DEF ToSet
    <3>3. CASE ~(m < n)
      <4>1. m - 1 \in 1 .. Len(recent) - 1 /\ ~(m - 1 < n) /\ (m - 1) + 1 = m
        BY <1>1, <2>1, <2>6, <3>1, <3>3
      <4>2. Others(k)[m - 1] = q
        BY <2>2, <3>1, <4>1
      <4> QED
        BY <2>3, <4>1, <4>2 DEF ToSet
    <3> QED
      BY <3>2, <3>3
  <2>7. \A q : q \in ToSet(Others(k)) <=> q \in ToSet(recent) /\ q # k
    BY <2>3, <2>5, <2>6 DEF ToSet
  <2>8. Len(Others(k)) <= Len(recent)
    BY <1>1, <2>2
  <2> QED
    BY <2>2, <2>4, <2>7, <2>8, Zenon
<1> QED
  BY <1>2, <1>3

\* ... and with it at their end they are all of them again.
LEMMA UsedFacts ==
  ASSUME recent \in Seq(Keys), IsInjective(recent), NEW k \in Keys
  PROVE  LET used == Append(Others(k), k)
         IN  /\ used \in Seq(Keys) /\ IsInjective(used) /\ Len(used) = Len(Others(k)) + 1
             /\ \A q : q \in ToSet(used) <=> q \in ToSet(recent) \/ q = k
<1> DEFINE used == Append(Others(k), k)
           n == Len(Others(k))
<1>1. /\ Others(k) \in Seq(Keys) /\ IsInjective(Others(k)) /\ n \in Nat
      /\ \A q : q \in ToSet(Others(k)) <=> q \in ToSet(recent) /\ q # k
  BY OthersFacts
<1>2. /\ used \in Seq(Keys) /\ Len(used) = n + 1 /\ used[n + 1] = k
      /\ \A i \in 1 .. n : used[i] = Others(k)[i]
  BY <1>1, AppendProperties
<1>3. DOMAIN used = 1 .. n + 1 /\ DOMAIN Others(k) = 1 .. n
  BY <1>1, <1>2
<1> HIDE DEF used, n
<1>4. \A i \in 1 .. n : Others(k)[i] # k
  BY <1>1, <1>3 DEF ToSet
<1>5. \A i \in 1 .. n + 1 : i \in 1 .. n \/ i = n + 1
  BY <1>1
<1>6. IsInjective(used)
  BY <1>1, <1>2, <1>3, <1>4, <1>5 DEF IsInjective
<1>7. n + 1 \in 1 .. n + 1 /\ \A i \in 1 .. n : i \in 1 .. n + 1
  BY <1>1
<1>8. \A q : q \in ToSet(used) <=> q \in ToSet(Others(k)) \/ q = k
  BY <1>2, <1>3, <1>5, <1>7 DEF ToSet
<1> QED
  BY <1>1, <1>2, <1>6, <1>8 DEF used, n

\* An order of keys without its first.
LEMMA TailFacts ==
  ASSUME NEW s \in Seq(Keys), IsInjective(s), s # <<>>
  PROVE  /\ Tail(s) \in Seq(Keys) /\ IsInjective(Tail(s)) /\ Len(Tail(s)) = Len(s) - 1
         /\ Head(s) \in Keys
         /\ \A q : q \in ToSet(Tail(s)) <=> q \in ToSet(s) /\ q # Head(s)
<1>1. /\ Tail(s) \in Seq(Keys) /\ Len(Tail(s)) = Len(s) - 1 /\ Head(s) = s[1]
      /\ Len(s) \in Nat \ {0}
      /\ \A i \in 1 .. Len(s) - 1 : Tail(s)[i] = s[i + 1]
  OBVIOUS
<1>2. DOMAIN s = 1 .. Len(s) /\ DOMAIN Tail(s) = 1 .. Len(s) - 1
  BY <1>1
<1>3. \A i \in 1 .. Len(s) - 1 : i + 1 \in 1 .. Len(s) /\ i + 1 # 1
  BY <1>1
<1>4. 1 \in 1 .. Len(s) /\ \A i \in 1 .. Len(s) : i # 1 => i - 1 \in 1 .. Len(s) - 1 /\ (i - 1) + 1 = i
  BY <1>1
<1>5. IsInjective(Tail(s))
  BY <1>1, <1>2, <1>3 DEF IsInjective
<1>6. ASSUME NEW i \in 1 .. Len(s) - 1 PROVE Tail(s)[i] \in ToSet(s) /\ Tail(s)[i] # Head(s)
  BY <1>1, <1>2, <1>3, <1>4 DEF IsInjective, ToSet
<1>7. ASSUME NEW q \in ToSet(s), q # Head(s) PROVE q \in ToSet(Tail(s))
  <2>1. PICK i \in 1 .. Len(s) : s[i] = q
    BY <1>2, <1>7 DEF ToSet
  <2>2. i - 1 \in 1 .. Len(s) - 1 /\ Tail(s)[i - 1] = q
    BY <1>1, <1>4, <1>7, <2>1
  <2> QED
    BY <1>2, <2>2 DEF ToSet
<1>8. \A q : q \in ToSet(Tail(s)) <=> q \in ToSet(s) /\ q # Head(s)
  BY <1>2, <1>6, <1>7 DEF ToSet
<1> QED
  BY <1>1, <1>2, <1>4, <1>5, <1>8

\* A key that is used goes to the end of the order.
LEMMA TouchOrdered ==
  ASSUME Ordered(cache, recent), NEW k \in Keys, cache[k].value # None
  PROVE  Ordered(cache, Append(Others(k), k))
<1>1. k \in ToSet(recent) /\ recent \in Seq(Keys) /\ IsInjective(recent) /\ Len(recent) <= Capacity
  BY DEF Ordered
<1> DEFINE used == Append(Others(k), k)
<1>2. /\ used \in Seq(Keys) /\ IsInjective(used) /\ Len(used) = Len(Others(k)) + 1
      /\ \A q : q \in ToSet(used) <=> q \in ToSet(recent) \/ q = k
  BY <1>1, UsedFacts
<1>3. Len(Others(k)) = Len(recent) - 1 /\ Len(recent) \in Nat
  BY <1>1, OthersFacts
<1> HIDE DEF used
<1>4. Len(used) <= Capacity
  BY <1>1, <1>2, <1>3
<1>5. \A q \in Keys : cache[q].value # None <=> q \in ToSet(used)
  BY <1>1, <1>2 DEF Ordered
<1>6. Ordered(cache, used)
  BY <1>2, <1>4, <1>5 DEF Ordered
<1> QED
  BY <1>6 DEF used

\* A key that is forgotten leaves it.
LEMMA ForgetOrdered ==
  ASSUME IInv, Ordered(cache, recent), NEW k \in Keys, Forget(k)
  PROVE  Ordered(cache', recent')
<1>1. recent \in Seq(Keys) /\ IsInjective(recent) /\ Len(recent) <= Capacity /\ Len(recent) \in Nat
  BY DEF Ordered
<1>2. recent' = Others(k) /\ \A q \in Keys : cache'[q] = IF q = k THEN NoEntry ELSE cache[q]
  BY DEF Forget, IInv, Typed
<1>3. /\ recent' \in Seq(Keys) /\ IsInjective(recent') /\ Len(recent') <= Len(recent)
      /\ \A q : q \in ToSet(recent') <=> q \in ToSet(recent) /\ q # k
  BY <1>1, <1>2, OthersFacts
<1>4. Len(recent') <= Capacity
  BY <1>1, <1>3, NumbersAssumption
<1>5. ASSUME NEW q \in Keys PROVE cache'[q].value # None <=> q \in ToSet(recent')
  <2>1. CASE q = k
    BY <1>2, <1>3, <2>1 DEF NoEntry
  <2>2. CASE q # k
    BY <1>2, <1>3, <2>2 DEF Ordered
  <2> QED
    BY <2>1, <2>2
<1> QED
  BY <1>3, <1>4, <1>5 DEF Ordered

\* A key that is put goes to its end, and the first leaves if they are too many.
LEMMA PutOrdered ==
  ASSUME Ordered(cache, recent), NEW k \in Keys, NEW v, v # None, Put(k, v)
  PROVE  Ordered(cache', recent')
<1>1. recent \in Seq(Keys) /\ IsInjective(recent) /\ Len(recent) <= Capacity
  BY DEF Ordered
<1> DEFINE used == Append(Others(k), k)
           full == Len(used) > Capacity
           dropped == IF full THEN {Head(used)} ELSE {}
<1>2. /\ used \in Seq(Keys) /\ IsInjective(used) /\ Len(used) = Len(Others(k)) + 1
      /\ \A q : q \in ToSet(used) <=> q \in ToSet(recent) \/ q = k
  BY <1>1, UsedFacts
<1>3. Len(Others(k)) <= Len(recent) /\ Len(recent) \in Nat /\ Len(Others(k)) \in Nat
  BY <1>1, OthersFacts
<1>4. /\ recent' = IF full THEN Tail(used) ELSE used
      /\ \A q \in Keys : cache'[q] = IF q \in dropped THEN NoEntry
                                     ELSE IF q = k THEN [value |-> v, age |-> 0]
                                     ELSE cache[q]
  BY DEF Put
<1>5. \A q \in Keys : q = k \/ cache[q].value # None <=> q \in ToSet(used)
  BY <1>2 DEF Ordered
<1>6. full => used # <<>> /\ Head(used) # k
  <2> SUFFICES ASSUME full PROVE used # <<>> /\ Head(used) # k
    OBVIOUS
  <2>1. used[Len(used)] = k
    BY <1>1, <1>2, OthersFacts, AppendProperties
  <2> HIDE DEF used
  <2>2. Len(used) > 1 /\ Len(used) \in Nat
    BY <1>2, <1>3, NumbersAssumption
  <2>3. used # <<>> /\ Head(used) = used[1] /\ DOMAIN used = 1 .. Len(used)
    BY <1>2, <2>2
  <2>4. used[1] # used[Len(used)]
    BY <1>2, <2>2, <2>3 DEF IsInjective
  <2> QED
    BY <2>1, <2>3, <2>4
<1> HIDE DEF used
<1>7. CASE full
  <2>1. /\ Tail(used) \in Seq(Keys) /\ IsInjective(Tail(used)) /\ Len(Tail(used)) = Len(used) - 1
        /\ \A q : q \in ToSet(Tail(used)) <=> q \in ToSet(used) /\ q # Head(used)
    BY <1>2, <1>6, <1>7, TailFacts
  <2>2. Len(Tail(used)) <= Capacity
    BY <1>1, <1>2, <1>3, <2>1, NumbersAssumption
  <2>3. recent' = Tail(used)
    BY <1>4, <1>7
  <2>4. ASSUME NEW q \in Keys PROVE cache'[q].value # None <=> q \in ToSet(Tail(used))
    <3>1. CASE q = Head(used)
      BY <1>4, <1>7, <2>1, <3>1 DEF NoEntry
    <3>2. CASE q # Head(used) /\ q = k
      BY <1>4, <1>5, <1>7, <2>1, <3>2
    <3>3. CASE q # Head(used) /\ q # k
      BY <1>4, <1>5, <1>7, <2>1, <3>3
    <3> QED
      BY <3>1, <3>2, <3>3
  <2> QED
    BY <2>1, <2>2, <2>3, <2>4 DEF Ordered
<1>8. CASE ~full
  <2>1. Len(used) <= Capacity
    BY <1>2, <1>3, <1>8, NumbersAssumption
  <2>2. recent' = used
    BY <1>4, <1>8
  <2>3. ASSUME NEW q \in Keys PROVE cache'[q].value # None <=> q \in ToSet(used)
    BY <1>4, <1>5, <1>8
  <2> QED
    BY <1>2, <2>1, <2>2, <2>3 DEF Ordered
<1> QED
  BY <1>7, <1>8

\* A start answers what an entry of its key holds, or begins with nothing found.
LEMMA StartTyped ==
  ASSUME TInv, NEW k \in Keys, Start(k) PROVE TInv'
<1>1. IInv'
  BY StartKeeps DEF TInv
<1>2. Plausible(reach, routed)'
  BY DEF TInv, Start, world, Plausible
<1>3. CASE /\ Fresh(k) /\ Touch(k)
           /\ Deliver(k, cache[k].value)
           /\ UNCHANGED lookup
  <2>1. cache' = cache /\ lookup' = lookup /\ cache[k].value # None
    BY <1>3 DEF Touch, Fresh
  <2>2. EntriesTyped(cache)' /\ LookupTyped(lookup)'
    BY <2>1 DEF TInv, EntriesTyped, LookupTyped, Found
  <2>3. Ordered(cache, recent)'
    BY <1>3, <2>1, TouchOrdered DEF TInv, Touch
  <2>4. AnswerTyped'
    BY <1>3, <2>1 DEF TInv, EntriesTyped, Deliver, AnswerTyped
  <2> QED
    BY <1>1, <1>2, <2>2, <2>3, <2>4 DEF TInv
<1>4. CASE /\ ~Fresh(k) /\ Forget(k)
           /\ lookup' = [NoLookup EXCEPT !.pc = "probing", !.key = k, !.running = Endpoints]
           /\ Silent
  <2>1. \A q \in Keys : cache'[q] = IF q = k THEN NoEntry ELSE cache[q]
    BY <1>4 DEF Forget, TInv, IInv, Typed
  <2>2. EntriesTyped(cache)'
    BY <2>1, NumbersAssumption DEF TInv, EntriesTyped, NoEntry
  <2>3. Ordered(cache, recent)'
    BY <1>4, ForgetOrdered DEF TInv
  <2>4. lookup' = [pc |-> "probing", key |-> k, running |-> Endpoints, done |-> <<>>,
                   spent |-> 0, hit |-> None]
    BY <1>4 DEF NoLookup
  <2>5. LookupTyped(lookup)'
    BY <2>4, Specials, NumbersAssumption DEF LookupTyped, Found
  <2>6. AnswerTyped'
    BY <1>4 DEF Silent, AnswerTyped
  <2> QED
    BY <1>1, <1>2, <2>2, <2>3, <2>5, <2>6 DEF TInv
<1> QED
  BY <1>3, <1>4 DEF Start

\* A reply that is accepted is of the family of the lookup.
LEMMA ReplyTyped ==
  ASSUME TInv, Reply PROVE TInv'
<1>1. IInv'
  BY ReplyKeeps DEF TInv
<1>2. /\ Plausible(reach, routed)' /\ EntriesTyped(cache)' /\ Ordered(cache, recent)'
      /\ AnswerTyped'
  BY DEF TInv, Reply, world, Plausible, EntriesTyped, Ordered, Silent, AnswerTyped
<1>3. lookup \in Lookups /\ lookup.pc = "probing" /\ lookup.running > 0
  BY DEF TInv, IInv, Typed, Reply
<1>4. PICK body \in Bodies(lookup.key) :
        lookup' = [lookup EXCEPT !.running = @ - 1,
                     !.done = Append(@, Accepted(lookup.key, body))]
  BY DEF Reply
<1> DEFINE new == Accepted(lookup.key, body)
<1>5. new = None \/ new \in AddrsOf[lookup.key.family]
  BY DEF Accepted
<1>6. /\ lookup'.pc = lookup.pc /\ lookup'.key = lookup.key /\ lookup'.running = lookup.running - 1
      /\ lookup'.hit = lookup.hit /\ lookup'.done = Append(lookup.done, new)
  BY <1>3, <1>4 DEF Lookups
<1>7. new \in Addrs \cup {None}
  BY <1>3, AcceptedIsReach DEF TInv, IInv, Sound
<1> HIDE DEF new
<1>8. \A a \in Addrs : Found(lookup', a) => Found(lookup, a) \/ a = new
  BY <1>3, <1>6, <1>7 DEF Found, Lookups, Replies
<1>9. lookup'.running <= Endpoints
  BY <1>3, <1>6, NumbersAssumption DEF TInv, LookupTyped, Lookups
<1>10. LookupTyped(lookup)'
  BY <1>3, <1>5, <1>6, <1>8, <1>9, Specials DEF TInv, LookupTyped
<1> QED
  BY <1>1, <1>2, <1>10 DEF TInv

\* Consuming a reply finds nothing else.
LEMMA ConsumeTyped ==
  ASSUME TInv, Consume PROVE TInv'
<1>1. IInv'
  BY ConsumeKeeps DEF TInv
<1>2. /\ Plausible(reach, routed)' /\ EntriesTyped(cache)' /\ Ordered(cache, recent)'
      /\ AnswerTyped'
  BY DEF TInv, Consume, world, Plausible, EntriesTyped, Ordered, Silent, AnswerTyped
<1>3. lookup \in Lookups /\ lookup.pc = "probing" /\ lookup.done # <<>>
  BY DEF TInv, IInv, Typed, Consume
<1> DEFINE hit == Head(lookup.done)
<1>4. hit = lookup.done[1] /\ 1 \in DOMAIN lookup.done
  BY <1>3 DEF Lookups, Replies
<1>5. /\ lookup'.key = lookup.key /\ lookup'.running \in {0, lookup.running}
      /\ \A a \in Addrs : Found(lookup', a) => Found(lookup, a)
  <2>1. CASE lookup' = [lookup EXCEPT !.pc = "closing", !.hit = hit,
                                      !.running = 0, !.done = <<>>]
    <3>1. lookup'.key = lookup.key /\ lookup'.hit = hit /\ lookup'.done = <<>> /\ lookup'.running = 0
      BY <1>3, <2>1 DEF Lookups
    <3> QED
      BY <1>4, <3>1 DEF Found
  <2>2. CASE lookup' = [lookup EXCEPT !.done = Tail(@)]
    <3>1. /\ lookup'.key = lookup.key /\ lookup'.hit = lookup.hit
          /\ lookup'.done = Tail(lookup.done) /\ lookup'.running = lookup.running
      BY <1>3, <2>2 DEF Lookups
    <3>2. \A i \in DOMAIN Tail(lookup.done) :
            i + 1 \in DOMAIN lookup.done /\ Tail(lookup.done)[i] = lookup.done[i + 1]
      BY <1>3 DEF Lookups, Replies
    <3> QED
      BY <3>1, <3>2 DEF Found
  <2> QED
    BY <2>1, <2>2 DEF Consume
<1>6. LookupTyped(lookup)'
  BY <1>3, <1>5, NumbersAssumption DEF TInv, LookupTyped, Lookups
<1> QED
  BY <1>1, <1>2, <1>6 DEF TInv

\* What a lookup ends with is of its family.
LEMMA FinishTyped ==
  ASSUME TInv, Finish PROVE TInv'
<1> DEFINE k == lookup.key
           found == IF lookup.hit # None THEN lookup.hit ELSE Absent
<1>1. IInv'
  BY FinishKeeps DEF TInv
<1>2. Plausible(reach, routed)'
  BY DEF TInv, Finish, world, Plausible
<1>3. /\ lookup \in Lookups /\ k \in Keys /\ lookup' = NoLookup
      /\ lookup.hit \in AddrsOf[k.family] \cup {None}
  BY DEF TInv, IInv, Typed, Finish, Sound, LookupTyped, Found, Lookups
<1>4. LookupTyped(lookup)'
  BY <1>3, NumbersAssumption DEF LookupTyped, NoLookup
<1>5. found \in Values(k) /\ found # None
  BY <1>3, Specials DEF Values
<1>6. CASE Deliver(k, Failed) /\ UNCHANGED <<cache, recent>>
  <2>1. EntriesTyped(cache)' /\ Ordered(cache, recent)'
    BY <1>6 DEF TInv, EntriesTyped, Ordered
  <2>2. AnswerTyped'
    BY <1>3, <1>6 DEF Deliver, AnswerTyped
  <2> QED
    BY <1>1, <1>2, <1>4, <2>1, <2>2 DEF TInv
<1>7. CASE Deliver(k, found) /\ Put(k, found)
  <2> HIDE DEF k, found
  <2>1. Ordered(cache, recent)'
    BY <1>3, <1>5, <1>7, PutOrdered DEF TInv
  <2>2. ASSUME NEW q \in Keys
        PROVE  cache'[q].value \in Values(q) \cup {None} /\ cache'[q].age <= TTL + 1
    <3>1. CASE cache'[q] = NoEntry
      BY <3>1, NumbersAssumption DEF NoEntry
    <3>2. CASE cache'[q] = cache[q]
      BY <3>2 DEF TInv, EntriesTyped
    <3>3. CASE q = k /\ cache'[q] = [value |-> found, age |-> 0]
      BY <1>5, <3>3, NumbersAssumption
    <3> QED
      BY <1>3, <1>7, <3>1, <3>2, <3>3, PutOnly
  <2>3. AnswerTyped'
    BY <1>3, <1>5, <1>7 DEF Deliver, AnswerTyped
  <2> QED
    BY <1>1, <1>2, <1>4, <2>1, <2>2, <2>3 DEF TInv, EntriesTyped
<1> QED
  BY <1>6, <1>7 DEF Finish

\* Time and the uplinks leave the order, and the values, as they are.
LEMMA WorldTyped ==
  ASSUME TInv, Tick \/ Change PROVE TInv'
<1>1. IInv'
  BY TickKeeps, ChangeKeeps DEF TInv
<1>2. Plausible(reach, routed)'
  BY DEF TInv, Tick, Change, Moved, Plausible
<1>3. AnswerTyped' /\ recent' = recent
  BY DEF Tick, Change, Moved, Silent, AnswerTyped
<1>4. /\ lookup'.running = lookup.running /\ lookup'.pc = lookup.pc /\ lookup'.key = lookup.key
      /\ lookup'.hit = lookup.hit /\ lookup'.done = lookup.done
  <2>1. CASE Tick
    <3> DEFINE spent == IF lookup.pc = "idle" THEN 0 ELSE lookup.spent + 1
    <3>1. lookup' = [lookup EXCEPT !.spent = spent] /\ lookup \in Lookups
      BY <2>1 DEF Tick, TInv, IInv, Typed
    <3> HIDE DEF spent
    <3> QED
      BY <3>1 DEF Lookups
  <2>2. CASE Change
    BY <2>2 DEF Change, Moved
  <2> QED
    BY <2>1, <2>2
<1>5. LookupTyped(lookup)'
  BY <1>4 DEF TInv, LookupTyped, Found
<1>6. ASSUME NEW k \in Keys PROVE cache'[k].value = cache[k].value /\ cache'[k].age <= TTL + 1
  <2>1. cache[k] \in Entries /\ cache[k].age <= TTL + 1
    BY DEF TInv, IInv, Typed, EntriesTyped
  <2>2. CASE Change
    BY <2>1, <2>2 DEF Change, Moved
  <2>3. CASE Tick /\ cache[k].value = None
    BY <2>3, NumbersAssumption DEF Tick, NoEntry
  <2>4. CASE Tick /\ cache[k].value # None
    <3>1. cache'[k] = [cache[k] EXCEPT !.age = Later(@, TTL)]
      BY <2>4 DEF Tick
    <3>2. Later(cache[k].age, TTL) <= TTL + 1
      BY <2>1, NumbersAssumption DEF Later, Entries
    <3> QED
      BY <2>1, <3>1, <3>2 DEF Entries
  <2> QED
    BY <2>2, <2>3, <2>4
<1>7. EntriesTyped(cache)' /\ Ordered(cache, recent)'
  BY <1>3, <1>6 DEF TInv, EntriesTyped, Ordered
<1> QED
  BY <1>1, <1>2, <1>3, <1>5, <1>7 DEF TInv

\* Nothing is cached and nothing asked at first.
LEMMA InitTyped == Init => TInv
<1> SUFFICES ASSUME Init PROVE TInv
  OBVIOUS
<1>1. IInv
  BY InitInvariant
<1>2. \A k \in Keys : cache[k] = NoEntry
  BY DEF Init
<1>3. EntriesTyped(cache)
  BY <1>2, NumbersAssumption DEF EntriesTyped, NoEntry
<1>4. recent = <<>> /\ recent \in Seq(Keys) /\ Len(recent) = 0 /\ DOMAIN recent = {}
  BY DEF Init
<1>5. Ordered(cache, recent)
  BY <1>2, <1>4, NumbersAssumption DEF Ordered, NoEntry, IsInjective, ToSet
<1>6. LookupTyped(lookup) /\ AnswerTyped /\ Plausible(reach, routed)
  BY NumbersAssumption DEF Init, NoLookup, LookupTyped, AnswerTyped
<1> QED
  BY <1>1, <1>3, <1>5, <1>6 DEF TInv

\* Every entry of the cache, and every answer, is of the family asked for, and
\* the cache never holds more than its capacity, whatever is looked up when.
THEOREM TypeCorrect == Spec => []TypeOK
<1>1. ASSUME TInv, [Next]_vars PROVE TInv'
  <2>1. CASE UNCHANGED vars
    <3>1. IInv'
      BY <1>1, <2>1, StutterKeeps DEF TInv
    <3> QED
      BY <1>1, <2>1, <3>1 DEF vars, world, TInv, Plausible, EntriesTyped, Ordered,
         LookupTyped, Found, AnswerTyped
  <2> QED
    BY <1>1, <2>1, StartTyped, ReplyTyped, ConsumeTyped, FinishTyped, WorldTyped DEF Next, Step
<1>2. TInv => TypeOK
  <2> SUFFICES ASSUME TInv PROVE TypeOK
    OBVIOUS
  <2>1. \A k \in Keys : /\ cache[k].value \in Values(k) \cup {None}
                        /\ cache[k].age \in 0 .. TTL + 1
                        /\ cache[k].value # None <=> k \in ToSet(recent)
    BY NumbersAssumption DEF TInv, IInv, Typed, Entries, EntriesTyped, Ordered
  <2>2. lookup \in Lookups /\ lookup.running \in 0 .. Endpoints
    BY NumbersAssumption DEF TInv, IInv, Typed, Lookups, LookupTyped
  <2>3. lookup.pc # "idle" =>
          /\ lookup.key \in Keys /\ lookup.spent \in 0 .. Patience
          /\ lookup.hit \in Values(lookup.key) \cup {None}
    BY <2>2, NumbersAssumption DEF TInv, IInv, Sound, Lookups, LookupTyped, Found, Values
  <2> QED
    BY <2>1, <2>2, <2>3 DEF TInv, Ordered, AnswerTyped, TypeOK, Lookups
<1> QED
  BY <1>1, <1>2, InitTyped, PTL DEF Spec
=============================================================================
