-------------------------- MODULE GroupCycleProofs --------------------------
(***************************************************************************)
(* What run_once decides of a family is recent, for every interface, cache *)
(* time, patience and set of addresses: the two lookups and the reading of *)
(* the interface do not add up to more than their parts.                   *)
(***************************************************************************)
EXTENDS GroupCycle, IpDetectionProofs, SequenceTheorems

First == Order[1]
Second == Order[2]
Rest == <<Second>>

\* The time since the first family was answered, or else since the cycle began.
\* When both are answered it is as long as a lookup can be.
Elapsed(l) == IF l.pc = "idle" THEN 0 ELSE l.spent
Clock == IF cycle.todo = <<>> THEN Patience ELSE Elapsed(lookup)

Cycles == [pc : {"idle", "addresses", "detect"}, up : BOOLEAN, has : SUBSET Families,
           todo : {Order, Rest, <<>>},
           found : [Families -> Addrs \cup {Absent, Failed, None}]]

GroupTyped ==
  /\ nic \in Nics /\ cycle \in Cycles
  /\ gone \in [Families -> Nat]

\* A lookup is the one of the family whose turn it is.
Waits ==
  /\ lookup.pc # "idle" =>
       /\ cycle.pc = "detect" /\ cycle.todo # <<>>
       /\ ~Missing(Head(cycle.todo)) /\ lookup.key = KeyOf(Head(cycle.todo))
  /\ cycle.pc # "detect" => cycle.todo = <<>>

Unasked == cycle.pc # "detect" \/ cycle.todo = Order => cycle.found = NoCycle.found

\* What has been found is no older than it may be at this time of the cycle.
FoundRecent ==
  \A f \in Families :
    /\ cycle.found[f] \in Addrs => since[KeyOf(f)][cycle.found[f]] <= Window + Clock
    /\ cycle.found[f] = Absent => gone[f] <= TTL + Clock

\* So is what the interface was seen without.
MissingRecent ==
  /\ cycle.todo = Order => \A f \in Families : Missing(f) => gone[f] <= Clock
  /\ cycle.todo = Rest /\ Missing(Second) => gone[Second] <= Patience

\* The histories agree with the present, and with each other.
GoneInv ==
  \A f \in Families :
    /\ NotThere(f, nic, routed) => gone[f] = 0
    /\ ~Bound /\ unrouted[f] <= TTL => gone[f] <= unrouted[f]

CycleInv == GroupTyped /\ Waits /\ Unasked /\ FoundRecent /\ MissingRecent /\ GoneInv
GInv == IInv /\ CycleInv /\ VerdictsAreRecent

\* The order of the families.
LEMMA Turns ==
  /\ First \in Families /\ Second \in Families
  /\ \A f \in Families : KeyOf(f) \in Keys /\ KeyOf(f).family = f /\ KeyOf(f).source = Source
  /\ Order # <<>> /\ Rest # <<>> /\ Order # Rest
  /\ Head(Order) = First /\ Tail(Order) = Rest
  /\ Head(Rest) = Second /\ Tail(Rest) = <<>>
<1>1. Order \in Seq(Families) /\ Len(Order) = 2
  BY GroupAssumption
<1>2. First \in Families /\ Second \in Families
  BY <1>1, 1 \in 1 .. 2, 2 \in 1 .. 2, ElementOfSeq DEF First, Second
<1>3. Order # <<>> /\ Head(Order) = First /\ Len(Tail(Order)) = 1 /\ Tail(Order)[1] = Second
  <2>1. Order # <<>>
    BY <1>1, Len(<<>>) = 0
  <2>2. Head(Order) = Order[1] /\ Len(Tail(Order)) = 1
    BY <1>1, <2>1, HeadTailProperties
  <2>3. Tail(Order)[1] = Order[2]
    <3>1. \A i \in 1 .. Len(Tail(Order)) : Tail(Order)[i] = Order[i + 1]
      BY <1>1, <2>1, HeadTailProperties, Zenon
    <3>2. 1 \in 1 .. Len(Tail(Order)) /\ 1 + 1 = 2
      BY <2>2
    <3> QED
      BY <3>1, <3>2
  <2> QED
    BY <2>1, <2>2, <2>3 DEF First, Second
<1>4. Tail(Order) = Rest /\ Order # Rest
  <2>1. Tail(Order) \in Seq(Families) /\ Rest \in Seq(Families) /\ Len(Rest) = 1 /\ Rest[1] = Second
    BY <1>1, <1>2, <1>3, HeadTailProperties DEF Rest
  <2>2. Tail(Order) = Rest
    <3>1. \A i \in 1 .. Len(Tail(Order)) : Tail(Order)[i] = Rest[i]
      <4>1. \A i \in 1 .. 1 : Tail(Order)[i] = Rest[i]
        BY <1>3, <2>1
      <4> QED
        BY <1>3, <4>1
    <3> QED
      BY <1>3, <2>1, <3>1, SeqEqual
  <2> QED
    BY <1>1, <2>1, <2>2
<1>5. Rest # <<>> /\ Head(Rest) = Second /\ Tail(Rest) = <<>>
  BY DEF Rest
<1> QED
  BY <1>2, <1>3, <1>4, <1>5, GroupAssumption DEF KeyOf

\* A lookup takes no longer than its patience.
LEMMA ClockRuns ==
  ASSUME IInv
  PROVE  Elapsed(lookup) \in Nat /\ Elapsed(lookup) <= Patience /\ Clock \in Nat /\ Clock <= Patience
<1>1. lookup \in Lookups /\ Sound(lookup)
  BY DEF IInv, Typed
<1>2. Elapsed(lookup) \in Nat /\ Elapsed(lookup) <= Patience
  BY <1>1, Specials DEF Elapsed, Lookups, Sound
<1> QED
  BY <1>2, Specials DEF Clock

\* No verdict is in order at any time.
LEMMA NoVerdictInOrder ==
  ASSUME verdict' = NoVerdict PROVE VerdictsAreRecent'
BY Specials DEF NoVerdict, VerdictsAreRecent

\* A cycle that has found nothing has nothing to answer for.
LEMMA Empty ==
  /\ NoCycle \in Cycles /\ NoCycle.pc = "idle" /\ NoCycle.todo = <<>>
  /\ \A f \in Families : NoCycle.found[f] = None
BY DEF NoCycle, Cycles

\* A cycle begins, or has ended, while nothing else happens.
LEMMA BeginsKeeps ==
  ASSUME GInv, UNCHANGED <<vars, surroundings>>, cycle' \in Cycles,
         lookup.pc = "idle", cycle'.found = NoCycle.found,
         cycle'.todo \in {Order, <<>>}, cycle'.pc # "detect" => cycle'.todo = <<>>,
         cycle'.todo = Order => \A f \in Families : Missing(f)' => gone[f] = 0,
         VerdictsAreRecent'
  PROVE  GInv'
<1>1. IInv'
  BY StutterKeeps DEF GInv
<1>2. UNCHANGED <<nic, gone, since, unrouted, routed, lookup>>
  BY DEF vars, world, surroundings
<1>3. GroupTyped' /\ GoneInv'
  BY <1>2 DEF GInv, CycleInv, GroupTyped, GoneInv, NotThere
<1>4. Waits' /\ Unasked'
  BY <1>2 DEF Waits, Unasked
<1>5. FoundRecent'
  BY Empty, Specials DEF FoundRecent
<1>6. Clock' \in Nat
  BY <1>1, ClockRuns, Specials DEF Clock, Elapsed, IInv, Typed, Lookups
<1>7. MissingRecent'
  BY <1>2, <1>6, Turns DEF MissingRecent, GInv, CycleInv, GroupTyped
<1> QED
  BY <1>1, <1>3, <1>4, <1>5, <1>7 DEF GInv, CycleInv

\* The second snapshot of list_interfaces keeps the invariant.
LEMMA ReadAddressesKeeps ==
  ASSUME GInv, ReadAddresses PROVE GInv'
<1>1. cycle \in Cycles /\ nic \in Nics
  BY DEF GInv, CycleInv, GroupTyped
<1>2. lookup.pc = "idle" /\ cycle.found = NoCycle.found
  BY DEF ReadAddresses, GInv, CycleInv, Waits, Unasked
<1>3. VerdictsAreRecent' /\ UNCHANGED <<vars, surroundings>>
  BY NoVerdictInOrder DEF ReadAddresses
<1>4. CASE cycle' = NoCycle
  BY <1>2, <1>3, <1>4, Turns, Empty, BeginsKeeps
<1>5. CASE cycle' = [cycle EXCEPT !.pc = "detect", !.has = nic.has, !.todo = Order]
  <2>1. /\ cycle'.pc = "detect" /\ cycle'.has = nic.has /\ cycle'.todo = Order
        /\ cycle'.found = cycle.found
    BY <1>1, <1>5 DEF Cycles
  <2>2. cycle' \in Cycles
    BY <1>1, <1>5 DEF Cycles, Nics
  <2>3. \A f \in Families : Missing(f)' => gone[f] = 0
    BY <2>1 DEF Missing, Bound, GInv, CycleInv, GoneInv, NotThere
  <2> QED
    BY <1>2, <1>3, <2>1, <2>2, <2>3, BeginsKeeps
<1> QED
  BY <1>4, <1>5 DEF ReadAddresses, Skip

\* So does the start of a cycle,
LEMMA BeginKeeps ==
  ASSUME GInv, Begin PROVE GInv'
<1>1. lookup.pc = "idle" /\ UNCHANGED <<vars, surroundings>>
  BY DEF Begin, GInv, CycleInv, Waits
<1>2. VerdictsAreRecent'
  BY NoVerdictInOrder DEF Begin
<1>3. CASE Bound
  <2>1. cycle' = [pc |-> "addresses", up |-> nic.state # "down", has |-> {}, todo |-> <<>>,
                  found |-> NoCycle.found]
    BY <1>3 DEF Begin, NoCycle
  <2>2. cycle' \in Cycles
    BY <2>1, Empty DEF Cycles
  <2>3. cycle'.todo = <<>> /\ cycle'.found = NoCycle.found
    BY <2>1
  <2> QED
    BY <1>1, <1>2, <2>2, <2>3, Turns, BeginsKeeps
<1>4. CASE ~Bound
  <2>1. cycle' = [pc |-> "detect", up |-> FALSE, has |-> {}, todo |-> Order, found |-> NoCycle.found]
    BY <1>4 DEF Begin, NoCycle
  <2>2. cycle' \in Cycles
    BY <2>1, Empty DEF Cycles
  <2>3. cycle'.todo = Order /\ cycle'.found = NoCycle.found /\ cycle'.pc = "detect"
    BY <2>1
  <2>4. \A f \in Families : ~Missing(f)'
    BY <1>4 DEF Missing, Bound
  <2> QED
    BY <1>1, <1>2, <2>2, <2>3, <2>4, BeginsKeeps
<1> QED
  BY <1>3, <1>4

\* The family whose turn it is has its answer.
LEMMA NoteKeeps ==
  ASSUME GInv, IInv', UNCHANGED <<world, surroundings>>, VerdictsAreRecent',
         cycle.pc = "detect", cycle.todo # <<>>,
         NEW v \in Addrs \cup {Absent, Failed}, Note(Head(cycle.todo), v),
         lookup'.pc = "idle",
         v \in Addrs => since[KeyOf(Head(cycle.todo))][v] <= Window,
         v = Absent => gone[Head(cycle.todo)] <= IF cycle.todo = Order THEN TTL ELSE Window
  PROVE  GInv'
<1> DEFINE f == Head(cycle.todo)
<1>1. cycle \in Cycles /\ gone \in [Families -> Nat] /\ cycle.todo \in {Order, Rest}
  BY DEF GInv, CycleInv, GroupTyped, Cycles
<1>2. f \in Families /\ Tail(cycle.todo) = IF cycle.todo = Order THEN Rest ELSE <<>>
  BY <1>1, Turns
<1>3. UNCHANGED <<nic, gone, since, unrouted, routed>>
  BY DEF world, surroundings
<1> HIDE DEF f
<1>4. /\ cycle'.pc = cycle.pc /\ cycle'.has = cycle.has /\ cycle'.todo = Tail(cycle.todo)
      /\ cycle'.found = [cycle.found EXCEPT ![f] = v]
  BY <1>1 DEF Note, Cycles, f
<1>5. cycle' \in Cycles
  <2>1. Tail(cycle.todo) \in {Order, Rest, <<>>}
    BY <1>2
  <2>2. [cycle.found EXCEPT ![f] = v] \in [Families -> Addrs \cup {Absent, Failed, None}]
    BY <1>1, <1>2 DEF Cycles
  <2>3. cycle' = [cycle EXCEPT !.todo = Tail(cycle.todo), !.found = [cycle.found EXCEPT ![f] = v]]
    BY <1>1 DEF Note, Cycles, f
  <2> QED
    BY <1>1, <2>1, <2>2, <2>3 DEF Cycles
<1>6. GroupTyped' /\ GoneInv'
  BY <1>3, <1>5 DEF GInv, CycleInv, GroupTyped, GoneInv, NotThere
<1>7. Waits'
  BY <1>4 DEF Waits
<1>8. Unasked'
  BY <1>2, <1>4, Turns DEF Unasked
<1>9. /\ Clock \in Nat /\ Clock <= Patience
      /\ Clock' = IF cycle.todo = Order THEN 0 ELSE Patience
  <2>1. Clock \in Nat /\ Clock <= Patience
    BY ClockRuns DEF GInv
  <2>2. Clock' = IF cycle.todo = Order THEN 0 ELSE Patience
    BY <1>2, <1>4, Turns DEF Clock, Elapsed
  <2> QED
    BY <2>1, <2>2
<1>10. FoundRecent'
  <2> SUFFICES ASSUME NEW g \in Families
               PROVE  /\ cycle'.found[g] \in Addrs =>
                           since[KeyOf(g)][cycle'.found[g]] <= Window + Clock'
                      /\ cycle'.found[g] = Absent => gone[g] <= TTL + Clock'
    BY <1>3 DEF FoundRecent, KeyOf
  <2>1. KeyOf(g) \in Keys /\ since \in [Keys -> [Addrs -> Nat]] /\ gone[g] \in Nat
    BY <1>1, Turns DEF GInv, IInv, Typed
  <2>2. CASE g = f
    <3>1. cycle'.found[g] = v
      BY <1>1, <1>2, <1>4, <2>2 DEF Cycles
    <3>2. v \in Addrs => since[KeyOf(g)][v] \in Nat /\ since[KeyOf(g)][v] <= Window
      BY <2>1, <2>2 DEF f
    <3>3. v = Absent => gone[g] <= TTL + Clock'
      BY <1>9, <2>1, <2>2, Specials DEF f
    <3>4. v \in Addrs => since[KeyOf(g)][v] <= Window + Clock'
      BY <1>9, <3>2, Specials
    <3> QED
      BY <3>1, <3>3, <3>4
  <2>3. CASE g # f
    <3>1. cycle'.found[g] = cycle.found[g]
      BY <1>1, <1>2, <1>4, <2>3 DEF Cycles
    <3>2. CASE cycle.todo = Order
      BY <3>1, <3>2, Empty, Specials DEF GInv, CycleInv, Unasked
    <3>3. CASE cycle.todo # Order
      <4> DEFINE a == cycle.found[g]
      <4>1. /\ a \in Addrs => since[KeyOf(g)][a] <= Window + Clock
            /\ a = Absent => gone[g] <= TTL + Clock
        BY DEF GInv, CycleInv, FoundRecent
      <4>2. a \in Addrs => since[KeyOf(g)][a] \in Nat
        BY <2>1
      <4> HIDE DEF a
      <4>3. /\ a \in Addrs => since[KeyOf(g)][a] <= Window + Clock'
            /\ a = Absent => gone[g] <= TTL + Clock'
        BY <1>9, <2>1, <3>3, <4>1, <4>2, Specials
      <4> QED
        BY <3>1, <4>3 DEF a
    <3> QED
      BY <3>2, <3>3
  <2> QED
    BY <2>2, <2>3
<1>11. MissingRecent'
  <2> SUFFICES ASSUME cycle'.todo = Rest, Missing(Second)' PROVE gone[Second] <= Patience
    BY <1>2, <1>3, <1>4, Turns DEF MissingRecent
  <2>1. cycle.todo = Order /\ Missing(Second)
    BY <1>1, <1>2, <1>4, Turns DEF Missing, Bound
  <2>2. gone[Second] <= Clock /\ gone[Second] \in Nat
    BY <1>1, <2>1, Turns DEF GInv, CycleInv, MissingRecent
  <2> QED
    BY <1>9, <2>2, Specials
<1> QED
  BY <1>6, <1>7, <1>8, <1>10, <1>11 DEF GInv, CycleInv

\* A lookup that has its answer is over; one that has not goes on.
LEMMA Asking ==
  ASSUME IInv, NEW k \in Keys, Start(k) \/ (lookup.pc # "idle" /\ lookup.key = k /\ Step)
  PROVE  /\ IInv' /\ UNCHANGED world
         /\ answer' = NoAnswer =>
              /\ lookup'.pc # "idle" /\ lookup'.key = k
              /\ lookup'.spent = Elapsed(lookup)
         /\ answer' # NoAnswer =>
              /\ lookup'.pc = "idle" /\ answer'.key = k
              /\ answer'.value \in Addrs \cup {Absent, Failed}
<1>1. lookup \in Lookups /\ cache[k] \in Entries
  BY DEF IInv, Typed
<1>2. IInv' /\ UNCHANGED world
  BY StartKeeps, ReplyKeeps, ConsumeKeeps, FinishKeeps DEF Step, Start, Reply, Consume, Finish
<1> DEFINE Goes == /\ answer' = NoAnswer /\ lookup'.pc # "idle" /\ lookup'.key = k
                   /\ lookup'.spent = Elapsed(lookup)
           Ends == /\ answer' # NoAnswer /\ lookup'.pc = "idle" /\ answer'.key = k
                   /\ answer'.value \in Addrs \cup {Absent, Failed}
<1>3. ASSUME NEW v \in Addrs \cup {Absent, Failed}, Deliver(k, v), lookup'.pc = "idle" PROVE Ends
  <2>1. answer' = [key |-> k, value |-> v]
    BY <1>3 DEF Deliver
  <2>2. answer'.key = k /\ answer'.value = v /\ NoAnswer.value = None
    BY <2>1 DEF NoAnswer
  <2>3. v # None
    BY Specials
  <2> QED
    BY <1>3, <2>2, <2>3
<1>4. ASSUME Start(k) PROVE Goes \/ Ends
  <2>1. CASE Fresh(k) /\ Deliver(k, cache[k].value) /\ UNCHANGED lookup
    BY <1>1, <1>3, <1>4, <2>1 DEF Fresh, Entries, Start
  <2>2. CASE /\ lookup' = [NoLookup EXCEPT !.pc = "probing", !.key = k, !.running = Endpoints]
             /\ Silent
    BY <1>4, <2>2 DEF Silent, NoLookup, Elapsed, Start
  <2> QED
    BY <1>4, <2>1, <2>2 DEF Start
<1>5. ASSUME lookup.pc # "idle", lookup.key = k, Reply \/ Consume PROVE Goes \/ Ends
  <2>1. Silent
    BY <1>5 DEF Reply, Consume
  <2>2. lookup'.pc # "idle" /\ lookup'.key = lookup.key /\ lookup'.spent = lookup.spent
    BY <1>1, <1>5 DEF Reply, Consume, Lookups
  <2> QED
    BY <1>5, <2>1, <2>2 DEF Silent, Elapsed
<1>6. ASSUME lookup.key = k, Finish PROVE Goes \/ Ends
  <2>1. lookup'.pc = "idle"
    BY <1>6 DEF Finish, NoLookup
  <2>2. \E v \in Addrs \cup {Absent, Failed} : Deliver(k, v)
    BY <1>1, <1>6 DEF Finish, Lookups
  <2> QED
    BY <1>3, <2>1, <2>2
<1> QED
  BY <1>2, <1>4, <1>5, <1>6 DEF Step

\* the step that looks a family up or skips it,
LEMMA DetectKeeps ==
  ASSUME GInv, Detect PROVE GInv'
<1> DEFINE f == Head(cycle.todo)
<1>1. /\ cycle.pc = "detect" /\ cycle.todo # <<>> /\ VerdictsAreRecent' /\ UNCHANGED surroundings
      /\ cycle \in Cycles /\ gone \in [Families -> Nat] /\ lookup \in Lookups
  BY NoVerdictInOrder DEF Detect, GInv, CycleInv, GroupTyped, IInv, Typed
<1>2. /\ cycle.todo \in {Order, Rest} /\ f = IF cycle.todo = Order THEN First ELSE Second
      /\ f \in Families
  BY <1>1, Turns DEF Cycles
<1>3. KeyOf(f) \in Keys /\ KeyOf(f).family = f /\ KeyOf(f).source = Source
  BY <1>2, Turns
<1>4. CASE Missing(f) /\ Note(f, Absent) /\ UNCHANGED vars
  <2>1. lookup.pc = "idle" /\ lookup' = lookup /\ UNCHANGED world /\ IInv'
    BY <1>4, StutterKeeps DEF GInv, CycleInv, Waits, vars
  <2>2. Clock = 0
    BY <1>1, <2>1 DEF Clock, Elapsed
  <2>3. gone[f] <= IF cycle.todo = Order THEN TTL ELSE Window
    <3>1. gone[f] \in Nat
      BY <1>1, <1>2
    <3>2. cycle.todo = Order => gone[f] <= Clock
      BY <1>2, <1>4 DEF GInv, CycleInv, MissingRecent
    <3>3. cycle.todo = Rest => gone[f] <= Patience
      BY <1>2, <1>4, Turns DEF GInv, CycleInv, MissingRecent
    <3> QED
      BY <1>2, <2>2, <3>1, <3>2, <3>3, Specials
  <2>4. Absent \notin Addrs
    BY Specials
  <2> QED
    BY <1>1, <1>4, <2>1, <2>3, <2>4, NoteKeeps
<1>5. CASE /\ ~Missing(f)
           /\ Start(KeyOf(f)) \/ (lookup.pc # "idle" /\ Step)
           /\ IF answer' = NoAnswer THEN UNCHANGED cycle ELSE Note(f, answer'.value)
  <2>1. Start(KeyOf(f)) \/ (lookup.pc # "idle" /\ lookup.key = KeyOf(f) /\ Step)
    BY <1>5 DEF GInv, CycleInv, Waits
  <2>2. IInv' /\ UNCHANGED world
    BY <1>3, <2>1, Asking DEF GInv
  <2>3. CASE answer' = NoAnswer
    <3>1. lookup'.pc # "idle" /\ lookup'.key = KeyOf(f) /\ lookup'.spent = Elapsed(lookup)
      BY <1>3, <2>1, <2>3, Asking DEF GInv
    <3>2. cycle' = cycle /\ UNCHANGED <<nic, gone, since, unrouted, routed>>
      BY <1>5, <2>2, <2>3, <1>1 DEF world, surroundings
    <3>3. Clock' = Clock
      BY <1>1, <3>1, <3>2 DEF Clock, Elapsed
    <3>4. Waits'
      BY <1>1, <1>5, <3>1, <3>2 DEF Waits, Missing, Bound, KeyOf
    <3>5. GroupTyped' /\ GoneInv' /\ Unasked'
      BY <3>2 DEF GInv, CycleInv, GroupTyped, GoneInv, NotThere, Unasked
    <3>6. FoundRecent' /\ MissingRecent'
      BY <3>2, <3>3 DEF GInv, CycleInv, FoundRecent, MissingRecent, Missing, Bound, KeyOf
    <3> QED
      BY <1>1, <2>2, <3>4, <3>5, <3>6 DEF GInv, CycleInv
  <2>4. CASE answer' # NoAnswer
    <3> DEFINE v == answer'.value
    <3>1. lookup'.pc = "idle" /\ answer'.key = KeyOf(f) /\ v \in Addrs \cup {Absent, Failed}
      BY <1>3, <2>1, <2>4, Asking DEF GInv
    <3>2. UNCHANGED <<since, unrouted>>
      BY <2>2 DEF world
    <3>3. v \in Addrs => since[KeyOf(f)][v] <= Window
      BY <2>2, <3>1, <3>2 DEF IInv, AnswerInv, AddressesAreRecent
    <3>4. v = Absent => gone[f] <= TTL
      <4> SUFFICES ASSUME v = Absent PROVE gone[f] <= TTL
        OBVIOUS
      <4>1. Source = Default /\ unrouted[f] <= TTL
        BY <1>3, <2>2, <3>1, <3>2 DEF IInv, AnswerInv, AbsentMeansNoRoute
      <4>2. gone[f] <= unrouted[f]
        BY <1>2, <4>1 DEF Bound, GInv, CycleInv, GoneInv
      <4>3. gone[f] \in Nat /\ unrouted[f] \in Nat
        BY <1>1, <1>2 DEF GInv, IInv, Typed
      <4> QED
        BY <4>1, <4>2, <4>3, Specials
    <3> HIDE DEF v
    <3>5. v = Absent => gone[f] <= IF cycle.todo = Order THEN TTL ELSE Window
      BY <1>1, <1>2, <3>4, Specials
    <3>6. Note(f, v)
      BY <1>5, <2>4 DEF v
    <3> QED
      BY <1>1, <2>2, <3>1, <3>3, <3>5, <3>6, NoteKeeps
  <2> QED
    BY <2>3, <2>4
<1> QED
  BY <1>4, <1>5 DEF Detect

\* and the verdict of run_once.
LEMMA DecideKeeps ==
  ASSUME GInv, Decide PROVE GInv'
<1>1. UNCHANGED <<vars, surroundings>> /\ cycle' = NoCycle
  BY DEF Decide
<1>2. lookup.pc = "idle" /\ Clock = Patience
  BY DEF Decide, GInv, CycleInv, Waits, Clock
<1>3. VerdictsAreRecent'
  <2>1. CASE verdict' = NoVerdict
    BY <2>1, NoVerdictInOrder
  <2>2. CASE verdict' = [f \in Families |-> IF f \in Asserts(cycle.found) THEN cycle.found[f]
                                            ELSE IF f \in Deletes(cycle.found) THEN Absent ELSE None]
    <3> SUFFICES ASSUME NEW f \in Families
                 PROVE  /\ verdict'[f] = Absent => gone[f] <= Window
                        /\ verdict'[f] \in Addrs => since[KeyOf(f)][verdict'[f]] <= Horizon
      BY <1>1 DEF VerdictsAreRecent, vars, world, surroundings, KeyOf
    <3>1. /\ verdict'[f] = Absent => cycle.found[f] = Absent
          /\ verdict'[f] \in Addrs => cycle.found[f] = verdict'[f]
      BY <2>2, Specials DEF Asserts, Deletes
    <3>2. /\ cycle.found[f] \in Addrs => since[KeyOf(f)][cycle.found[f]] <= Window + Patience
          /\ cycle.found[f] = Absent => gone[f] <= TTL + Patience
      BY <1>2 DEF GInv, CycleInv, FoundRecent
    <3> QED
      BY <3>1, <3>2, Specials DEF Horizon
  <2> QED
    BY <2>1, <2>2 DEF Decide
<1> QED
  BY <1>1, <1>2, <1>3, Empty, Turns, BeginsKeeps

\* Time passes for what was found as it does for the lookup in progress.
LEMMA TimePassesKeeps ==
  ASSUME GInv, TimePasses PROVE GInv'
<1>1. /\ UNCHANGED <<nic, cycle, routed>> /\ VerdictsAreRecent' /\ Tick /\ IInv'
      /\ cycle \in Cycles /\ gone \in [Families -> Nat] /\ lookup \in Lookups
      /\ unrouted \in [Families -> Nat] /\ since \in [Keys -> [Addrs -> Nat]]
  BY NoVerdictInOrder, TickKeeps
     DEF TimePasses, GInv, CycleInv, GroupTyped, IInv, Typed, Tick
<1>2. /\ lookup'.pc = lookup.pc /\ lookup'.key = lookup.key
      /\ lookup.pc # "idle" => lookup'.spent = lookup.spent + 1
  BY <1>1 DEF Tick, Lookups
<1>3. /\ gone' \in [Families -> Nat]
      /\ \A f \in Families : gone'[f] <= gone[f] + 1
      /\ \A f \in Families : NotThere(f, nic, routed) => gone'[f] = 0
  BY <1>1, Specials DEF TimePasses, Later
<1>4. GroupTyped' /\ Waits' /\ Unasked'
  BY <1>1, <1>2, <1>3
     DEF GInv, CycleInv, GroupTyped, Waits, Unasked, Missing, Bound, KeyOf
<1>5. GoneInv'
  <2> SUFFICES ASSUME NEW f \in Families, ~Bound, unrouted'[f] <= TTL
               PROVE  gone'[f] <= unrouted'[f]
    BY <1>1, <1>3 DEF GoneInv, Bound, NotThere
  <2>1. /\ unrouted'[f] = IF routed[f] THEN Later(unrouted[f], Window) ELSE 0
        /\ gone'[f] = IF ~routed[f] THEN 0 ELSE Later(gone[f], Window)
    BY <1>1 DEF TimePasses, Tick, NotThere
  <2>2. unrouted[f] <= TTL => gone[f] <= unrouted[f]
    BY DEF GInv, CycleInv, GoneInv
  <2>3. unrouted[f] \in Nat /\ gone[f] \in Nat
    BY <1>1
  <2> QED
    BY <2>1, <2>2, <2>3, Specials DEF Later
<1>6. CASE cycle.pc = "idle"
  <2>1. cycle'.todo = <<>> /\ cycle'.found = NoCycle.found
    BY <1>1, <1>6 DEF GInv, CycleInv, Waits, Unasked
  <2>2. FoundRecent'
    BY <2>1, Empty, Specials DEF FoundRecent
  <2>3. MissingRecent'
    BY <2>1, Turns DEF MissingRecent
  <2> QED
    BY <1>1, <1>4, <1>5, <2>2, <2>3 DEF GInv, CycleInv
<1>7. CASE lookup.pc # "idle"
  <2>1. /\ cycle.todo # <<>> /\ ~Missing(Head(cycle.todo))
        /\ Clock = lookup.spent /\ Clock' = Clock + 1 /\ Clock \in Nat
    BY <1>1, <1>2, <1>7 DEF GInv, CycleInv, Waits, Clock, Elapsed, Lookups
  <2>2. FoundRecent'
    <3> SUFFICES ASSUME NEW f \in Families
                 PROVE  /\ cycle.found[f] \in Addrs =>
                             since'[KeyOf(f)][cycle.found[f]] <= Window + (Clock + 1)
                        /\ cycle.found[f] = Absent => gone'[f] <= TTL + (Clock + 1)
      BY <1>1, <2>1 DEF FoundRecent, KeyOf
    <3> DEFINE a == cycle.found[f]
    <3>1. /\ a \in Addrs => since[KeyOf(f)][a] <= Window + Clock
          /\ a = Absent => gone[f] <= TTL + Clock
      BY DEF GInv, CycleInv, FoundRecent
    <3> HIDE DEF a
    <3>2. a \in Addrs => /\ since[KeyOf(f)][a] \in Nat /\ since'[KeyOf(f)][a] \in Nat
                         /\ since'[KeyOf(f)][a] <= since[KeyOf(f)][a] + 1
      BY <1>1, Turns, TickAges DEF GInv
    <3>3. gone[f] \in Nat /\ gone'[f] \in Nat /\ gone'[f] <= gone[f] + 1
      BY <1>1, <1>3
    <3>4. Clock \in Nat /\ Window \in Nat /\ TTL \in Nat
      BY <2>1, Specials
    <3>5. a \in Addrs => since'[KeyOf(f)][a] <= Window + (Clock + 1)
      BY <3>1, <3>2, <3>4
    <3>6. a = Absent => gone'[f] <= TTL + (Clock + 1)
      BY <3>1, <3>3, <3>4
    <3> QED
      BY <3>5, <3>6 DEF a
  <2>3. MissingRecent'
    <3>1. ASSUME cycle.todo = Order, NEW f \in Families, Missing(f) PROVE gone'[f] <= Clock + 1
      <4>1. gone[f] <= Clock
        BY <3>1 DEF GInv, CycleInv, MissingRecent
      <4> QED
        BY <1>1, <1>3, <2>1, <4>1
    <3>2. cycle.todo = Rest => ~Missing(Second)
      BY <2>1, Turns
    <3> QED
      BY <1>1, <2>1, <3>1, <3>2 DEF MissingRecent, Missing, Bound
  <2> QED
    BY <1>1, <1>4, <1>5, <2>2, <2>3 DEF GInv, CycleInv
<1> QED
  BY <1>6, <1>7 DEF TimePasses

\* A change of the link makes nothing older that was found.
LEMMA LinkChangesKeeps ==
  ASSUME GInv, LinkChanges PROVE GInv'
<1>1. /\ UNCHANGED cycle /\ VerdictsAreRecent' /\ Moved
      /\ gone \in [Families -> Nat] /\ nic' \in Nics
      /\ unrouted \in [Families -> Nat] /\ since \in [Keys -> [Addrs -> Nat]]
  BY NoVerdictInOrder
     DEF LinkChanges, Change, GInv, CycleInv, GroupTyped, IInv, Typed
<1>2. IInv'
  <2>1. CASE Change
    BY <2>1, ChangeKeeps DEF GInv
  <2>2. CASE /\ routed' = routed
             /\ reach' = [k \in Keys |-> IF /\ k.source = Source
                                            /\ nic'.state # "up" \/ k.family \notin nic'.has
                                         THEN None ELSE reach[k]]
    <3>1. reach' = [k \in Keys |-> reach'[k]] /\ routed' \in [Families -> BOOLEAN]
      BY <2>2 DEF GInv, IInv, Typed
    <3> QED
      BY <1>1, <3>1, MovedKeeps DEF GInv
  <2> QED
    BY <2>1, <2>2 DEF LinkChanges
<1>3. lookup' = lookup
  BY <1>1 DEF Moved
<1>4. /\ gone' \in [Families -> Nat]
      /\ \A f \in Families : gone'[f] <= gone[f]
      /\ \A f \in Families : NotThere(f, nic', routed') => gone'[f] = 0
  BY <1>1 DEF LinkChanges
<1>5. GroupTyped' /\ Waits' /\ Unasked' /\ Clock' = Clock /\ Clock \in Nat
  BY <1>1, <1>3, <1>4, ClockRuns
     DEF GInv, CycleInv, GroupTyped, Waits, Unasked, Missing, Bound, KeyOf, Clock
<1>6. GoneInv'
  <2> SUFFICES ASSUME NEW f \in Families, ~Bound, unrouted'[f] <= TTL
               PROVE  gone'[f] <= unrouted'[f]
    BY <1>4 DEF GoneInv, Bound, NotThere
  <2>1. /\ unrouted'[f] = IF routed'[f] THEN unrouted[f] ELSE 0
        /\ gone'[f] = IF ~routed'[f] THEN 0 ELSE gone[f]
    BY <1>1 DEF LinkChanges, Moved, NotThere
  <2> QED
    BY <2>1 DEF GInv, CycleInv, GoneInv
<1>7. FoundRecent'
  <2> SUFFICES ASSUME NEW f \in Families
               PROVE  /\ cycle.found[f] \in Addrs =>
                           since'[KeyOf(f)][cycle.found[f]] <= Window + Clock
                      /\ cycle.found[f] = Absent => gone'[f] <= TTL + Clock
    BY <1>1, <1>5 DEF FoundRecent, KeyOf
  <2> DEFINE a == cycle.found[f]
  <2>1. /\ a \in Addrs => since[KeyOf(f)][a] <= Window + Clock
        /\ a = Absent => gone[f] <= TTL + Clock
    BY DEF GInv, CycleInv, FoundRecent
  <2> HIDE DEF a
  <2>2. a \in Addrs => /\ since[KeyOf(f)][a] \in Nat /\ since'[KeyOf(f)][a] \in Nat
                       /\ since'[KeyOf(f)][a] <= since[KeyOf(f)][a]
    BY <1>1, Turns, MovedAges DEF GInv
  <2>3. gone[f] \in Nat /\ gone'[f] \in Nat /\ gone'[f] <= gone[f]
    BY <1>1, <1>4
  <2>4. /\ a \in Addrs => since'[KeyOf(f)][a] <= Window + Clock
        /\ a = Absent => gone'[f] <= TTL + Clock
    BY <1>5, <2>1, <2>2, <2>3, Specials
  <2> QED
    BY <2>4 DEF a
<1>8. MissingRecent'
  <2>1. ASSUME NEW f \in Families, NEW n \in Nat, gone[f] <= n PROVE gone'[f] <= n
    BY <1>1, <1>4, <2>1
  <2> QED
    BY <1>1, <1>5, <2>1, Turns, Specials DEF GInv, CycleInv, MissingRecent, Missing, Bound
<1> QED
  BY <1>1, <1>2, <1>5, <1>6, <1>7, <1>8 DEF GInv, CycleInv

\* The invariant holds at first.
LEMMA GroupInitInvariant == GroupInit => GInv
<1> SUFFICES ASSUME GroupInit PROVE GInv
  OBVIOUS
<1>1. IInv
  BY InitInvariant DEF GroupInit
<1>2. /\ cycle = NoCycle /\ nic \in Nics /\ lookup.pc = "idle"
      /\ unrouted = [f \in Families |-> IF routed[f] THEN Window + 1 ELSE 0]
  BY DEF GroupInit, Init, NoLookup
<1>3. gone \in [Families -> Nat] /\ \A f \in Families : NotThere(f, nic, routed) => gone[f] = 0
  BY Specials DEF GroupInit
<1>4. GroupTyped /\ Waits /\ Unasked
  BY <1>2, <1>3, Empty DEF GroupTyped, Waits, Unasked
<1>5. FoundRecent /\ MissingRecent
  BY <1>2, Empty, Turns, Specials DEF FoundRecent, MissingRecent
<1>6. GoneInv
  <2> SUFFICES ASSUME NEW f \in Families, ~Bound, unrouted[f] <= TTL PROVE gone[f] <= unrouted[f]
    BY <1>3 DEF GoneInv
  <2>1. ~routed[f] /\ unrouted[f] = 0
    BY <1>2, Specials
  <2> QED
    BY <1>3, <2>1 DEF NotThere
<1>7. VerdictsAreRecent
  BY Specials DEF GroupInit, NoVerdict, VerdictsAreRecent
<1> QED
  BY <1>1, <1>4, <1>5, <1>6, <1>7 DEF GInv, CycleInv

\* The invariant holds of every reachable state.
THEOREM GroupInvariance == GroupSpec => []GInv
<1>1. ASSUME GInv, [GroupNext]_groupVars PROVE GInv'
  <2>1. CASE GroupNext
    BY <1>1, <2>1, BeginKeeps, ReadAddressesKeeps, DetectKeeps, DecideKeeps,
       TimePassesKeeps, LinkChangesKeeps DEF GroupNext, CycleStep
  <2>2. CASE UNCHANGED groupVars
    <3>1. IInv'
      BY <1>1, <2>2, StutterKeeps DEF GInv, groupVars
    <3>2. CycleInv'
      BY <1>1, <2>2 DEF GInv, CycleInv, groupVars, vars, world, surroundings, GroupTyped,
         Waits, Unasked, FoundRecent, MissingRecent, GoneInv, Missing, Bound, KeyOf, NotThere, Clock
    <3>3. VerdictsAreRecent'
      BY <1>1, <2>2 DEF GInv, groupVars, vars, world, surroundings, VerdictsAreRecent, KeyOf
    <3> QED
      BY <3>1, <3>2, <3>3 DEF GInv
  <2> QED
    BY <1>1, <2>1, <2>2
<1> QED
  BY <1>1, GroupInitInvariant, PTL DEF GroupSpec

\* No records are deleted or asserted on anything older than a cache time and
\* two lookups, whatever the links do while a cycle of run_once detects.
THEOREM VerdictsRecent == GroupSpec => []VerdictsAreRecent
BY GroupInvariance, PTL DEF GInv
=============================================================================
