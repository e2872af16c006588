------------------------- MODULE ZoneListingProofs -------------------------
(***************************************************************************)
(* What the wizard's listing collects, for any account, any page size, and *)
(* any number of zones that come and go while it runs.                     *)
(***************************************************************************)
EXTENDS ZoneListing, TLAPS, SequenceTheorems, FiniteSetTheorems

\* How many places of the account the pages cover that have been asked for.
Taken == (page - 1) * PerPage

Typed ==
  /\ account \in Seq(Zones) /\ IsInjective(account)
  /\ page \in Nat \ {0} /\ zones \in Seq(Zones)
  /\ witness.start \in Seq(Zones) /\ IsInjective(witness.start)
  /\ witness.added \subseteq Zones /\ witness.removed \subseteq Zones
  /\ witness = [start |-> witness.start, added |-> witness.added, removed |-> witness.removed]

\* Nothing is listed that was never there.
Origins == \A z \in ToSet(zones) : z \in ToSet(witness.start) \cup witness.added

\* What is there was there at the start or has come; what is not there has gone.
Whereabouts ==
  stage = "listing" =>
    /\ \A z \in ToSet(account) : z \in ToSet(witness.start) \cup witness.added
    /\ \A z \in ToSet(witness.start) \cup witness.added : z \in ToSet(account) \cup witness.removed

Growth == stage = "listing" => Len(account) <= Len(witness.start) + Cardinality(witness.added)

\* A zone that is added pushes others to later pages only: what was there from
\* the start, and is on a page that was asked for, has been collected.
NoneMissed ==
  stage = "listing" /\ witness.removed = {} =>
    \A i \in 1 .. Len(account) :
      i <= Taken /\ account[i] \in ToSet(witness.start) => account[i] \in ToSet(zones)

\* A zone that is removed pulls others to earlier pages only: what has been
\* collected is not on a page still to be asked for.
NoneTwice ==
  stage = "listing" /\ witness.added = {} =>
    /\ IsInjective(zones)
    /\ \A i \in 1 .. Len(account) : account[i] \in ToSet(zones) => i <= Taken

InOrder ==
  stage = "listing" /\ witness.added = {} /\ witness.removed = {} =>
    account = witness.start /\ zones = SubSeq(account, 1, Taken) /\ Taken <= Len(account)

LInv ==
  /\ Typed /\ Origins /\ Whereabouts /\ Growth /\ NoneMissed /\ NoneTwice /\ InOrder
  /\ ListingIsComplete /\ ListingsEnd

---------------------------------------------------------------------------
(* Sequences and pages. *)

\* A sequence without its n-th element.
LEMMA RemovedFacts ==
  ASSUME NEW S, NEW s \in Seq(S), NEW n \in 1 .. Len(s)
  PROVE  /\ RemoveAt(s, n) \in Seq(S) /\ Len(RemoveAt(s, n)) = Len(s) - 1
         /\ \A i \in 1 .. Len(s) - 1 : RemoveAt(s, n)[i] = IF i < n THEN s[i] ELSE s[i + 1]
<1> DEFINE before == SubSeq(s, 1, n - 1)
           after  == SubSeq(s, n + 1, Len(s))
<1>1. /\ before \in Seq(S) /\ Len(before) = n - 1
      /\ \A i \in 1 .. n - 1 : before[i] = s[i]
  OBVIOUS
<1>2. /\ after \in Seq(S) /\ Len(after) = Len(s) - n
      /\ \A i \in 1 .. Len(s) - n : after[i] = s[n + i]
  OBVIOUS
<1>3. RemoveAt(s, n) = before \o after
  BY DEF RemoveAt
<1> HIDE DEF before, after
<1>4. /\ before \o after \in Seq(S) /\ Len(before \o after) = Len(before) + Len(after)
      /\ \A i \in 1 .. Len(before) + Len(after) :
           (before \o after)[i] = IF i <= Len(before) THEN before[i] ELSE after[i - Len(before)]
  BY <1>1, <1>2, ConcatProperties, Zenon
<1>5. Len(before) + Len(after) = Len(s) - 1
  BY <1>1, <1>2
<1>6. ASSUME NEW i \in 1 .. Len(s) - 1
      PROVE  (before \o after)[i] = IF i < n THEN s[i] ELSE s[i + 1]
  <2>1. (before \o after)[i] = IF i <= Len(before) THEN before[i] ELSE after[i - Len(before)]
    BY <1>4, <1>5
  <2>2. CASE i < n
    BY <1>1, <2>1, <2>2
  <2>3. CASE ~(i < n)
    <3>1. i - (n - 1) \in 1 .. Len(s) - n /\ n + (i - (n - 1)) = i + 1 /\ ~(i <= n - 1)
      BY <2>3
    <3> QED
      BY <1>1, <1>2, <2>1, <2>3, <3>1
  <2> QED
    BY <2>2, <2>3
<1> QED
  BY <1>3, <1>4, <1>5, <1>6

\* A sequence with e before its n-th element.
LEMMA InsertedFacts ==
  ASSUME NEW s \in Seq(Zones), NEW n \in 1 .. Len(s) + 1, NEW e \in Zones
  PROVE  /\ InsertAt(s, n, e) \in Seq(Zones) /\ Len(InsertAt(s, n, e)) = Len(s) + 1
         /\ \A i \in 1 .. n - 1 : InsertAt(s, n, e)[i] = s[i]
         /\ InsertAt(s, n, e)[n] = e
         /\ \A i \in n + 1 .. Len(s) + 1 : InsertAt(s, n, e)[i] = s[i - 1]
<1> DEFINE before == SubSeq(s, 1, n - 1)
           front  == before \o <<e>>
           after  == SubSeq(s, n, Len(s))
<1>1. /\ before \in Seq(Zones) /\ Len(before) = n - 1
      /\ \A i \in 1 .. n - 1 : before[i] = s[i]
  OBVIOUS
<1>2. /\ after \in Seq(Zones) /\ Len(after) = Len(s) + 1 - n
      /\ \A i \in 1 .. Len(s) + 1 - n : after[i] = s[n + i - 1]
  <2>1. CASE n = Len(s) + 1
    <3>1. after = <<>> /\ Len(s) + 1 - n = 0
      BY <2>1
    <3> QED
      BY <3>1
  <2>2. CASE n \in 1 .. Len(s)
    BY <2>2
  <2> QED
    BY <2>1, <2>2
<1>3. InsertAt(s, n, e) = front \o after
  BY DEF InsertAt
<1> HIDE DEF before, after
<1>4. /\ front \in Seq(Zones) /\ Len(front) = n /\ front[n] = e
      /\ \A i \in 1 .. n - 1 : front[i] = s[i]
  <2>1. front = Append(before, e)
    BY <1>1, AppendIsConcat
  <2>2. /\ Append(before, e) \in Seq(Zones) /\ Len(Append(before, e)) = Len(before) + 1
        /\ \A i \in 1 .. Len(before) : Append(before, e)[i] = before[i]
        /\ Append(before, e)[Len(before) + 1] = e
    BY <1>1, AppendProperties
  <2>3. Len(before) + 1 = n
    BY <1>1
  <2> QED
    BY <1>1, <2>1, <2>2, <2>3
<1> HIDE DEF front
<1>5. /\ front \o after \in Seq(Zones) /\ Len(front \o after) = Len(front) + Len(after)
      /\ \A i \in 1 .. Len(front) + Len(after) :
           (front \o after)[i] = IF i <= Len(front) THEN front[i] ELSE after[i - Len(front)]
  BY <1>2, <1>4, ConcatProperties, Zenon
<1>6. Len(front) + Len(after) = Len(s) + 1
  BY <1>2, <1>4
<1>7. ASSUME NEW i \in 1 .. Len(s) + 1
      PROVE  /\ i < n => (front \o after)[i] = s[i]
             /\ i = n => (front \o after)[i] = e
             /\ i > n => (front \o after)[i] = s[i - 1]
  <2>1. (front \o after)[i] = IF i <= n THEN front[i] ELSE after[i - n]
    BY <1>4, <1>5, <1>6
  <2>2. CASE i < n
    BY <1>4, <2>1, <2>2
  <2>3. CASE i = n
    BY <1>4, <2>1, <2>3
  <2>4. CASE i > n
    <3>1. i - n \in 1 .. Len(s) + 1 - n /\ n + (i - n) - 1 = i - 1 /\ ~(i <= n)
      BY <2>4
    <3>2. after[i - n] = s[i - 1]
      BY <1>2, <3>1
    <3> QED
      BY <2>1, <2>4, <3>1, <3>2
  <2>5. i < n \/ i = n \/ i > n
    OBVIOUS
  <2> QED
    BY <2>2, <2>3, <2>4, <2>5
<1>8. /\ n \in 1 .. Len(s) + 1 /\ \A i \in 1 .. n - 1 : i \in 1 .. Len(s) + 1 /\ i < n
      /\ \A i \in n + 1 .. Len(s) + 1 : i \in 1 .. Len(s) + 1 /\ i > n
  OBVIOUS
<1> QED
  BY <1>3, <1>5, <1>6, <1>7, <1>8

\* What is in two sequences, one after the other, is in one of them.
LEMMA JoinedFacts ==
  ASSUME NEW S, NEW s \in Seq(S), NEW t \in Seq(S)
  PROVE  /\ s \o t \in Seq(S)
         /\ \A q : q \in ToSet(s \o t) <=> q \in ToSet(s) \/ q \in ToSet(t)
         /\ IsInjective(s) /\ IsInjective(t) /\ (\A q \in ToSet(t) : q \notin ToSet(s))
              => IsInjective(s \o t)
<1>1. /\ s \o t \in Seq(S) /\ Len(s \o t) = Len(s) + Len(t)
      /\ \A i \in 1 .. Len(s) + Len(t) :
           (s \o t)[i] = IF i <= Len(s) THEN s[i] ELSE t[i - Len(s)]
  BY ConcatProperties, Zenon
<1>2. Range(s \o t) = Range(s) \cup Range(t)
  BY RangeConcatenation
<1>3. \A q : q \in ToSet(s \o t) <=> q \in ToSet(s) \/ q \in ToSet(t)
  BY <1>2 DEF ToSet, Range
<1>4. /\ Len(s) \in Nat /\ Len(t) \in Nat
      /\ DOMAIN s = 1 .. Len(s) /\ DOMAIN t = 1 .. Len(t)
      /\ DOMAIN (s \o t) = 1 .. Len(s) + Len(t)
  BY <1>1
<1>5. ASSUME IsInjective(s), IsInjective(t), \A q \in ToSet(t) : q \notin ToSet(s)
      PROVE  IsInjective(s \o t)
  <2> SUFFICES ASSUME NEW i \in 1 .. Len(s) + Len(t), NEW j \in 1 .. Len(s) + Len(t),
                      (s \o t)[i] = (s \o t)[j]
               PROVE  i = j
    BY <1>4 DEF IsInjective
  <2> DEFINE u == i - Len(s)
             v == j - Len(s)
  <2>1. /\ (s \o t)[i] = IF i <= Len(s) THEN s[i] ELSE t[u]
        /\ (s \o t)[j] = IF j <= Len(s) THEN s[j] ELSE t[v]
    BY <1>1
  <2>2. /\ i <= Len(s) => i \in 1 .. Len(s)
        /\ ~(i <= Len(s)) => u \in 1 .. Len(t)
        /\ j <= Len(s) => j \in 1 .. Len(s)
        /\ ~(j <= Len(s)) => v \in 1 .. Len(t)
        /\ u = v => i = j
    BY <1>4
  <2> HIDE DEF u, v
  <2>3. CASE i <= Len(s) /\ j <= Len(s)
    BY <1>4, <1>5, <2>1, <2>2, <2>3 DEF IsInjective
  <2>4. CASE ~(i <= Len(s)) /\ ~(j <= Len(s))
    BY <1>4, <1>5, <2>1, <2>2, <2>4 DEF IsInjective
  <2>5. CASE i <= Len(s) /\ ~(j <= Len(s))
    BY <1>4, <1>5, <2>1, <2>2, <2>5 DEF ToSet
  <2>6. CASE ~(i <= Len(s)) /\ j <= Len(s)
    BY <1>4, <1>5, <2>1, <2>2, <2>6 DEF ToSet
  <2> QED
    BY <2>3, <2>4, <2>5, <2>6
<1> QED
  BY <1>1, <1>3, <1>5

\* The last page is the first that reaches to the end of the account.
LEMMA Paging ==
  ASSUME NEW n \in Nat \ {0}, NEW m \in Nat
  PROVE  /\ n >= (m + PerPage - 1) \div PerPage <=> n * PerPage >= m
         /\ n * PerPage = (n - 1) * PerPage + PerPage
         /\ (n - 1) * PerPage \in Nat /\ n * PerPage \in Nat
<1> DEFINE x == m + PerPage - 1
           last == x \div PerPage
<1>1. PerPage \in Nat \ {0} /\ x \in Nat
  BY ListingAssumption
<1> HIDE DEF x
<1>2. last \in Nat /\ last * PerPage <= x /\ x < last * PerPage + PerPage
  BY <1>1
<1> HIDE DEF last
<1>3. n >= last => n * PerPage >= last * PerPage
  BY <1>1, <1>2
<1>4. ~(n >= last) => (n + 1) * PerPage <= last * PerPage
  BY <1>1, <1>2
<1>5. /\ (n + 1) * PerPage = n * PerPage + PerPage
      /\ n * PerPage = (n - 1) * PerPage + PerPage
      /\ (n - 1) * PerPage \in Nat /\ n * PerPage \in Nat /\ last * PerPage \in Nat
  BY <1>1, <1>2
<1>6. n >= last <=> n * PerPage >= m
  <2>1. CASE n >= last
    BY <1>1, <1>2, <1>3, <1>5, <2>1 DEF x
  <2>2. CASE ~(n >= last)
    BY <1>1, <1>2, <1>4, <1>5, <2>2 DEF x
  <2> QED
    BY <2>1, <2>2
<1> QED
  BY <1>5, <1>6 DEF last, x

\* A page holds what has its places in the account.
LEMMA PageFacts ==
  ASSUME Typed
  PROVE  /\ Page(page) \in Seq(Zones) /\ IsInjective(Page(page))
         /\ \A q : q \in ToSet(Page(page)) <=>
              \E i \in 1 .. Len(account) : Taken < i /\ i <= page * PerPage /\ q = account[i]
<1> DEFINE top == IF page * PerPage < Len(account) THEN page * PerPage ELSE Len(account)
           asked == Page(page)
<1>1. /\ Len(account) \in Nat /\ DOMAIN account = 1 .. Len(account)
      /\ Taken \in Nat /\ page * PerPage \in Nat /\ page * PerPage = Taken + PerPage
      /\ account \in Seq(Zones) /\ IsInjective(account) /\ PerPage \in Nat
  BY Paging, ListingAssumption DEF Typed, Taken
<1>2. asked = SubSeq(account, Taken + 1, top)
  BY DEF Page, Taken
<1>3. /\ top \in Nat /\ top <= Len(account)
      /\ \A i \in 1 .. Len(account) : i <= top <=> i <= page * PerPage
  BY <1>1
<1> HIDE DEF top, asked
<1>4. \A i \in Taken + 1 .. top : account[i] \in Zones
  BY <1>1, <1>3
<1>5. /\ asked \in Seq(Zones)
      /\ Len(asked) = IF Taken + 1 <= top THEN top - (Taken + 1) + 1 ELSE 0
      /\ \A i \in 1 .. top - (Taken + 1) + 1 : asked[i] = account[Taken + 1 + i - 1]
  BY <1>1, <1>2, <1>3, <1>4, SubSeqProperties
<1>6. DOMAIN asked = 1 .. top - Taken
  <2>1. CASE Taken + 1 <= top
    <3>1. Len(asked) = top - Taken
      BY <1>1, <1>3, <1>5, <2>1
    <3> QED
      BY <1>5, <3>1
  <2>2. CASE ~(Taken + 1 <= top)
    <3>1. Len(asked) = 0 /\ 1 .. 0 = {} /\ 1 .. top - Taken = {}
      BY <1>1, <1>3, <1>5, <2>2
    <3> QED
      BY <1>5, <3>1
  <2> QED
    BY <2>1, <2>2
<1>7. ASSUME NEW i \in DOMAIN asked
      PROVE  /\ i \in Nat /\ Taken + i \in 1 .. Len(account) /\ asked[i] = account[Taken + i]
             /\ Taken < Taken + i /\ Taken + i <= page * PerPage
  <2>1. i \in 1 .. top - Taken
    BY <1>6
  <2>2. /\ i \in Nat /\ Taken + i \in 1 .. Len(account) /\ Taken < Taken + i /\ Taken + i <= top
        /\ i \in 1 .. top - (Taken + 1) + 1 /\ Taken + 1 + i - 1 = Taken + i
    BY <1>1, <1>3, <2>1
  <2> QED
    BY <1>3, <1>5, <2>2
<1>8. ASSUME NEW i \in 1 .. Len(account), Taken < i, i <= page * PerPage
      PROVE  account[i] \in ToSet(asked)
  <2>1. i - Taken \in 1 .. top - Taken /\ Taken + (i - Taken) = i
    BY <1>1, <1>3, <1>8
  <2>2. asked[i - Taken] = account[i]
    BY <1>6, <1>7, <2>1
  <2> QED
    BY <1>6, <2>1, <2>2 DEF ToSet
<1>9. IsInjective(asked)
  <2> SUFFICES ASSUME NEW i \in DOMAIN asked, NEW j \in DOMAIN asked, asked[i] = asked[j]
               PROVE  i = j
    BY DEF IsInjective
  <2>1. Taken + i = Taken + j
    BY <1>1, <1>7 DEF IsInjective
  <2> QED
    BY <1>1, <1>7, <2>1
<1>10. \A q : q \in ToSet(asked) <=>
         \E i \in 1 .. Len(account) : Taken < i /\ i <= page * PerPage /\ q = account[i]
  BY <1>7, <1>8 DEF ToSet
<1> QED
  BY <1>5, <1>9, <1>10 DEF asked

---------------------------------------------------------------------------
(* The steps. *)

\* What has come and gone is finite.
LEMMA Counts ==
  ASSUME Typed
  PROVE  /\ IsFiniteSet(witness.added) /\ IsFiniteSet(witness.removed)
         /\ Cardinality(witness.added) \in Nat /\ Cardinality(witness.removed) \in Nat
         /\ Changes = 0 <=> witness.added = {} /\ witness.removed = {}
<1>1. IsFiniteSet(witness.added) /\ IsFiniteSet(witness.removed)
  BY ListingAssumption, FS_Subset DEF Typed
<1>2. Cardinality(witness.added) \in Nat /\ Cardinality(witness.removed) \in Nat
  BY <1>1, FS_CardinalityType
<1>3. /\ Cardinality(witness.added) = 0 <=> witness.added = {}
      /\ Cardinality(witness.removed) = 0 <=> witness.removed = {}
  BY <1>1, FS_EmptySet
<1> QED
  BY <1>1, <1>2, <1>3 DEF Changes

\* A listing begins with nothing.
LEMMA OpenKeeps ==
  ASSUME LInv, Open PROVE LInv'
<1>1. /\ stage' = "listing" /\ page' = 1 /\ zones' = <<>> /\ account' = account
      /\ witness' = [start |-> account, added |-> {}, removed |-> {}]
  BY DEF Open, NoWitness
<1>2. account \in Seq(Zones) /\ IsInjective(account) /\ Len(account) \in Nat
  BY DEF LInv, Typed
<1>3. Typed'
  BY <1>1, <1>2 DEF Typed
<1>4. Taken' = 0 /\ (page' - 1) * PerPage = 0
  BY <1>1, ListingAssumption DEF Taken
<1>5. \A q : q \notin ToSet(<<>>)
  BY DEF ToSet
<1>6. Origins' /\ Whereabouts'
  BY <1>1, <1>5 DEF Origins, Whereabouts
<1>7. Growth'
  BY <1>1, <1>2, FS_EmptySet DEF Growth
<1>8. NoneMissed'
  BY <1>1, <1>2, <1>4 DEF NoneMissed
<1>9. NoneTwice'
  BY <1>1, <1>5 DEF NoneTwice, IsInjective
<1>10. InOrder'
  BY <1>1, <1>2, <1>4 DEF InOrder
<1>11. ListingIsComplete' /\ ListingsEnd'
  BY <1>1 DEF ListingIsComplete, ListingsEnd
<1> QED
  BY <1>3, <1>6, <1>7, <1>8, <1>9, <1>10, <1>11 DEF LInv

\* A failed listing shows nothing.
LEMMA FailKeeps ==
  ASSUME LInv, Fail PROVE LInv'
<1>1. /\ stage' = "failed" /\ zones' = <<>>
      /\ account' = account /\ page' = page /\ witness' = witness
  BY DEF Fail
<1>2. Typed'
  BY <1>1 DEF LInv, Typed
<1>3. Origins'
  BY <1>1 DEF Origins, ToSet
<1>4. Whereabouts' /\ Growth' /\ NoneMissed' /\ NoneTwice' /\ InOrder'
  BY <1>1 DEF Whereabouts, Growth, NoneMissed, NoneTwice, InOrder
<1>5. ListingIsComplete' /\ ListingsEnd'
  BY <1>1 DEF LInv, ListingIsComplete, ListingsEnd
<1> QED
  BY <1>2, <1>3, <1>4, <1>5 DEF LInv

\* What is known of the zones once a page has been added to them, whether
\* another is asked for or not.
LEMMA AskAdds ==
  ASSUME LInv, Ask
  PROVE  /\ zones' \in Seq(Zones)
         /\ \A z \in ToSet(zones') : z \in ToSet(witness.start) \cup witness.added
         /\ witness.removed = {} =>
              \A i \in 1 .. Len(account) :
                i <= page * PerPage /\ account[i] \in ToSet(witness.start) => account[i] \in ToSet(zones')
         /\ witness.added = {} =>
              /\ IsInjective(zones')
              /\ \A i \in 1 .. Len(account) : account[i] \in ToSet(zones') => i <= page * PerPage
         /\ witness.added = {} /\ witness.removed = {} =>
              zones' = SubSeq(account, 1, IF page * PerPage < Len(account) THEN page * PerPage ELSE Len(account))
<1> DEFINE asked == Page(page)
           top == IF page * PerPage < Len(account) THEN page * PerPage ELSE Len(account)
<1>1. /\ zones \in Seq(Zones) /\ account \in Seq(Zones) /\ IsInjective(account) /\ page \in Nat \ {0}
      /\ Len(account) \in Nat /\ DOMAIN account = 1 .. Len(account)
      /\ Taken \in Nat /\ page * PerPage \in Nat /\ page * PerPage = Taken + PerPage /\ PerPage \in Nat
  BY Paging, ListingAssumption DEF LInv, Typed, Taken
<1>2. /\ asked \in Seq(Zones) /\ IsInjective(asked)
      /\ \A q : q \in ToSet(asked) <=>
           \E i \in 1 .. Len(account) : Taken < i /\ i <= page * PerPage /\ q = account[i]
  BY PageFacts DEF LInv
<1>3. asked = SubSeq(account, Taken + 1, top)
  BY DEF Page, Taken
<1>4. zones' = zones \o asked /\ stage = "listing"
  BY DEF Ask
<1> HIDE DEF asked, top
<1>5. /\ zones' \in Seq(Zones)
      /\ \A q : q \in ToSet(zones') <=> q \in ToSet(zones) \/ q \in ToSet(asked)
      /\ IsInjective(zones) /\ (\A q \in ToSet(asked) : q \notin ToSet(zones)) => IsInjective(zones')
  BY <1>1, <1>2, <1>4, JoinedFacts
<1>6. ASSUME NEW z \in ToSet(zones') PROVE z \in ToSet(witness.start) \cup witness.added
  <2>1. CASE z \in ToSet(zones)
    BY <2>1 DEF LInv, Origins
  <2>2. CASE z \in ToSet(asked)
    <3>1. z \in ToSet(account)
      BY <1>1, <1>2, <2>2 DEF ToSet
    <3> QED
      BY <1>4, <3>1 DEF LInv, Whereabouts
  <2> QED
    BY <1>5, <2>1, <2>2
<1>7. ASSUME witness.removed = {}, NEW i \in 1 .. Len(account),
             i <= page * PerPage, account[i] \in ToSet(witness.start)
      PROVE  account[i] \in ToSet(zones')
  <2>1. CASE i <= Taken
    BY <1>4, <1>5, <1>7, <2>1 DEF LInv, NoneMissed
  <2>2. CASE ~(i <= Taken)
    <3>1. Taken < i
      BY <1>1, <2>2
    <3> QED
      BY <1>2, <1>5, <1>7, <3>1
  <2> QED
    BY <2>1, <2>2
<1>8. ASSUME witness.added = {}
      PROVE  /\ IsInjective(zones')
             /\ \A i \in 1 .. Len(account) : account[i] \in ToSet(zones') => i <= page * PerPage
  <2>1. /\ IsInjective(zones)
        /\ \A i \in 1 .. Len(account) : account[i] \in ToSet(zones) => i <= Taken
    BY <1>4, <1>8 DEF LInv, NoneTwice
  <2>2. ASSUME NEW q \in ToSet(asked) PROVE q \notin ToSet(zones)
    <3>1. PICK i \in 1 .. Len(account) : Taken < i /\ q = account[i]
      BY <1>2
    <3>2. ~(i <= Taken)
      BY <1>1, <3>1
    <3> QED
      BY <2>1, <3>1, <3>2
  <2>3. ASSUME NEW i \in 1 .. Len(account), account[i] \in ToSet(zones') PROVE i <= page * PerPage
    <3>1. CASE account[i] \in ToSet(zones)
      BY <1>1, <2>1, <3>1
    <3>2. CASE account[i] \in ToSet(asked)
      <4>1. PICK j \in 1 .. Len(account) : j <= page * PerPage /\ account[i] = account[j]
        BY <1>2, <3>2
      <4>2. i = j
        BY <1>1, <4>1 DEF IsInjective
      <4> QED
        BY <4>1, <4>2
    <3> QED
      BY <1>5, <2>3, <3>1, <3>2
  <2> QED
    BY <1>5, <2>1, <2>2, <2>3
<1>9. ASSUME witness.added = {}, witness.removed = {}
      PROVE  zones' = SubSeq(account, 1, top)
  <2>1. zones = SubSeq(account, 1, Taken) /\ Taken <= Len(account)
    BY <1>4, <1>9 DEF LInv, InOrder
  <2>2. top \in Taken .. Len(account)
    BY <1>1, <2>1 DEF top
  <2>3. 1 \in 1 .. Len(account) + 1 /\ Taken \in 1 - 1 .. Len(account)
    BY <1>1, <2>1
  <2>4. SubSeq(account, 1, Taken) \o SubSeq(account, Taken + 1, top) = SubSeq(account, 1, top)
    BY <1>1, <2>2, <2>3, ConcatAdjacentSubSeq, Zenon
  <2> QED
    BY <1>3, <1>4, <2>1, <2>4
<1> QED
  BY <1>5, <1>6, <1>7, <1>8, <1>9 DEF top

\* The last page completes the listing; any other leaves more to be asked for.
LEMMA AskKeeps ==
  ASSUME LInv, Ask PROVE LInv'
<1>1. /\ zones' \in Seq(Zones)
      /\ \A z \in ToSet(zones') : z \in ToSet(witness.start) \cup witness.added
  BY AskAdds
<1>2. witness.removed = {} =>
        \A i \in 1 .. Len(account) :
          i <= page * PerPage /\ account[i] \in ToSet(witness.start) => account[i] \in ToSet(zones')
  BY AskAdds
<1>3. witness.added = {} =>
        /\ IsInjective(zones')
        /\ \A i \in 1 .. Len(account) : account[i] \in ToSet(zones') => i <= page * PerPage
  BY AskAdds
<1>4. witness.added = {} /\ witness.removed = {} =>
        zones' = SubSeq(account, 1, IF page * PerPage < Len(account) THEN page * PerPage ELSE Len(account))
  BY AskAdds
<1>5. stage = "listing" /\ account' = account /\ witness' = witness
  BY DEF Ask
<1>6. /\ page \in Nat \ {0} /\ page * PerPage \in Nat /\ account \in Seq(Zones)
      /\ Len(account) \in Nat /\ DOMAIN account = 1 .. Len(account)
      /\ LastPage <=> page * PerPage >= Len(account)
  <2>1. page \in Nat \ {0} /\ account \in Seq(Zones) /\ Len(account) \in Nat
    BY DEF LInv, Typed
  <2>2. page >= TotalPages <=> page * PerPage >= Len(account)
    BY <2>1, Paging DEF TotalPages
  <2>3. page * PerPage \in Nat
    BY <2>1, ListingAssumption
  <2> QED
    BY <2>1, <2>2, <2>3 DEF LastPage
<1>7. Typed' /\ page' \in {page, page + 1}
  BY <1>1, <1>5, <1>6 DEF LInv, Typed, Ask
<1>8. Origins' /\ Whereabouts'
  BY <1>1, <1>5 DEF LInv, Origins, Whereabouts, Ask
<1>9. Growth'
  BY <1>5 DEF LInv, Growth
<1>10. CASE LastPage
  <2>1. stage' = "listed" /\ page' = page
    BY <1>10 DEF Ask
  <2>2. page * PerPage >= Len(account)
    BY <1>6, <1>10
  <2>3. NoneMissed' /\ NoneTwice' /\ InOrder'
    BY <2>1 DEF NoneMissed, NoneTwice, InOrder
  <2>4. ListingsEnd'
    BY <1>5, <2>1 DEF LInv, ListingsEnd
  <2>5. Changes' = 0 => zones' = witness.start
    <3> SUFFICES ASSUME Changes' = 0 PROVE zones' = witness.start
      OBVIOUS
    <3>1. witness.added = {} /\ witness.removed = {}
      BY <1>5, Counts DEF LInv, Changes
    <3>2. zones' = SubSeq(account, 1, Len(account))
      BY <1>4, <1>6, <2>2, <3>1
    <3>3. account = witness.start
      BY <1>5, <3>1 DEF LInv, InOrder
    <3> QED
      BY <1>6, <3>2, <3>3, SubSeqFull
  <2>6. witness.removed = {} => \A z \in ToSet(witness.start) : z \in ToSet(zones')
    <3> SUFFICES ASSUME witness.removed = {}, NEW z \in ToSet(witness.start)
                 PROVE  z \in ToSet(zones')
      OBVIOUS
    <3>1. PICK i \in 1 .. Len(account) : z = account[i]
      <4>1. z \in ToSet(account)
        BY <1>5 DEF LInv, Whereabouts
      <4> QED
        BY <1>6, <4>1 DEF ToSet
    <3>2. i <= page * PerPage
      BY <1>6, <2>2
    <3> QED
      BY <1>2, <3>1, <3>2
  <2>7. ListingIsComplete'
    <3>1. witness'.removed = {} => Kept' \subseteq ToSet(zones')
      BY <1>5, <2>6 DEF Kept
    <3>2. ToSet(zones') \subseteq ToSet(witness'.start) \cup witness'.added
      BY <1>1, <1>5
    <3>3. witness'.added = {} => IsInjective(zones')
      BY <1>3, <1>5
    <3> QED
      BY <1>5, <2>5, <3>1, <3>2, <3>3 DEF ListingIsComplete
  <2> QED
    BY <1>7, <1>8, <1>9, <2>3, <2>4, <2>7 DEF LInv
<1>11. CASE ~LastPage
  <2>1. stage' = stage /\ page' = page + 1
    BY <1>11 DEF Ask
  <2>2. Taken' = page * PerPage /\ Taken' < Len(account)
    <3>1. page' - 1 = page
      BY <1>6, <2>1
    <3> QED
      BY <1>6, <1>11, <3>1 DEF Taken
  <2>3. NoneMissed'
    BY <1>2, <1>5, <2>2 DEF LInv, NoneMissed
  <2>4. NoneTwice'
    BY <1>3, <1>5, <2>2 DEF NoneTwice
  <2>5. InOrder'
    <3> SUFFICES ASSUME witness.added = {}, witness.removed = {}
                 PROVE  account = witness.start /\ zones' = SubSeq(account, 1, Taken') /\ Taken' <= Len(account)
      BY <1>5 DEF InOrder
    <3>1. account = witness.start
      BY <1>5 DEF LInv, InOrder
    <3>2. zones' = SubSeq(account, 1, Taken')
      BY <1>4, <2>2
    <3>3. Taken' <= Len(account)
      BY <1>6, <2>2
    <3> QED
      BY <3>1, <3>2, <3>3
  <2>6. ListingsEnd'
    <3>1. Len(account) <= Len(witness.start) + Cardinality(witness.added)
      BY <1>5 DEF LInv, Growth
    <3>2. Len(witness.start) \in Nat /\ Cardinality(witness.added) \in Nat
      BY Counts DEF LInv, Typed
    <3>3. Taken' < Len(witness.start) + Cardinality(witness.added)
      BY <1>6, <2>2, <3>1, <3>2
    <3> QED
      BY <1>5, <3>3 DEF ListingsEnd, Taken
  <2>7. ListingIsComplete'
    BY <1>5, <2>1 DEF LInv, ListingIsComplete
  <2> QED
    BY <1>7, <1>8, <1>9, <2>3, <2>4, <2>5, <2>6, <2>7 DEF LInv
<1> QED
  BY <1>10, <1>11

\* A zone that is added is neither one that was there from the start nor one
\* that has been collected, as long as none was removed.
LEMMA AddKeeps ==
  ASSUME LInv, UNCHANGED <<stage, page, zones>>, stage = "listing",
         NEW z \in Zones, z \notin ToSet(account), z \notin witness.removed,
         NEW n \in 1 .. Len(account) + 1,
         account' = InsertAt(account, n, z),
         witness' = [witness EXCEPT !.added = @ \cup {z}]
  PROVE  LInv'
<1>1. /\ account \in Seq(Zones) /\ IsInjective(account) /\ Len(account) \in Nat
      /\ DOMAIN account = 1 .. Len(account) /\ z \notin ToSet(account)
  BY DEF LInv, Typed
<1>2. /\ account' \in Seq(Zones) /\ Len(account') = Len(account) + 1
      /\ \A i \in 1 .. n - 1 : account'[i] = account[i]
      /\ account'[n] = z
      /\ \A i \in n + 1 .. Len(account) + 1 : account'[i] = account[i - 1]
  <2>1. account \in Seq(Zones)
    BY <1>1
  <2>2. account' \in Seq(Zones) /\ Len(account') = Len(account) + 1
    BY <2>1, InsertedFacts
  <2>3. \A i \in 1 .. n - 1 : account'[i] = account[i]
    BY <2>1, InsertedFacts
  <2>4. account'[n] = z
    BY <2>1, InsertedFacts
  <2>5. \A i \in n + 1 .. Len(account) + 1 : account'[i] = account[i - 1]
    BY <2>1, InsertedFacts
  <2> QED
    BY <2>2, <2>3, <2>4, <2>5
<1>3. DOMAIN account' = 1 .. Len(account) + 1
  BY <1>2
<1>4. /\ witness'.start = witness.start /\ witness'.removed = witness.removed
      /\ witness'.added = witness.added \cup {z}
      /\ witness' = [start |-> witness.start, added |-> witness.added \cup {z}, removed |-> witness.removed]
  BY DEF LInv, Typed
<1>5. \A i \in 1 .. Len(account) : account[i] # z
  BY <1>1 DEF ToSet
<1>6. ASSUME NEW i \in 1 .. Len(account) + 1
      PROVE  \/ i = n /\ account'[i] = z
             \/ \E j \in 1 .. Len(account) :
                  j <= i /\ account'[i] = account[j] /\ j = IF i < n THEN i ELSE i - 1
  <2>1. CASE i < n
    <3>1. i \in 1 .. Len(account) /\ i <= i
      BY <1>1, <2>1
    <3> QED
      BY <1>2, <2>1, <3>1
  <2>2. CASE i = n
    BY <1>2, <2>2
  <2>3. CASE i > n
    <3>1. i - 1 \in 1 .. Len(account) /\ i - 1 <= i /\ ~(i < n) /\ i # n
      BY <1>1, <2>3
    <3> QED
      BY <1>2, <3>1
  <2>4. i < n \/ i = n \/ i > n
    BY <1>1
  <2> QED
    BY <2>1, <2>2, <2>3, <2>4
<1>7. ASSUME NEW j \in 1 .. Len(account)
      PROVE  \E i \in 1 .. Len(account) + 1 : account'[i] = account[j]
  <2>1. CASE j < n
    <3>1. j \in 1 .. Len(account) + 1 /\ j \in 1 .. n - 1
      BY <1>1, <2>1
    <3> QED
      BY <1>2, <3>1
  <2>2. CASE ~(j < n)
    <3>1. j + 1 \in n + 1 .. Len(account) + 1 /\ j + 1 \in 1 .. Len(account) + 1 /\ ~(j + 1 < n) /\ j + 1 # n /\ (j + 1) - 1 = j
      BY <1>1, <2>2
    <3> QED
      BY <1>2, <3>1
  <2> QED
    BY <2>1, <2>2
<1>8. IsInjective(account')
  <2> SUFFICES ASSUME NEW i \in 1 .. Len(account) + 1, NEW m \in 1 .. Len(account) + 1,
                      account'[i] = account'[m]
               PROVE  i = m
    BY <1>3 DEF IsInjective
  <2>1. CASE i = n \/ m = n
    <3>1. account'[n] = z
      BY <1>2
    <3> QED
      BY <1>5, <1>6, <2>1, <3>1
  <2>2. CASE i # n /\ m # n
    <3>1. PICK j \in 1 .. Len(account) : account'[i] = account[j] /\ j = IF i < n THEN i ELSE i - 1
      BY <1>6, <2>2
    <3>2. PICK k \in 1 .. Len(account) : account'[m] = account[k] /\ k = IF m < n THEN m ELSE m - 1
      BY <1>6, <2>2
    <3>3. j = k
      BY <1>1, <3>1, <3>2 DEF IsInjective
    <3> QED
      BY <2>2, <3>1, <3>2, <3>3
  <2> QED
    BY <2>1, <2>2
<1>9. \A q : q \in ToSet(account') <=> q \in ToSet(account) \/ q = z
  <2>1. n \in 1 .. Len(account) + 1 /\ account'[n] = z
    BY <1>2
  <2> QED
    BY <1>1, <1>3, <1>6, <1>7, <2>1 DEF ToSet
<1>10. Typed'
  BY <1>2, <1>4, <1>8 DEF LInv, Typed
<1>11. Origins' /\ Whereabouts'
  BY <1>4, <1>9 DEF LInv, Origins, Whereabouts
<1>12. /\ Cardinality(witness'.added) = Cardinality(witness.added) + 1
       /\ Cardinality(witness.added) \in Nat
  <2>1. z \notin witness.added
    BY DEF LInv, Whereabouts
  <2> QED
    <3>1. IsFiniteSet(witness.added) /\ Cardinality(witness.added) \in Nat
      BY Counts DEF LInv
    <3>2. Cardinality(witness.added \cup {z}) = Cardinality(witness.added) + 1
      BY <2>1, <3>1, FS_AddElement
    <3> QED
      BY <1>4, <3>1, <3>2
<1>13. Len(witness.start) \in Nat
  BY DEF LInv, Typed
<1>14. Growth'
  BY <1>1, <1>2, <1>4, <1>12, <1>13 DEF LInv, Growth
<1>15. Taken' = Taken /\ Taken \in Nat
  BY ListingAssumption DEF LInv, Typed, Taken
<1>16. NoneMissed'
  <2> SUFFICES ASSUME witness.removed = {}, NEW i \in 1 .. Len(account) + 1,
                      i <= Taken, account'[i] \in ToSet(witness.start)
               PROVE  account'[i] \in ToSet(zones)
    BY <1>2, <1>4, <1>15 DEF NoneMissed
  <2>1. z \notin ToSet(witness.start)
    BY <1>1 DEF LInv, Whereabouts
  <2>2. PICK j \in 1 .. Len(account) : j <= i /\ account'[i] = account[j]
    BY <1>6, <2>1
  <2>3. j <= Taken
    BY <1>1, <1>15, <2>2
  <2> QED
    BY <2>2, <2>3 DEF LInv, NoneMissed
<1>17. NoneTwice' /\ InOrder'
  BY <1>4 DEF NoneTwice, InOrder
<1>18. ListingIsComplete'
  BY DEF LInv, ListingIsComplete
<1>19. ListingsEnd'
  <2>1. page \in Nat \ {0} /\ (page - 1) * PerPage \in Nat
    BY Paging DEF LInv, Typed
  <2> QED
    BY <1>4, <1>12, <1>13, <2>1 DEF LInv, ListingsEnd
<1> QED
  BY <1>10, <1>11, <1>14, <1>16, <1>17, <1>18, <1>19 DEF LInv

\* A zone that is removed takes nothing out of what has been collected, and
\* brings nothing onto a page that is still to be asked for.
LEMMA RemoveKeeps ==
  ASSUME LInv, UNCHANGED <<stage, page, zones>>, stage = "listing",
         NEW n \in 1 .. Len(account),
         account' = RemoveAt(account, n),
         witness' = [witness EXCEPT !.removed = @ \cup {account[n]}]
  PROVE  LInv'
<1>1. /\ account \in Seq(Zones) /\ IsInjective(account) /\ Len(account) \in Nat
      /\ DOMAIN account = 1 .. Len(account) /\ account[n] \in Zones
  BY DEF LInv, Typed
<1>2. /\ account' \in Seq(Zones) /\ Len(account') = Len(account) - 1
      /\ \A i \in 1 .. Len(account) - 1 :
           account'[i] = IF i < n THEN account[i] ELSE account[i + 1]
  BY <1>1, RemovedFacts
<1>3. DOMAIN account' = 1 .. Len(account) - 1
  BY <1>2
<1>4. /\ witness'.start = witness.start /\ witness'.added = witness.added
      /\ witness'.removed = witness.removed \cup {account[n]}
      /\ witness' = [start |-> witness.start, added |-> witness.added,
                     removed |-> witness.removed \cup {account[n]}]
  BY DEF LInv, Typed
<1>5. ASSUME NEW i \in 1 .. Len(account) - 1
      PROVE  \E j \in 1 .. Len(account) :
               i <= j /\ account'[i] = account[j] /\ j = IF i < n THEN i ELSE i + 1
  <2>1. i \in 1 .. Len(account) /\ i + 1 \in 1 .. Len(account) /\ i <= i /\ i <= i + 1
    BY <1>1
  <2> QED
    BY <1>2, <2>1
<1>6. ASSUME NEW j \in 1 .. Len(account), j # n
      PROVE  \E i \in 1 .. Len(account) - 1 : account'[i] = account[j]
  <2>1. CASE j < n
    <3>1. j \in 1 .. Len(account) - 1
      BY <1>1, <2>1
    <3> QED
      BY <1>2, <2>1, <3>1
  <2>2. CASE ~(j < n)
    <3>1. j - 1 \in 1 .. Len(account) - 1 /\ ~(j - 1 < n) /\ (j - 1) + 1 = j
      BY <1>1, <1>6, <2>2
    <3> QED
      BY <1>2, <3>1
  <2> QED
    BY <2>1, <2>2
<1>7. IsInjective(account')
  <2> SUFFICES ASSUME NEW i \in 1 .. Len(account) - 1, NEW m \in 1 .. Len(account) - 1,
                      account'[i] = account'[m]
               PROVE  i = m
    BY <1>3 DEF IsInjective
  <2>1. PICK j \in 1 .. Len(account) : account'[i] = account[j] /\ j = IF i < n THEN i ELSE i + 1
    BY <1>5
  <2>2. PICK k \in 1 .. Len(account) : account'[m] = account[k] /\ k = IF m < n THEN m ELSE m + 1
    BY <1>5
  <2>3. j = k
    BY <1>1, <2>1, <2>2 DEF IsInjective
  <2> QED
    BY <2>1, <2>2, <2>3
<1>8. /\ \A q \in ToSet(account') : q \in ToSet(account)
      /\ \A q \in ToSet(account) : q \in ToSet(account') \/ q = account[n]
  BY <1>1, <1>3, <1>5, <1>6 DEF ToSet
<1>9. Typed'
  BY <1>1, <1>2, <1>4, <1>7 DEF LInv, Typed
<1>10. Origins'
  BY <1>4 DEF LInv, Origins
<1>11. Whereabouts'
  BY <1>4, <1>8 DEF LInv, Whereabouts
<1>12. Growth'
  <2>1. Len(witness.start) \in Nat /\ Cardinality(witness.added) \in Nat
    BY Counts DEF LInv, Typed
  <2> QED
    BY <1>1, <1>2, <1>4, <2>1 DEF LInv, Growth
<1>13. Taken' = Taken /\ Taken \in Nat
  BY ListingAssumption DEF LInv, Typed, Taken
<1>14. NoneTwice'
  <2> SUFFICES ASSUME witness.added = {}
               PROVE  /\ IsInjective(zones)
                      /\ \A i \in 1 .. Len(account) - 1 : account'[i] \in ToSet(zones) => i <= Taken
    BY <1>2, <1>4, <1>13 DEF NoneTwice
  <2>1. /\ IsInjective(zones)
        /\ \A j \in 1 .. Len(account) : account[j] \in ToSet(zones) => j <= Taken
    BY DEF LInv, NoneTwice
  <2>2. ASSUME NEW i \in 1 .. Len(account) - 1, account'[i] \in ToSet(zones) PROVE i <= Taken
    <3>1. PICK j \in 1 .. Len(account) : i <= j /\ account'[i] = account[j]
      BY <1>5
    <3>2. j <= Taken
      BY <2>1, <2>2, <3>1
    <3> QED
      BY <1>1, <1>13, <3>1, <3>2
  <2> QED
    BY <2>1, <2>2
<1>15. NoneMissed' /\ InOrder'
  BY <1>4 DEF NoneMissed, InOrder
<1>16. ListingIsComplete' /\ ListingsEnd'
  BY <1>4 DEF LInv, ListingIsComplete, ListingsEnd
<1> QED
  BY <1>9, <1>10, <1>11, <1>12, <1>14, <1>15, <1>16 DEF LInv

\* Before the first listing nothing has been collected.
LEMMA InitInvariant == Init => LInv
<1> SUFFICES ASSUME Init PROVE LInv
  OBVIOUS
<1>1. account \in Seq(Zones) /\ IsInjective(account)
  <2>1. PICK S \in SUBSET Zones : account \in [1 .. Cardinality(S) -> S]
    BY DEF Init
  <2>2. Cardinality(S) \in Nat
    BY ListingAssumption, FS_Subset, FS_CardinalityType
  <2>3. account \in Seq(S)
    BY <2>1, <2>2, SeqDef
  <2> QED
    BY <2>3, SeqMonotonic DEF Init
<1>2. /\ stage = "idle" /\ page = 1 /\ zones = <<>>
      /\ witness = [start |-> <<>>, added |-> {}, removed |-> {}]
  BY DEF Init, NoWitness
<1>3. Typed
  BY <1>1, <1>2 DEF Typed, IsInjective
<1>4. Origins
  BY <1>2 DEF Origins, ToSet
<1> QED
  BY <1>2, <1>3, <1>4 DEF LInv, Whereabouts, Growth, NoneMissed, NoneTwice, InOrder,
     ListingIsComplete, ListingsEnd

\* The invariant holds of every reachable state.
THEOREM Invariance == Spec => []LInv
<1>1. ASSUME LInv, [Next]_vars PROVE LInv'
  <2>1. CASE Change
    <3>1. UNCHANGED <<stage, page, zones>> /\ stage = "listing"
      BY <2>1 DEF Change
    <3> QED
      BY <1>1, <2>1, <3>1, AddKeeps, RemoveKeeps DEF Change
  <2>2. CASE UNCHANGED vars
    <3>1. Typed'
      BY <1>1, <2>2 DEF LInv, vars, Typed
    <3> QED
      BY <1>1, <2>2, <3>1 DEF LInv, vars, Taken, Origins, Whereabouts, Growth, NoneMissed, NoneTwice,
         InOrder, ListingIsComplete, Kept, Changes, ListingsEnd
  <2> QED
    BY <1>1, <2>1, <2>2, OpenKeeps, AskKeeps, FailKeeps DEF Next
<1> QED
  BY <1>1, InitInvariant, PTL DEF Spec

\* What list_zones returns of an account that changes meanwhile: all of it in
\* order if it did not, nothing missing if nothing was removed, nothing twice
\* if nothing was added, and nothing that was never there.
THEOREM Complete == Spec => []ListingIsComplete
BY Invariance, PTL DEF LInv

\* list_zones stops at a page that can still hold a zone, however the account
\* grows and shrinks while it is read.
THEOREM Ends == Spec => []ListingsEnd
BY Invariance, PTL DEF LInv
=============================================================================
