--------------------------- MODULE DnsSyncProofs ---------------------------
(***************************************************************************)
(* What holds of DnsSync for every set of hosts, groups, links, syncers    *)
(* and records, and however often the environment interferes. The first    *)
(* half is about any number of syncers, the second about one single run:   *)
(* which records it keeps, which it creates, what its report is worth, and *)
(* that it implements SyncPromise.                                         *)
(***************************************************************************)
EXTENDS SingleRun, FiniteSetTheorems, SequenceTheorems, TLAPS

---------------------------------------------------------------------------
(* The requests of a plan. *)

\* The writes one reconcile_host may make for one family.
OwnWrites(h, f) ==
  {c \in Writes : /\ c.name = h /\ c.type = f
                  /\ c.op # "create" => \E r \in Matching(h, f) : r.id = c.id}

\* A listing is a sequence of the records that match.
LEMMA ListingIsSeq ==
  ASSUME NEW S, IsFiniteSet(S), NEW q \in SetToSeqs(S)
  PROVE  q \in Seq(S)
<1>1. Cardinality(S) \in Nat
  BY FS_CardinalityType
<1>2. q \in [1 .. Cardinality(S) -> S]
  BY DEF SetToSeqs
<1> QED
  BY <1>1, <1>2, SeqDef

\* The plan for one family consists of writes to the host's own records of
\* that family, and there is none when the address is unknown.
LEMMA PlanOwnsItsWrites ==
  ASSUME NEW h \in Hosts, NEW f \in Families,
         NEW t \in Contents \cup {Absent, Unknown},
         zone \subseteq Records, NEW q \in Seq(Matching(h, f))
  PROVE  /\ PlanFamily(h, f, t, q) \in Seq(OwnWrites(h, f))
         /\ t = Unknown => PlanFamily(h, f, t, q) = <<>>
<1> DEFINE Del(r)  == Call("delete", h, f, r.id, None)
           extras  == [i \in 1 .. Len(q) - 1 |-> Del(q[i + 1])]
           forKept == IF q = <<>>
                      THEN IF t = Absent THEN <<>>
                           ELSE <<Call("create", h, f, None, t)>>
                      ELSE IF t = Absent THEN <<Del(q[1])>>
                      ELSE IF Drifted(h, q[1], t)
                      THEN <<Call("update", h, f, q[1].id, t)>>
                      ELSE <<>>
<1>1. PlanFamily(h, f, t, q) = IF t = Unknown THEN <<>> ELSE extras \o forKept
  BY DEF PlanFamily
<1>2. \A r \in Matching(h, f) : Del(r) \in OwnWrites(h, f)
  BY DEF Matching, Records, Call, OwnWrites, Writes
<1>3. /\ Len(q) \in Nat /\ \A i \in 1 .. Len(q) : q[i] \in Matching(h, f)
      /\ q # <<>> => Len(q) > 0
  BY EmptySeq, ElementOfSeq, LenProperties
<1>4. extras \in Seq(OwnWrites(h, f))
  <2>1. CASE Len(q) = 0
    <3>1. 1 .. Len(q) - 1 = {}
      BY <2>1
    <3>2. extras \in [1 .. 0 -> OwnWrites(h, f)]
      BY <3>1
    <3> HIDE DEF extras
    <3> QED
      BY <3>2, SeqDef
  <2>2. CASE Len(q) # 0
    <3>1. \A i \in 1 .. Len(q) - 1 : Del(q[i + 1]) \in OwnWrites(h, f)
      BY <1>2, <1>3
    <3> HIDE DEF Del
    <3>2. extras \in [1 .. Len(q) - 1 -> OwnWrites(h, f)] /\ Len(q) - 1 \in Nat
      BY <2>2, <3>1, <1>3
    <3> HIDE DEF extras
    <3> QED
      BY <3>2, SeqDef
  <2> QED
    BY <2>1, <2>2
<1>5. CASE t # Unknown
  <2>1. forKept \in Seq(OwnWrites(h, f))
    <3>1. t # Absent => Call("create", h, f, None, t) \in OwnWrites(h, f)
      BY <1>5 DEF Call, OwnWrites, Writes
    <3>2. q # <<>> => q[1] \in Matching(h, f)
      BY <1>3
    <3>3. q # <<>> => Del(q[1]) \in OwnWrites(h, f)
      BY <1>2, <3>2
    <3>4. q # <<>> /\ t # Absent
            => Call("update", h, f, q[1].id, t) \in OwnWrites(h, f)
      BY <1>5, <3>2 DEF Matching, Records, Call, OwnWrites, Writes
    <3>5. <<>> \in Seq(OwnWrites(h, f))
      BY EmptySeq
    <3> HIDE DEF Del
    <3> QED
      BY <3>1, <3>3, <3>4, <3>5
  <2> HIDE DEF extras, forKept
  <2> QED
    BY <1>1, <1>4, <1>5, <2>1, ConcatProperties
<1>6. CASE t = Unknown
  BY <1>1, <1>6, EmptySeq
<1> QED
  BY <1>5, <1>6

---------------------------------------------------------------------------
(* The inductive invariant: the types, the ownership of requested ids, and *)
(* what the fields of one job say of each other.                           *)

Coherent(j) ==
  /\ j.calls # <<>> => j.host # None
  /\ j.host # None => j.pc = "hosts" /\ GroupOf[j.host] = j.group
  /\ \A h \in j.members : GroupOf[h] = j.group
  /\ j.pc \in {"ipv4", "ipv6", "hosts"} => j.group \in Groups
  /\ j.pc = "hosts" => \E f \in Families : j.target[f] # Absent
  /\ \A c \in ToSet(j.calls) :
       c.name = j.host /\ (c.op # "list" => j.target[c.type] # Unknown)

IInv == /\ TypeOK /\ RequestsNameOwnRecords
        /\ \A s \in Syncers : Coherent(job[s])

ZoneOK == /\ zone \subseteq Records /\ IsFiniteSet(zone)
          /\ \A r, q \in zone : r.id = q.id => r = q

\* A step gives a record it keeps its old name and type, and a new one an id
\* nobody refers to.
NamesKept ==
  \A r \in zone' : \/ r.id \in FreshIds
                   \/ \E q \in zone : q.id = r.id /\ q.name = r.name /\ q.type = r.type

NamesOwn(c) == \A r \in zone : r.id = c.id => r.name = c.name /\ r.type = c.type

\* Carrying out a write keeps the zone a table, moves no record to another
\* name or type, and leaves everything but address records alone.
LEMMA WriteKeepsZone ==
  ASSUME ZoneOK, NEW c \in Writes, c.op # "create" => NamesOwn(c),
         zone' \in Outcomes(c)
  PROVE  /\ ZoneOK' /\ NamesKept
         /\ {r \in zone : r.type \notin Families} = {r \in zone' : r.type \notin Families}
<1>1. \A i \in Ids : c.op # "delete" => /\ RecordFor(c, i) \in Records
                                        /\ RecordFor(c, i).id = i
                                        /\ RecordFor(c, i).name = c.name
                                        /\ RecordFor(c, i).type = c.type
  BY ConfigAssumption DEF Writes, RecordFor, Records, RecordTypes, DesiredTtl
<1>2. c.type \in Families
  BY DEF Writes
<1>3. CASE c.op = "create"
  <2>1. PICK i \in FreshIds : zone' = zone \cup {RecordFor(c, i)}
    BY <1>3 DEF Outcomes
  <2>2. i \in Ids /\ \A r \in zone : r.id # i
    BY DEF FreshIds, IdsInUse
  <2>3. IsFiniteSet(zone')
    BY <2>1, FS_AddElement DEF ZoneOK
  <2> QED
    BY <1>1, <1>2, <1>3, <2>1, <2>2, <2>3 DEF ZoneOK, NamesKept
<1>4. CASE c.op = "update"
  <2>1. zone' = {IF r.id = c.id THEN RecordFor(c, c.id) ELSE r : r \in zone}
    BY <1>4 DEF Outcomes
  <2>2. c.id \in Ids
    BY <1>4 DEF Writes
  <2>3. IsFiniteSet(zone')
    <3>1. zone' \in SUBSET (zone \cup {RecordFor(c, c.id)})
      BY <2>1
    <3>2. IsFiniteSet(zone \cup {RecordFor(c, c.id)})
      BY FS_AddElement DEF ZoneOK
    <3> QED
      BY <3>1, <3>2, FS_Subset
  <2> QED
    BY <1>1, <1>2, <1>4, <2>1, <2>2, <2>3 DEF ZoneOK, NamesKept, NamesOwn
<1>5. CASE c.op = "delete"
  <2>1. zone' = {r \in zone : r.id # c.id}
    BY <1>5 DEF Outcomes
  <2>2. IsFiniteSet(zone')
    BY <2>1, FS_Subset DEF ZoneOK
  <2> QED
    BY <1>2, <1>5, <2>1, <2>2 DEF ZoneOK, NamesKept, NamesOwn
<1> QED
  BY <1>3, <1>4, <1>5 DEF Writes

\* The ownership of ids survives a step that introduces no request to change a
\* record but those of a listing just read.
LEMMA OwnershipKept ==
  ASSUME RequestsNameOwnRecords, NamesKept,
         \A c \in Requests' : c.op \in {"update", "delete"} =>
            \/ c \in Requests
            \/ zone' = zone /\ NamesOwn(c)
  PROVE  RequestsNameOwnRecords'
<1>1. \A c \in Requests : c.id \in IdsInUse
  BY DEF Requests, IdsInUse
<1> QED
  BY <1>1 DEF RequestsNameOwnRecords, NamesKept, NamesOwn, FreshIds

\* A step of one syncer preserves the invariant if its new job is in order.
LEMMA JobStep ==
  ASSUME IInv, NEW s \in Syncers, NEW J \in Jobs, Coherent(J),
         job' = [job EXCEPT ![s] = J],
         ZoneOK', NamesKept, UNCHANGED <<managed, link, up>>,
         budget' \in 0 .. MaxDisturbances,
         late' \subseteq [no : 1 .. MaxDisturbances, call : Writes],
         \A q \in late' : q.call \in Requests,
         \A c \in ToSet(J.calls) : c.op \in {"update", "delete"} =>
            c \in Requests \/ (zone' = zone /\ NamesOwn(c))
  PROVE  IInv'
<1>1. job \in [Syncers -> Jobs]
  BY DEF IInv, TypeOK
<1>2. TypeOK'
  BY <1>1 DEF IInv, TypeOK, ZoneOK
<1>3. \A t \in Syncers : Coherent(job'[t])
  BY <1>1 DEF IInv
<1>4. \A c \in Requests' : c.op \in {"update", "delete"} =>
         c \in Requests \/ (zone' = zone /\ NamesOwn(c))
  <2>1. \A t \in Syncers : \A c \in ToSet(job'[t].calls) :
          c \in ToSet(J.calls) \/ c \in ToSet(job[t].calls)
    BY <1>1
  <2> QED
    BY <2>1 DEF Requests
<1>5. RequestsNameOwnRecords'
  BY <1>4, OwnershipKept DEF IInv
<1> QED
  BY <1>2, <1>3, <1>5 DEF IInv

\* A step of the environment preserves it if it leaves the jobs alone.
LEMMA WorldStep ==
  ASSUME IInv, UNCHANGED job, ZoneOK', NamesKept,
         managed' \subseteq Hosts, up' \subseteq Links,
         link' \in [Links -> [Families -> Contents \cup {Absent, Unknown}]],
         budget' \in 0 .. MaxDisturbances, late' \subseteq late
  PROVE  IInv'
<1>1. TypeOK'
  BY DEF IInv, TypeOK, ZoneOK
<1>2. \A c \in Requests' : c \in Requests
  BY DEF Requests
<1>3. RequestsNameOwnRecords'
  BY <1>2, OwnershipKept DEF IInv
<1> QED
  BY <1>1, <1>3 DEF IInv

\* A step inside one process: only its job changes.
LEMMA LocalStep ==
  ASSUME IInv, NEW s \in Syncers, NEW J \in Jobs, Coherent(J),
         job' = [job EXCEPT ![s] = J],
         UNCHANGED <<zone, managed, link, up, late, budget>>,
         \A c \in ToSet(J.calls) : c.op \in {"update", "delete"} =>
            c \in Requests \/ NamesOwn(c)
  PROVE  IInv'
<1>1. ZoneOK' /\ NamesKept
  BY DEF IInv, TypeOK, ZoneOK, NamesKept
<1>2. /\ budget' \in 0 .. MaxDisturbances
      /\ late' \subseteq [no : 1 .. MaxDisturbances, call : Writes]
      /\ \A q \in late' : q.call \in Requests
  BY DEF IInv, TypeOK, Requests
<1> QED
  BY <1>1, <1>2, JobStep

\* A syncer between two cycles has nothing pending that could be wrong.
LEMMA IdleInOrder == Idle \in Jobs /\ Coherent(Idle)
<1>1. \A S : <<>> \in Seq(S) /\ ToSet(<<>>) = {}
  BY EmptySeq DEF ToSet
<1> QED
  BY <1>1, SpecialsAssumption, BoundsAssumption DEF Idle, Jobs, Coherent, NoTarget

\* The sequence of one listing is a sequence of requests.
LEMMA OneCall ==
  ASSUME NEW S, NEW c \in S
  PROVE  <<c>> \in Seq(S) /\ ToSet(<<c>>) = {c} /\ <<c>> # <<>>
BY DEF ToSet

\* What IInv says of one syncer.
LEMMA JobFacts ==
  ASSUME IInv, NEW s \in Syncers
  PROVE  /\ job[s] \in Jobs /\ Coherent(job[s])
         /\ job[s].calls \in Seq(Calls)
         /\ \A c \in ToSet(job[s].calls) : c \in Calls /\ c \in Requests
<1>1. job[s] \in Jobs /\ Coherent(job[s]) /\ job[s].calls \in Seq(Calls)
  BY DEF IInv, TypeOK, Jobs
<1>2. \A c \in ToSet(job[s].calls) : c \in Calls
  BY <1>1, ElementOfSeq, LenProperties DEF ToSet
<1>3. \A c \in ToSet(job[s].calls) : c \in Requests
  BY DEF Requests
<1> QED
  BY <1>1, <1>2, <1>3

\* One lemma per action of a cycle: a new cycle requests nothing yet,
LEMMA StartCycleKeeps == ASSUME IInv, NEW s \in Syncers, StartCycle(s) PROVE IInv'
<1>1. PICK hosts \in SUBSET managed :
        job' = [job EXCEPT ![s] =
                 IF hosts = {} THEN CycleOver(s, Idle)
                 ELSE [Idle EXCEPT !.pc = "groups", !.asked = hosts, !.pending = hosts]]
  BY DEF StartCycle
<1> DEFINE J == IF hosts = {} THEN CycleOver(s, Idle)
                ELSE [Idle EXCEPT !.pc = "groups", !.asked = hosts, !.pending = hosts]
<1>2. hosts \subseteq Hosts
  BY DEF IInv, TypeOK
<1>3. J.calls = <<>> /\ ToSet(<<>>) = {}
  BY DEF CycleOver, Idle, ToSet
<1>4. J \in Jobs /\ Coherent(J)
  BY <1>2, IdleInOrder DEF CycleOver, Idle, Jobs, Coherent
<1>5. job' = [job EXCEPT ![s] = J] /\ \A c \in ToSet(J.calls) : FALSE
  BY <1>1, <1>3
<1> HIDE DEF J
<1> QED
  BY <1>4, <1>5, LocalStep DEF StartCycle

\* nor does a group just taken up or skipped,
LEMMA NextGroupKeeps == ASSUME IInv, NEW s \in Syncers, NextGroup(s) PROVE IInv'
<1>1. PICK g \in Groups : job' = [job EXCEPT ![s] = TakeGroup(job[s], g)]
  BY DEF NextGroup
<1> DEFINE J     == TakeGroup(job[s], g)
           hosts == {h \in job[s].pending : GroupOf[h] = g}
<1>2. /\ job[s] \in Jobs /\ Coherent(job[s]) /\ job[s].pc = "groups"
      /\ \A c \in ToSet(job[s].calls) : c \in Requests
  BY JobFacts DEF NextGroup
<1>3. /\ J \in Jobs
      /\ J.calls = job[s].calls /\ J.host = job[s].host /\ J.target = job[s].target
      /\ \/ J.pc = "groups" /\ J.members = job[s].members /\ J.group = job[s].group
         \/ J.pc = "ipv4" /\ J.members = hosts /\ J.group = g
  BY <1>2 DEF TakeGroup, Jobs
<1> HIDE DEF J
<1>4. Coherent(J)
  BY <1>2, <1>3 DEF Coherent
<1>5. job' = [job EXCEPT ![s] = J]
  BY <1>1 DEF J
<1> QED
  BY <1>2, <1>3, <1>4, <1>5, LocalStep DEF NextGroup

\* Detection answers with something a family's target can be.
LEMMA DetectedType ==
  ASSUME IInv, NEW g \in Groups, NEW f \in Families, NEW source
  PROVE  Detected(g, f, source) \in Contents \cup {Absent, Unknown}
BY ConfigAssumption DEF IInv, TypeOK, Detected

\* and the two detections only set the target
LEMMA DetectIPv4Keeps == ASSUME IInv, NEW s \in Syncers, DetectIPv4(s) PROVE IInv'
<1> DEFINE found == Detected(job[s].group, "A", job[s].source)
           J     == [job[s] EXCEPT !.pc = "ipv6", !.target["A"] = found]
<1>1. /\ job[s] \in Jobs /\ Coherent(job[s]) /\ job[s].pc = "ipv4"
      /\ \A c \in ToSet(job[s].calls) : c \in Requests
  BY JobFacts DEF DetectIPv4
<1>2. job[s].host = None /\ job[s].calls = <<>> /\ job[s].group \in Groups
  BY <1>1 DEF Coherent
<1>3. found \in Contents \cup {Absent, Unknown}
  BY <1>2, DetectedType DEF Families
<1> HIDE DEF found
<1>4. J \in Jobs /\ J.calls = <<>>
  BY <1>1, <1>2, <1>3 DEF Jobs, Families
<1>5. Coherent(J) /\ ToSet(J.calls) = {}
  BY <1>1, <1>2, <1>4 DEF Coherent, ToSet
<1>6. job' = [job EXCEPT ![s] = J]
  BY DEF DetectIPv4, found
<1> HIDE DEF J
<1> QED
  BY <1>4, <1>5, <1>6, LocalStep DEF DetectIPv4

\* or leave the group.
LEMMA DetectIPv6Keeps == ASSUME IInv, NEW s \in Syncers, DetectIPv6(s) PROVE IInv'
<1> DEFINE found    == Detected(job[s].group, "AAAA", job[s].source)
           target   == [job[s].target EXCEPT !["AAAA"] = found]
           reported == LeaveRecords(target) \/ \E f \in Families : target[f] = Unknown
           j == [job[s] EXCEPT !.failed =
                   IF reported THEN @ \cup job[s].members ELSE @]
           J == IF LeaveRecords(target) THEN LeaveGroup(j)
                ELSE [j EXCEPT !.pc = "hosts", !.target = target]
<1>1. job[s] \in Jobs /\ Coherent(job[s]) /\ job[s].pc = "ipv6"
  BY JobFacts DEF DetectIPv6
<1>2. job[s].host = None /\ job[s].calls = <<>> /\ job[s].group \in Groups
  BY <1>1 DEF Coherent
<1>3. target \in [Families -> Contents \cup {Absent, Unknown}]
  BY <1>1, <1>2, DetectedType DEF Jobs, Families
<1>4. job' = [job EXCEPT ![s] = J]
  BY DEF DetectIPv6
<1>5. ~LeaveRecords(target) => \E f \in Families : target[f] # Absent
  BY DEF LeaveRecords
<1>6. j \in Jobs /\ j = [job[s] EXCEPT !.failed = j.failed]
  <2> HIDE DEF reported
  <2> QED
    BY <1>1 DEF Jobs
<1> HIDE DEF target, j
<1>7. J \in Jobs
  BY <1>3, <1>6 DEF LeaveGroup, NoTarget, Jobs
<1>8. Coherent(J) /\ ToSet(J.calls) = {}
  <2>1. ToSet(<<>>) = {}
    BY DEF ToSet
  <2> QED
    BY <1>1, <1>2, <1>5, <1>6, <2>1 DEF Coherent, LeaveGroup, Jobs
<1> HIDE DEF J
<1> QED
  BY <1>4, <1>7, <1>8, LocalStep DEF DetectIPv6

\* A host is taken up with a listing, which names no record.
LEMMA NextHostKeeps == ASSUME IInv, NEW s \in Syncers, NextHost(s) PROVE IInv'
<1>1. PICK h \in job[s].members : job' = [job EXCEPT ![s] = TakeHost(job[s], h)]
  BY DEF NextHost
<1> DEFINE list == Call("list", h, None, None, None)
           J    == TakeHost(job[s], h)
<1>2. job[s] \in Jobs /\ Coherent(job[s]) /\ job[s].pc = "hosts"
  BY JobFacts DEF NextHost
<1>3. h \in Hosts
  BY <1>2 DEF Jobs
<1>4. list \in Calls /\ list.name = h /\ list.op = "list"
  <2>1. list \in ListCalls
    BY <1>3 DEF Call, ListCalls
  <2> QED
    BY <2>1 DEF Call, Calls
<1>5. J \in Jobs /\ ToSet(J.calls) = {list}
  <2>1. <<list>> \in Seq(Calls) /\ ToSet(<<list>>) = {list}
    BY <1>4, OneCall
  <2>2. J = [job[s] EXCEPT !.members = @ \ {h}, !.host = h, !.calls = <<list>>]
    BY DEF TakeHost
  <2> HIDE DEF J, list
  <2> QED
    BY <1>2, <1>3, <2>1, <2>2 DEF Jobs
<1>6. Coherent(J)
  <2>1. /\ J.host = h /\ J.pc = "hosts" /\ J.group = job[s].group
        /\ J.target = job[s].target /\ J.members = job[s].members \ {h}
    BY <1>2 DEF TakeHost, Jobs
  <2> HIDE DEF J, list
  <2> QED
    BY <1>2, <1>3, <1>4, <1>5, <2>1, SpecialsAssumption DEF Coherent
<1>7. job' = [job EXCEPT ![s] = J]
  BY <1>1
<1> HIDE DEF J, list
<1> QED
  BY <1>4, <1>5, <1>6, <1>7, LocalStep DEF NextHost

\* A group or a cycle ends when nothing is left to request.
LEMMA GroupEndKeeps ==
  ASSUME IInv, NEW s \in Syncers, GroupDone(s) \/ EndCycle(s) PROVE IInv'
<1>1. /\ job[s] \in Jobs /\ Coherent(job[s])
      /\ \A c \in ToSet(job[s].calls) : c \in Requests
  BY JobFacts
<1>2. CASE GroupDone(s)
  <2> DEFINE J == LeaveGroup(job[s])
  <2>1. job[s].calls = <<>> /\ job[s].host = None
    BY <1>1, <1>2 DEF GroupDone, Coherent
  <2>2. J \in Jobs
    BY <1>1 DEF LeaveGroup, NoTarget, Jobs
  <2>3. Coherent(J) /\ ToSet(J.calls) = {}
    BY <1>1, <2>1 DEF LeaveGroup, Coherent, ToSet, Jobs
  <2>4. job' = [job EXCEPT ![s] = J]
    BY <1>2 DEF GroupDone
  <2> HIDE DEF J
  <2> QED
    BY <1>2, <2>2, <2>3, <2>4, LocalStep DEF GroupDone
<1>3. CASE EndCycle(s)
  <2> DEFINE J == CycleOver(s, job[s])
  <2>1. J \in Jobs /\ Coherent(J) /\ \A c \in ToSet(J.calls) : c \in Requests
    <3>1. CASE s \in Daemons
      <4>1. J = Idle /\ ToSet(Idle.calls) = {}
        BY <3>1 DEF CycleOver, Idle, ToSet
      <4> QED
        BY <4>1, IdleInOrder
    <3>2. CASE s \notin Daemons
      BY <1>1, <1>3, <3>2 DEF CycleOver, EndCycle, Coherent, Jobs
    <3> QED
      BY <3>1, <3>2
  <2>2. job' = [job EXCEPT ![s] = J]
    BY <1>3 DEF EndCycle
  <2> HIDE DEF J
  <2> QED
    BY <1>3, <2>1, <2>2, LocalStep DEF EndCycle
<1> QED
  BY <1>2, <1>3

---------------------------------------------------------------------------
(* The provider's answers and failures. *)

\* What is left of a job in order after its first request is in order,
LEMMA ProceedInOrder ==
  ASSUME NEW j \in Jobs, Coherent(j), j.host # None, NEW rest \in Seq(Calls),
         \A c \in ToSet(rest) :
           c.name = j.host /\ (c.op # "list" => j.target[c.type] # Unknown)
  PROVE  /\ Proceed(j, rest) \in Jobs /\ Coherent(Proceed(j, rest))
         /\ Proceed(j, rest).calls = rest
<1>1. Proceed(j, rest) \in Jobs
  <2>1. 0 \in 0 .. MaxRetries - 1
    BY BoundsAssumption
  <2> QED
    BY <2>1 DEF Proceed, Jobs
<1>2. rest = <<>> => ToSet(rest) = {}
  BY DEF ToSet
<1> QED
  BY <1>1, <1>2 DEF Proceed, Coherent, Jobs

\* and so is what is left of it after an error.
LEMMA RaiseInOrder ==
  ASSUME NEW j \in Jobs, Coherent(j), j.host # None
  PROVE  Raise(j) \in Jobs /\ Coherent(Raise(j)) /\ ToSet(Raise(j).calls) = {}
<1>1. <<>> \in Seq(Calls) /\ ToSet(<<>>) = {}
  BY EmptySeq DEF ToSet
<1>2. Raise(j) \in Jobs
  <2>1. 0 \in 0 .. MaxRetries - 1
    BY BoundsAssumption
  <2> QED
    BY <1>1, <2>1 DEF Raise, Jobs
<1> QED
  BY <1>1, <1>2 DEF Raise, Coherent, Jobs

\* What the invariant says of the request at the head of a job.
LEMMA CurrentFacts ==
  ASSUME IInv, NEW s \in Syncers, Requesting(s)
  PROVE  /\ Current(s) \in ToSet(job[s].calls) /\ Current(s) \in Requests
         /\ Current(s).op # "list" => Current(s) \in Writes
         /\ Tail(job[s].calls) \in Seq(Calls)
         /\ ToSet(Tail(job[s].calls)) \subseteq ToSet(job[s].calls)
         /\ job[s].host \in Hosts
<1>1. /\ job[s].calls \in Seq(Calls) /\ job[s].calls # <<>>
      /\ job[s] \in Jobs /\ Coherent(job[s])
      /\ \A c \in ToSet(job[s].calls) : c \in Calls /\ c \in Requests
  BY JobFacts DEF Requesting
<1>2. Current(s) \in ToSet(job[s].calls)
  <2>1. 1 \in DOMAIN job[s].calls
    BY <1>1, EmptySeq, LenProperties
  <2> QED
    BY <1>1, <2>1 DEF Current, ToSet
<1>3. /\ Tail(job[s].calls) \in Seq(Calls)
      /\ ToSet(Tail(job[s].calls)) \subseteq ToSet(job[s].calls)
  <2>1. Tail(job[s].calls) \in Seq(Calls)
    BY <1>1, HeadTailProperties
  <2>2. \A i \in 1 .. Len(Tail(job[s].calls)) :
          i + 1 \in 1 .. Len(job[s].calls) /\ Tail(job[s].calls)[i] = job[s].calls[i + 1]
    BY <1>1
  <2> QED
    BY <1>1, <2>1, <2>2, LenProperties DEF ToSet
<1>4. Current(s).op # "list" => Current(s) \in Writes
  BY <1>1, <1>2 DEF Calls, ListCalls
<1>5. job[s].host \in Hosts
  BY <1>1 DEF Coherent, Jobs
<1> QED
  BY <1>1, <1>2, <1>3, <1>4, <1>5

SameCreate(c, d) ==
  c.op = "create" /\ d.op = "create" /\ c.name = d.name /\ c.type = d.type
Lone(calls) == \A i, k \in 1 .. Len(calls) : SameCreate(calls[i], calls[k]) => i = k

\* Some request of calls asks for op on the records of family f of host h.
Asks(calls, op, h, f, id) ==
  \E c \in ToSet(calls) : c.op = op /\ c.name = h /\ c.type = f /\ c.id = id

\* One sequence of requests after another requests what the two do.
LEMMA ConcatSets ==
  ASSUME NEW S, NEW p \in Seq(S), NEW q \in Seq(S)
  PROVE  /\ p \o q \in Seq(S)
         /\ \A c : c \in ToSet(p \o q) <=> c \in ToSet(p) \/ c \in ToSet(q)
<1>1. /\ p \o q \in Seq(S) /\ Len(p) \in Nat /\ Len(q) \in Nat
      /\ Len(p \o q) = Len(p) + Len(q)
      /\ \A i \in 1 .. Len(p) + Len(q) :
           (p \o q)[i] = IF i <= Len(p) THEN p[i] ELSE q[i - Len(p)]
  BY ConcatProperties, LenProperties
<1>2. /\ DOMAIN (p \o q) = 1 .. Len(p) + Len(q)
      /\ DOMAIN p = 1 .. Len(p) /\ DOMAIN q = 1 .. Len(q)
  BY <1>1, LenProperties
<1>3. \A i \in 1 .. Len(p) : (p \o q)[i] = p[i] /\ i \in 1 .. Len(p) + Len(q)
  BY <1>1
<1>4. ASSUME NEW i \in 1 .. Len(q)
      PROVE  i + Len(p) \in 1 .. Len(p) + Len(q) /\ (p \o q)[i + Len(p)] = q[i]
  <2>1. i + Len(p) \in 1 .. Len(p) + Len(q) /\ ~(i + Len(p) <= Len(p))
    BY <1>1
  <2>2. (i + Len(p)) - Len(p) = i
    BY <1>1
  <2> QED
    BY <1>1, <2>1, <2>2
<1>5. ASSUME NEW i \in 1 .. Len(p) + Len(q)
      PROVE  \/ i \in 1 .. Len(p) /\ (p \o q)[i] = p[i]
             \/ i - Len(p) \in 1 .. Len(q) /\ (p \o q)[i] = q[i - Len(p)]
  BY <1>1
<1>6. \A c \in ToSet(p \o q) : c \in ToSet(p) \/ c \in ToSet(q)
  BY <1>2, <1>5 DEF ToSet
<1>7. \A c : c \in ToSet(p) \/ c \in ToSet(q) => c \in ToSet(p \o q)
  BY <1>2, <1>3, <1>4 DEF ToSet
<1> QED
  BY <1>1, <1>6, <1>7

\* and creates no record twice if neither does, nor what the other creates.
LEMMA ConcatLone ==
  ASSUME NEW S, NEW p \in Seq(S), NEW q \in Seq(S), Lone(p), Lone(q),
         \A c \in ToSet(p), d \in ToSet(q) : ~SameCreate(c, d)
  PROVE  Lone(p \o q)
<1> SUFFICES ASSUME NEW i \in 1 .. Len(p \o q), NEW k \in 1 .. Len(p \o q),
                    SameCreate((p \o q)[i], (p \o q)[k])
             PROVE  i = k
  BY DEF Lone
<1>1. /\ Len(p) \in Nat /\ Len(q) \in Nat
      /\ Len(p \o q) = Len(p) + Len(q)
      /\ \A n \in 1 .. Len(p) + Len(q) :
           (p \o q)[n] = IF n <= Len(p) THEN p[n] ELSE q[n - Len(p)]
      /\ DOMAIN p = 1 .. Len(p) /\ DOMAIN q = 1 .. Len(q)
  BY ConcatProperties, LenProperties
<1>2. \A n \in 1 .. Len(p \o q) :
         \/ n \in 1 .. Len(p) /\ (p \o q)[n] = p[n]
         \/ n - Len(p) \in 1 .. Len(q) /\ (p \o q)[n] = q[n - Len(p)]
  BY <1>1
<1>3. \A n \in 1 .. Len(p), m \in 1 .. Len(q) :
         ~SameCreate(p[n], q[m]) /\ ~SameCreate(q[m], p[n])
  <2>1. \A c, d : SameCreate(c, d) => SameCreate(d, c)
    BY DEF SameCreate
  <2> QED
    BY <1>1, <2>1 DEF ToSet
<1>4. CASE i \in 1 .. Len(p) /\ k \in 1 .. Len(p)
  BY <1>1, <1>4 DEF Lone
<1>5. CASE i - Len(p) \in 1 .. Len(q) /\ k - Len(p) \in 1 .. Len(q)
  <2>1. ~(i <= Len(p)) /\ ~(k <= Len(p))
    BY <1>1, <1>5
  <2>2. SameCreate(q[i - Len(p)], q[k - Len(p)])
    BY <1>1, <2>1
  <2>3. i - Len(p) = k - Len(p)
    BY <1>5, <2>2 DEF Lone
  <2> QED
    BY <1>1, <2>3
<1>6. ~(i \in 1 .. Len(p) /\ k - Len(p) \in 1 .. Len(q))
  <2> SUFFICES ASSUME i \in 1 .. Len(p), k - Len(p) \in 1 .. Len(q)
               PROVE  FALSE
    OBVIOUS
  <2>1. i <= Len(p) /\ ~(k <= Len(p))
    BY <1>1
  <2>2. SameCreate(p[i], q[k - Len(p)])
    BY <1>1, <2>1
  <2> QED
    BY <1>3, <2>2
<1>7. ~(k \in 1 .. Len(p) /\ i - Len(p) \in 1 .. Len(q))
  <2> SUFFICES ASSUME k \in 1 .. Len(p), i - Len(p) \in 1 .. Len(q)
               PROVE  FALSE
    OBVIOUS
  <2>1. k <= Len(p) /\ ~(i <= Len(p))
    BY <1>1
  <2>2. SameCreate(q[i - Len(p)], p[k])
    BY <1>1, <2>1
  <2> QED
    BY <1>3, <2>2
<1> QED
  BY <1>2, <1>4, <1>5, <1>6, <1>7

\* A listing has each record that matches once.
LEMMA ListingIsWhole ==
  ASSUME NEW S, IsFiniteSet(S), NEW q \in SetToSeqs(S)
  PROVE  /\ q \in Seq(S) /\ Len(q) \in Nat
         /\ \A i \in 1 .. Len(q) : q[i] \in S
         /\ \A i, k \in 1 .. Len(q) : q[i] = q[k] => i = k
         /\ \A r \in S : \E i \in 1 .. Len(q) : q[i] = r
<1> DEFINE n == Cardinality(S)
<1>1. n \in Nat
  BY FS_CardinalityType
<1>2. q \in [1 .. n -> S] /\ \A i, k \in 1 .. n : i # k => q[i] # q[k]
  BY DEF SetToSeqs
<1>3. q \in Injection(1 .. n, S)
  BY <1>2 DEF Injection, IsInjective
<1>4. Cardinality(1 .. n) = n
  BY <1>1, FS_Interval
<1>5. q \in Surjection(1 .. n, S)
  BY <1>3, <1>4, FS_Injection
<1>6. q \in Seq(S) /\ Len(q) = n
  BY <1>1, <1>2, SeqDef
<1> QED
  BY <1>1, <1>2, <1>5, <1>6 DEF Surjection

\* No request of the set C deletes the record r.
Spares(C, r) == \A c \in C : c.op = "delete" => c.id # r.id

\* The calls bring family f of host h to the address t, and none of C gets in
\* their way: without an address every record is to be deleted; with one, there
\* is none and one is to be created, or one stays, the others are to be deleted,
\* and it is to be updated if it has drifted.
Leads(C, calls, h, f, t) ==
  /\ t # Unknown
  /\ t = Absent => \A r \in Matching(h, f) : Asks(calls, "delete", h, f, r.id)
  /\ t # Absent =>
       \/ Matching(h, f) = {} /\ Asks(calls, "create", h, f, None)
       \/ \E r \in Matching(h, f) :
            /\ Spares(C, r)
            /\ \A q \in Matching(h, f) : q.id # r.id => Asks(calls, "delete", h, f, q.id)
            /\ Drifted(h, r, t) => Asks(calls, "update", h, f, r.id)

\* The requests p are a plan for family f of h, to the address t.
IsPlan(p, h, f, t) ==
  /\ p \in Seq(OwnWrites(h, f)) /\ Lone(p)
  /\ t = Unknown => p = <<>>
  /\ \A c \in ToSet(p) : /\ c.op = "create" => Matching(h, f) = {}
                         /\ c.op # "delete" => c.content = t
  /\ t # Unknown => Leads(ToSet(p), p, h, f, t)

\* The plan for one family leads to the address it is made for, whatever order
\* the records are listed in.
THEOREM PlanLeads ==
  ASSUME NEW h \in Hosts, NEW f \in Families, NEW t \in Contents \cup {Absent, Unknown},
         ZoneOK, NEW q \in SetToSeqs(Matching(h, f))
  PROVE  IsPlan(PlanFamily(h, f, t, q), h, f, t)
<1> DEFINE M       == Matching(h, f)
           Del(r)  == Call("delete", h, f, r.id, None)
           extras  == [i \in 1 .. Len(q) - 1 |-> Del(q[i + 1])]
           forKept == IF q = <<>>
                      THEN IF t = Absent THEN <<>>
                           ELSE <<Call("create", h, f, None, t)>>
                      ELSE IF t = Absent THEN <<Del(q[1])>>
                      ELSE IF Drifted(h, q[1], t)
                      THEN <<Call("update", h, f, q[1].id, t)>>
                      ELSE <<>>
           p == PlanFamily(h, f, t, q)
<1>1. p = IF t = Unknown THEN <<>> ELSE extras \o forKept
  BY DEF PlanFamily
<1>2. IsFiniteSet(M) /\ M \subseteq zone /\ M \subseteq Records
  <2>1. M \in SUBSET zone
    BY DEF Matching
  <2> QED
    BY <2>1, FS_Subset DEF ZoneOK
<1>3. /\ q \in Seq(M) /\ Len(q) \in Nat
      /\ \A i \in 1 .. Len(q) : q[i] \in M
      /\ \A i, k \in 1 .. Len(q) : q[i] = q[k] => i = k
      /\ \A r \in M : \E i \in 1 .. Len(q) : q[i] = r
  BY <1>2, ListingIsWhole
<1>4. \A r, n \in M : r.id = n.id => r = n
  BY <1>2 DEF ZoneOK
<1>5. /\ p \in Seq(OwnWrites(h, f))
      /\ t = Unknown => p = <<>>
  BY <1>3, PlanOwnsItsWrites DEF ZoneOK
<1>6. ASSUME t = Unknown
      PROVE  Lone(p) /\ \A c \in ToSet(p) : FALSE
  <2>1. p = <<>> /\ ToSet(<<>>) = {} /\ Len(<<>>) = 0
    BY <1>5, <1>6 DEF ToSet
  <2> HIDE DEF p
  <2> QED
    BY <2>1 DEF Lone
<1>7. ASSUME t # Unknown
      PROVE  /\ Lone(p)
             /\ \A c \in ToSet(p) : /\ c.op = "create" => M = {}
                                    /\ c.op # "delete" => c.content = t
             /\ Leads(ToSet(p), p, h, f, t)
  <2>1. \A r : /\ Del(r).op = "delete" /\ Del(r).name = h /\ Del(r).type = f
               /\ Del(r).id = r.id
    BY DEF Call
  <2> DEFINE new == Call("create", h, f, None, t)
             fix == Call("update", h, f, q[1].id, t)
  <2>2. /\ new.op = "create" /\ new.name = h /\ new.type = f /\ new.id = None
        /\ new.content = t
        /\ fix.op = "update" /\ fix.name = h /\ fix.type = f /\ fix.id = q[1].id
        /\ fix.content = t
    BY DEF Call
  <2>3. /\ q = <<>> => Len(q) = 0 /\ M = {}
        /\ q # <<>> => 1 \in 1 .. Len(q) /\ q[1] \in M
    <3>1. CASE q = <<>>
      BY <1>3, <3>1
    <3>2. CASE q # <<>>
      BY <1>3, <3>2, EmptySeq, LenProperties
    <3> QED
      BY <3>1, <3>2
  <2> DEFINE Possible == {Del(r) : r \in M} \cup {new, fix}
  <2>4. /\ extras \in Seq(Possible)
        /\ \A c : c \in ToSet(extras) <=> \E i \in 1 .. Len(q) - 1 : c = Del(q[i + 1])
    <3>1. \A i \in 1 .. Len(q) - 1 : Del(q[i + 1]) \in Possible
      BY <1>3
    <3>2. extras \in Seq(Possible)
      <4>1. CASE Len(q) = 0
        <5>1. 1 .. Len(q) - 1 = {} /\ 1 .. 0 = {}
          BY <4>1
        <5>2. extras \in [1 .. 0 -> Possible]
          BY <5>1
        <5> HIDE DEF extras
        <5> QED
          BY <5>2, SeqDef
      <4>2. CASE Len(q) # 0
        <5> HIDE DEF Del, Possible
        <5>1. Len(q) - 1 \in Nat
          BY <1>3, <4>2
        <5>2. extras \in [1 .. Len(q) - 1 -> Possible]
          BY <3>1
        <5> HIDE DEF extras
        <5> QED
          BY <5>1, <5>2, SeqDef
      <4> QED
        BY <4>1, <4>2
    <3> HIDE DEF Del
    <3>3. \A c : c \in ToSet(extras) <=> \E i \in 1 .. Len(q) - 1 : c = Del(q[i + 1])
      BY DEF ToSet
    <3> HIDE DEF extras
    <3> QED
      BY <3>2, <3>3
  <2>5. \A c \in ToSet(extras) : c.op = "delete"
    BY <2>1, <2>4
  <2>6. /\ forKept \in Seq(Possible) /\ Lone(forKept)
        /\ \A c : c \in ToSet(forKept) <=>
             \/ q = <<>> /\ t # Absent /\ c = new
             \/ q # <<>> /\ t = Absent /\ c = Del(q[1])
             \/ q # <<>> /\ t # Absent /\ Drifted(h, q[1], t) /\ c = fix
    <3> HIDE DEF new, fix
    <3>1. \A c \in Possible : <<c>> \in Seq(Possible) /\ ToSet(<<c>>) = {c} /\ Lone(<<c>>)
      <4> HIDE DEF Possible
      <4> QED
        BY DEF ToSet, Lone
    <3>2. <<>> \in Seq(Possible) /\ ToSet(<<>>) = {} /\ Lone(<<>>)
      <4> HIDE DEF Possible
      <4> QED
        BY DEF ToSet, Lone
    <3>3. new \in Possible /\ fix \in Possible /\ (q # <<>> => Del(q[1]) \in Possible)
      BY <2>3
    <3>4. \/ q = <<>> /\ t = Absent /\ forKept = <<>>
          \/ q = <<>> /\ t # Absent /\ forKept = <<new>>
          \/ q # <<>> /\ t = Absent /\ forKept = <<Del(q[1])>>
          \/ q # <<>> /\ t # Absent /\ Drifted(h, q[1], t) /\ forKept = <<fix>>
          \/ q # <<>> /\ t # Absent /\ ~Drifted(h, q[1], t) /\ forKept = <<>>
      BY DEF new, fix
    <3> HIDE DEF forKept, Possible, Del
    <3> QED
      BY <3>1, <3>2, <3>3, <3>4
  <2>7. p = extras \o forKept
    BY <1>1, <1>7
  <2> HIDE DEF p, extras, forKept, Possible
  <2>8. \A c : c \in ToSet(p) <=> c \in ToSet(extras) \/ c \in ToSet(forKept)
    BY <2>4, <2>6, <2>7, ConcatSets
  <2>9. Lone(p)
    <3>1. Lone(extras)
      <4>1. \A i \in 1 .. Len(extras) : extras[i] \in ToSet(extras)
        BY <2>4, LenProperties DEF ToSet
      <4> QED
        BY <2>5, <4>1 DEF Lone, SameCreate
    <3>2. \A c \in ToSet(extras), d \in ToSet(forKept) : ~SameCreate(c, d)
      BY <2>5 DEF SameCreate
    <3> QED
      BY <2>4, <2>6, <2>7, <3>1, <3>2, ConcatLone
  <2>10. \A c \in ToSet(p) : /\ c.op = "create" => M = {}
                             /\ c.op # "delete" => c.content = t
    <3> HIDE DEF new, fix, Del
    <3> QED
      BY <2>1, <2>2, <2>3, <2>5, <2>6, <2>8
  <2>11. \A i \in 1 .. Len(q) : i # 1 => Del(q[i]) \in ToSet(p)
    <3> SUFFICES ASSUME NEW i \in 1 .. Len(q), i # 1
                 PROVE  Del(q[i]) \in ToSet(p)
      OBVIOUS
    <3> HIDE DEF Del
    <3>1. i - 1 \in 1 .. Len(q) - 1 /\ (i - 1) + 1 = i
      BY <1>3
    <3> QED
      BY <2>4, <2>8, <3>1
  <2>12. ASSUME t = Absent, NEW r \in M
         PROVE  Asks(p, "delete", h, f, r.id)
    <3>1. PICK i \in 1 .. Len(q) : q[i] = r
      BY <1>3
    <3>2. q # <<>>
      BY <2>3
    <3>3. Del(q[1]) \in ToSet(p)
      BY <2>6, <2>8, <2>12, <3>2
    <3>4. Del(r) \in ToSet(p)
      BY <2>11, <3>1, <3>3
    <3> HIDE DEF Del
    <3> QED
      BY <2>1, <3>4 DEF Asks
  <2>13. ASSUME t # Absent, q = <<>>
         PROVE  M = {} /\ Asks(p, "create", h, f, None)
    <3>1. new \in ToSet(p)
      BY <2>6, <2>8, <2>13
    <3> HIDE DEF new
    <3> QED
      BY <2>2, <2>3, <2>13, <3>1 DEF Asks
  <2>14. ASSUME t # Absent, q # <<>>
         PROVE  /\ q[1] \in M /\ Spares(ToSet(p), q[1])
                /\ \A n \in M : n.id # q[1].id => Asks(p, "delete", h, f, n.id)
                /\ Drifted(h, q[1], t) => Asks(p, "update", h, f, q[1].id)
    <3>1. 1 \in 1 .. Len(q) /\ q[1] \in M
      BY <2>3, <2>14
    <3>2. Spares(ToSet(p), q[1])
      <4> SUFFICES ASSUME NEW c \in ToSet(p), c.op = "delete"
                   PROVE  c.id # q[1].id
        BY DEF Spares
      <4> HIDE DEF new, fix, Del
      <4>1. c \in ToSet(extras)
        BY <2>2, <2>6, <2>8, <2>14
      <4>2. PICK i \in 1 .. Len(q) - 1 : c = Del(q[i + 1])
        BY <2>4, <4>1
      <4>3. i + 1 \in 1 .. Len(q) /\ i + 1 # 1
        BY <1>3
      <4>4. q[i + 1] \in M /\ q[i + 1] # q[1]
        BY <1>3, <3>1, <4>3
      <4> QED
        BY <1>4, <2>1, <3>1, <4>2, <4>4
    <3>3. ASSUME NEW n \in M, n.id # q[1].id
          PROVE  Asks(p, "delete", h, f, n.id)
      <4>1. PICK i \in 1 .. Len(q) : q[i] = n
        BY <1>3
      <4>2. Del(n) \in ToSet(p)
        BY <2>11, <3>3, <4>1
      <4> HIDE DEF Del
      <4> QED
        BY <2>1, <4>2 DEF Asks
    <3>4. ASSUME Drifted(h, q[1], t)
          PROVE  Asks(p, "update", h, f, q[1].id)
      <4>1. fix \in ToSet(p)
        BY <2>6, <2>8, <2>14, <3>4
      <4> HIDE DEF fix
      <4> QED
        BY <2>2, <4>1 DEF Asks
    <3> QED
      BY <3>1, <3>2, <3>3, <3>4
  <2>15. Leads(ToSet(p), p, h, f, t)
    BY <1>7, <2>12, <2>13, <2>14 DEF Leads
  <2> QED
    BY <2>9, <2>10, <2>15
<1> HIDE DEF p, M
<1>8. /\ p \in Seq(OwnWrites(h, f)) /\ Lone(p)
      /\ t = Unknown => p = <<>>
      /\ \A c \in ToSet(p) : /\ c.op = "create" => M = {}
                             /\ c.op # "delete" => c.content = t
      /\ t # Unknown => Leads(ToSet(p), p, h, f, t)
  BY <1>5, <1>6, <1>7
<1> QED
  BY <1>8 DEF p, M, IsPlan

\* The plans reconcile_host makes after its listing,
LEMMA ListedPlans ==
  ASSUME IInv, NEW s \in Syncers, Listed(s)
  PROVE  \E p4, p6 :
           /\ IsPlan(p4, job[s].host, "A", job[s].target["A"])
           /\ IsPlan(p6, job[s].host, "AAAA", job[s].target["AAAA"])
           /\ job' = [job EXCEPT ![s] = Proceed(job[s], p4 \o p6)]
<1> DEFINE h == job[s].host
<1>1. PICK v4 \in SetToSeqs(Matching(h, "A")), v6 \in SetToSeqs(Matching(h, "AAAA")) :
        job' = [job EXCEPT ![s] = Proceed(job[s],
                  PlanFamily(h, "A", job[s].target["A"], v4)
                    \o PlanFamily(h, "AAAA", job[s].target["AAAA"], v6))]
  BY DEF Listed
<1>2. h \in Hosts /\ \A f \in Families : job[s].target[f] \in Contents \cup {Absent, Unknown}
  BY JobFacts, CurrentFacts DEF Listed, Jobs
<1>3. ZoneOK /\ "A" \in Families /\ "AAAA" \in Families
  BY DEF IInv, TypeOK, ZoneOK, Families
<1>4. IsPlan(PlanFamily(h, "A", job[s].target["A"], v4), h, "A", job[s].target["A"])
  BY <1>2, <1>3, PlanLeads
<1>5. IsPlan(PlanFamily(h, "AAAA", job[s].target["AAAA"], v6), h, "AAAA",
             job[s].target["AAAA"])
  BY <1>2, <1>3, PlanLeads
<1> QED
  BY <1>1, <1>4, <1>5

\* The writes for one family do not touch the records of the other.
LEMMA FamiliesApart ==
  ASSUME ZoneOK, NEW h \in Hosts, NEW f \in Families, NEW g \in Families, f # g,
         NEW c \in OwnWrites(h, f), c.op # "create", NEW r \in Matching(h, g)
  PROVE  c.id # r.id
BY DEF OwnWrites, Matching, ZoneOK

\* A plan for one family is still one when the other family's is added.
LEMMA PlanExtended ==
  ASSUME ZoneOK, NEW h \in Hosts, NEW f \in Families, NEW g \in Families, f # g,
         NEW t, NEW p, NEW o, NEW all,
         IsPlan(p, h, f, t), t # Unknown,
         \A c : c \in ToSet(all) <=> c \in ToSet(p) \/ c \in ToSet(o),
         \A c \in ToSet(o) : c \in OwnWrites(h, g)
  PROVE  Leads(ToSet(all), all, h, f, t)
<1>1. \A op, id : Asks(p, op, h, f, id) => Asks(all, op, h, f, id)
  BY DEF Asks
<1>2. \A r \in Matching(h, f) : Spares(ToSet(p), r) => Spares(ToSet(all), r)
  <2>1. ASSUME NEW r \in Matching(h, f), NEW c \in ToSet(o), c.op = "delete"
        PROVE  c.id # r.id
    BY <2>1, FamiliesApart
  <2> QED
    BY <2>1 DEF Spares
<1>3. Leads(ToSet(p), p, h, f, t)
  BY DEF IsPlan
<1> QED
  BY <1>1, <1>2, <1>3 DEF Leads

\* together: writes of the host only, to the addresses that were detected.
LEMMA ListedRequests ==
  ASSUME IInv, NEW s \in Syncers, Listed(s)
  PROVE  LET h     == job[s].host
             calls == job'[s].calls
         IN  /\ job' = [job EXCEPT ![s] = Proceed(job[s], calls)]
             /\ h \in Hosts /\ calls \in Seq(Calls) /\ Lone(calls)
             /\ \A c \in ToSet(calls) :
                  /\ c \in Writes /\ c.name = h
                  /\ c.op = "create" => Matching(h, c.type) = {}
                  /\ c.op # "delete" => c.content = job[s].target[c.type]
                  /\ c.op # "create" => \E r \in Matching(h, c.type) : r.id = c.id
                  /\ job[s].target[c.type] # Unknown
             /\ \A f \in Families : job[s].target[f] # Unknown =>
                  Leads(ToSet(calls), calls, h, f, job[s].target[f])
<1> DEFINE h     == job[s].host
           t     == job[s].target
           calls == job'[s].calls
<1>1. PICK p4, p6 :
        /\ IsPlan(p4, h, "A", t["A"]) /\ IsPlan(p6, h, "AAAA", t["AAAA"])
        /\ job' = [job EXCEPT ![s] = Proceed(job[s], p4 \o p6)]
  BY ListedPlans
<1>2. job[s] \in Jobs /\ job \in [Syncers -> Jobs] /\ h \in Hosts
  BY CurrentFacts DEF IInv, TypeOK, Listed
<1>3. calls = p4 \o p6
  BY <1>1, <1>2 DEF Proceed, Jobs
<1>4. "A" \in Families /\ "AAAA" \in Families /\ \A f \in Families : f \in {"A", "AAAA"}
  BY DEF Families
<1>5. ZoneOK
  BY DEF IInv, TypeOK, ZoneOK
<1> DEFINE Own == OwnWrites(h, "A") \cup OwnWrites(h, "AAAA")
<1>6. /\ p4 \in Seq(OwnWrites(h, "A")) /\ p6 \in Seq(OwnWrites(h, "AAAA"))
      /\ Lone(p4) /\ Lone(p6)
  BY <1>1 DEF IsPlan
<1>7. /\ \A c \in ToSet(p4) : c \in OwnWrites(h, "A")
      /\ \A c \in ToSet(p6) : c \in OwnWrites(h, "AAAA")
  BY <1>6, ElementOfSeq, LenProperties DEF ToSet
<1>8. p4 \in Seq(Own) /\ p6 \in Seq(Own)
  BY <1>6, SeqMonotonic
<1>9. \A f : \A c \in OwnWrites(h, f) :
        c \in Writes /\ c.name = h /\ c.type = f
        /\ (c.op # "create" => \E r \in Matching(h, f) : r.id = c.id)
  BY DEF OwnWrites
<1> HIDE DEF Own, calls, h, t
<1>10. /\ p4 \o p6 \in Seq(Own)
       /\ \A c : c \in ToSet(calls) <=> c \in ToSet(p4) \/ c \in ToSet(p6)
  BY <1>3, <1>8, ConcatSets
<1>11. \A c \in ToSet(p4), d \in ToSet(p6) : ~SameCreate(c, d)
  BY <1>7, <1>9 DEF SameCreate
<1>12. Lone(calls)
  BY <1>3, <1>6, <1>8, <1>11, ConcatLone
<1>13. calls \in Seq(Calls)
  <2>1. Own \subseteq Calls
    BY <1>9 DEF Own, Calls
  <2> QED
    BY <1>3, <1>10, <2>1, SeqMonotonic
<1>14. \A c \in ToSet(calls) :
         /\ c \in Writes /\ c.name = h
         /\ c.op = "create" => Matching(h, c.type) = {}
         /\ c.op # "delete" => c.content = t[c.type]
         /\ c.op # "create" => \E r \in Matching(h, c.type) : r.id = c.id
         /\ t[c.type] # Unknown
  <2>1. ToSet(<<>>) = {}
    BY DEF ToSet
  <2>2. ASSUME NEW c \in ToSet(p4)
        PROVE  /\ c \in Writes /\ c.name = h /\ c.type = "A"
               /\ c.op = "create" => Matching(h, "A") = {}
               /\ c.op # "delete" => c.content = t["A"]
               /\ c.op # "create" => \E r \in Matching(h, "A") : r.id = c.id
               /\ t["A"] # Unknown
    BY <1>1, <1>7, <1>9, <2>1 DEF IsPlan
  <2>3. ASSUME NEW c \in ToSet(p6)
        PROVE  /\ c \in Writes /\ c.name = h /\ c.type = "AAAA"
               /\ c.op = "create" => Matching(h, "AAAA") = {}
               /\ c.op # "delete" => c.content = t["AAAA"]
               /\ c.op # "create" => \E r \in Matching(h, "AAAA") : r.id = c.id
               /\ t["AAAA"] # Unknown
    BY <1>1, <1>7, <1>9, <2>1 DEF IsPlan
  <2> QED
    BY <1>10, <2>2, <2>3
<1>15. t["A"] # Unknown => Leads(ToSet(calls), calls, h, "A", t["A"])
  BY <1>1, <1>2, <1>4, <1>5, <1>7, <1>10, PlanExtended DEF h
<1>16. t["AAAA"] # Unknown => Leads(ToSet(calls), calls, h, "AAAA", t["AAAA"])
  BY <1>1, <1>2, <1>4, <1>5, <1>7, <1>10, PlanExtended DEF h
<1>17. \A f \in Families : t[f] # Unknown => Leads(ToSet(calls), calls, h, f, t[f])
  BY <1>4, <1>15, <1>16
<1>18. job' = [job EXCEPT ![s] = Proceed(job[s], calls)]
  BY <1>1, <1>3
<1> QED
  BY <1>2, <1>12, <1>13, <1>14, <1>17, <1>18 DEF h, t, calls

\* Whatever a listing returned, the plan made from it is in order.
LEMMA ListedKeeps == ASSUME IInv, NEW s \in Syncers, Listed(s) PROVE IInv'
<1> DEFINE calls == job'[s].calls
           J     == Proceed(job[s], calls)
<1>1. /\ job' = [job EXCEPT ![s] = J] /\ calls \in Seq(Calls)
      /\ \A c \in ToSet(calls) :
           /\ c \in Writes /\ c.name = job[s].host /\ job[s].target[c.type] # Unknown
           /\ c.op # "create" => \E r \in Matching(job[s].host, c.type) : r.id = c.id
  BY ListedRequests
<1>2. job[s] \in Jobs /\ Coherent(job[s]) /\ job[s].host # None
  BY JobFacts DEF Listed, Requesting, Coherent
<1>3. J \in Jobs /\ Coherent(J) /\ J.calls = calls
  <2> HIDE DEF calls
  <2> QED
    BY <1>1, <1>2, ProceedInOrder
<1>4. \A c \in ToSet(calls) : c.op \in {"update", "delete"} => NamesOwn(c)
  BY <1>1 DEF IInv, TypeOK, Matching, NamesOwn
<1> HIDE DEF J, calls
<1> QED
  BY <1>1, <1>3, <1>4, LocalStep DEF Listed

\* A write that is answered changes the zone as WriteKeepsZone says.
LEMMA AnsweredKeeps ==
  ASSUME IInv, NEW s \in Syncers, Answered(s)
  PROVE  /\ IInv'
         /\ {r \in zone : r.type \notin Families} = {r \in zone' : r.type \notin Families}
<1> DEFINE J == Proceed(job[s], Tail(job[s].calls))
<1>1. /\ Current(s) \in Writes /\ Current(s) \in Requests
      /\ Tail(job[s].calls) \in Seq(Calls)
      /\ ToSet(Tail(job[s].calls)) \subseteq ToSet(job[s].calls)
  BY CurrentFacts DEF Answered
<1>2. /\ job[s] \in Jobs /\ Coherent(job[s]) /\ job[s].host # None
      /\ \A c \in ToSet(job[s].calls) : c \in Requests
  BY JobFacts DEF Answered, Requesting, Coherent
<1>3. J \in Jobs /\ Coherent(J) /\ J.calls = Tail(job[s].calls)
  BY <1>1, <1>2, ProceedInOrder DEF Coherent
<1>4. Current(s).op # "create" => NamesOwn(Current(s))
  BY <1>1 DEF IInv, RequestsNameOwnRecords, NamesOwn, Writes
<1>5. /\ ZoneOK' /\ NamesKept
      /\ {r \in zone : r.type \notin Families} = {r \in zone' : r.type \notin Families}
  BY <1>1, <1>4, WriteKeepsZone DEF IInv, TypeOK, ZoneOK, Answered
<1>6. /\ budget' \in 0 .. MaxDisturbances
      /\ late' \subseteq [no : 1 .. MaxDisturbances, call : Writes]
      /\ \A q \in late' : q.call \in Requests
  BY DEF IInv, TypeOK, Requests, Answered
<1>7. job' = [job EXCEPT ![s] = J]
  BY DEF Answered
<1> HIDE DEF J
<1>8. IInv'
  BY <1>1, <1>2, <1>3, <1>5, <1>6, <1>7, JobStep DEF Answered
<1> QED
  BY <1>5, <1>8

\* A 404 changes the job only.
LEMMA NotFoundKeeps == ASSUME IInv, NEW s \in Syncers, NotFound(s) PROVE IInv'
<1>1. job[s] \in Jobs /\ Coherent(job[s]) /\ job[s].host # None
  BY JobFacts DEF NotFound, Requesting, Coherent
<1>2. /\ Raise(job[s]) \in Jobs /\ Coherent(Raise(job[s]))
      /\ ToSet(Raise(job[s]).calls) = {}
  BY <1>1, RaiseInOrder
<1>3. job' = [job EXCEPT ![s] = Raise(job[s])]
  BY DEF NotFound
<1> QED
  BY <1>2, <1>3, LocalStep DEF NotFound

\* A request its syncer gave up on was a request before.
LEMMA AdriftKeeps ==
  ASSUME IInv, NEW s \in Syncers, budget > 0,
         late' \in {late} \cup (IF Requesting(s) THEN {Adrift(Current(s))} ELSE {})
  PROVE  /\ late' \subseteq [no : 1 .. MaxDisturbances, call : Writes]
         /\ \A q \in late' : q.call \in Requests
<1>1. late \subseteq [no : 1 .. MaxDisturbances, call : Writes]
      /\ \A q \in late : q.call \in Requests
  BY DEF IInv, TypeOK, Requests
<1>2. budget \in 1 .. MaxDisturbances
  BY BoundsAssumption DEF IInv, TypeOK
<1>3. CASE Requesting(s) /\ late' = Adrift(Current(s))
  <2>1. /\ Current(s) \in Requests
        /\ Current(s).op # "list" => Current(s) \in Writes
    BY <1>3, CurrentFacts
  <2> QED
    BY <1>1, <1>2, <1>3, <2>1 DEF Adrift
<1> QED
  BY <1>1, <1>3

\* A failed attempt is repeated or raised, and may be left adrift;
LEMMA FailedKeeps ==
  ASSUME IInv, NEW s \in Syncers, NEW kind \in FailureKinds, Failed(s, kind)
  PROVE  IInv'
<1> DEFINE J == AfterFailure(job[s], kind)
<1>1. /\ job[s] \in Jobs /\ Coherent(job[s]) /\ job[s].host # None
      /\ \A c \in ToSet(job[s].calls) : c \in Requests
  BY JobFacts DEF Failed, Requesting, Coherent
<1>2. J \in Jobs /\ Coherent(J) /\ \A c \in ToSet(J.calls) : c \in Requests
  <2>1. CASE J = Raise(job[s])
    BY <1>1, <2>1, RaiseInOrder
  <2>2. CASE job[s].tries < MaxRetries - 1 /\ J = [job[s] EXCEPT !.tries = @ + 1]
    <3>1. job[s].tries + 1 \in 0 .. MaxRetries - 1
      BY <1>1, <2>2, BoundsAssumption DEF Jobs
    <3> HIDE DEF J
    <3> QED
      BY <1>1, <2>2, <3>1 DEF Coherent, Jobs
  <2> QED
    BY <2>1, <2>2 DEF AfterFailure
<1>3. job' = [job EXCEPT ![s] = J]
  BY DEF Failed
<1>4. ZoneOK' /\ NamesKept
  BY DEF IInv, TypeOK, ZoneOK, NamesKept, Failed
<1>5. budget' \in 0 .. MaxDisturbances
  BY BoundsAssumption DEF IInv, TypeOK, Failed, Disturb
<1>6. /\ late' \subseteq [no : 1 .. MaxDisturbances, call : Writes]
      /\ \A q \in late' : q.call \in Requests
  <2>1. CASE MayLand(kind)
    <3>1. budget > 0
      BY <2>1, BoundsAssumption DEF MayLand, Failed, Disturb
    <3> QED
      BY <2>1, <3>1, AdriftKeeps DEF Failed
  <2>2. CASE ~MayLand(kind)
    BY <2>2 DEF Failed, IInv, TypeOK, Requests
  <2> QED
    BY <2>1, <2>2
<1> HIDE DEF J
<1> QED
  BY <1>2, <1>3, <1>4, <1>5, <1>6, JobStep DEF Failed

\* so may the one a killed process was waiting for.
LEMMA CrashKeeps == ASSUME IInv, NEW s \in Syncers, Crash(s) PROVE IInv'
<1> DEFINE J == IF s \in Daemons THEN Idle ELSE [Idle EXCEPT !.pc = "killed"]
<1>1. J \in Jobs /\ Coherent(J) /\ ToSet(J.calls) = {}
  <2>1. ToSet(Idle.calls) = {} /\ Idle.host = None /\ Idle.members = {}
        /\ Idle.calls = <<>>
    BY DEF Idle, ToSet
  <2> QED
    BY <2>1, IdleInOrder DEF Coherent, Jobs
<1>2. job' = [job EXCEPT ![s] = J]
  BY DEF Crash
<1>3. ZoneOK' /\ NamesKept
  BY DEF IInv, TypeOK, ZoneOK, NamesKept, Crash
<1>4. budget > 0 /\ budget' \in 0 .. MaxDisturbances
  BY BoundsAssumption DEF IInv, TypeOK, Crash, Disturb
<1>5. /\ late' \subseteq [no : 1 .. MaxDisturbances, call : Writes]
      /\ \A q \in late' : q.call \in Requests
  BY <1>4, AdriftKeeps DEF Crash
<1> HIDE DEF J
<1> QED
  BY <1>1, <1>2, <1>3, <1>4, <1>5, JobStep DEF Crash

---------------------------------------------------------------------------
(* The environment. *)

Bystanders == {r \in zone : r.type \notin Families}

\* A request that lands late changes the zone as a prompt one does.
LEMMA LandKeeps ==
  ASSUME IInv, NEW q \in late, Land(q)
  PROVE  IInv' /\ Bystanders' = Bystanders
<1>1. q.call \in Writes /\ q.call \in Requests
  BY DEF IInv, TypeOK, Requests
<1>2. q.call.op # "create" => NamesOwn(q.call)
  BY <1>1 DEF IInv, RequestsNameOwnRecords, NamesOwn, Writes
<1>3. ZoneOK' /\ NamesKept /\ Bystanders' = Bystanders
  BY <1>1, <1>2, WriteKeepsZone DEF IInv, TypeOK, ZoneOK, Land, Bystanders
<1>4. IInv'
  BY <1>3, WorldStep DEF IInv, TypeOK, Land
<1> QED
  BY <1>3, <1>4

\* An operator edits records in place, or adds one under a fresh id.
LEMMA HandEditKeeps ==
  ASSUME IInv, HandEdit
  PROVE  IInv' /\ Bystanders' = Bystanders
<1>1. ZoneOK
  BY DEF IInv, TypeOK, ZoneOK
<1>2. budget' \in 0 .. MaxDisturbances
  <2>1. Disturb("edit")
    BY DEF HandEdit
  <2>2. budget \in 0 .. MaxDisturbances
    BY DEF IInv, TypeOK
  <2> QED
    BY <2>1, <2>2, BoundsAssumption DEF Disturb
<1>3. ZoneOK' /\ NamesKept /\ Bystanders' = Bystanders
  <2>1. ASSUME NEW r \in zone, r.type \in Families, zone' = zone \ {r}
        PROVE  ZoneOK' /\ NamesKept /\ Bystanders' = Bystanders
    <3>1. IsFiniteSet(zone')
      BY <1>1, <2>1, FS_RemoveElement DEF ZoneOK
    <3> QED
      BY <1>1, <2>1, <3>1 DEF ZoneOK, NamesKept, Bystanders
  <2>2. ASSUME NEW r \in zone, NEW e \in Edits, r.type = e.type,
               zone' = (zone \ {r}) \cup {[r EXCEPT !.content = e.content,
                                          !.proxied = e.proxied, !.ttl = e.ttl]}
        PROVE  ZoneOK' /\ NamesKept /\ Bystanders' = Bystanders
    <3> DEFINE n == [r EXCEPT !.content = e.content, !.proxied = e.proxied,
                              !.ttl = e.ttl]
    <3>1. IsFiniteSet(zone')
      <4>1. IsFiniteSet(zone \ {r})
        BY <1>1, FS_RemoveElement DEF ZoneOK
      <4> QED
        BY <2>2, <4>1, FS_AddElement
    <3>2. n \in Records /\ n.id = r.id /\ n.name = r.name /\ n.type = r.type
      <4>1. r \in Records
        BY <1>1 DEF ZoneOK
      <4>2. e.content \in Contents /\ e.proxied \in BOOLEAN /\ e.ttl \in Ttls
        BY ZonesAssumption
      <4> QED
        BY <4>1, <4>2 DEF Records
    <3>3. zone' = (zone \ {r}) \cup {n}
      BY <2>2
    <3>4. r.type \in Families
      BY <2>2, ZonesAssumption
    <3> HIDE DEF n
    <3> QED
      BY <1>1, <2>2, <3>1, <3>2, <3>3, <3>4 DEF ZoneOK, NamesKept, Bystanders
  <2>3. ASSUME NEW h \in Hosts, NEW e \in Edits, NEW i \in FreshIds,
               zone' = zone \cup {[id |-> i, name |-> h, type |-> e.type,
                                   content |-> e.content, proxied |-> e.proxied,
                                   ttl |-> e.ttl]}
        PROVE  ZoneOK' /\ NamesKept /\ Bystanders' = Bystanders
    <3> DEFINE n == [id |-> i, name |-> h, type |-> e.type, content |-> e.content,
                     proxied |-> e.proxied, ttl |-> e.ttl]
    <3>1. IsFiniteSet(zone')
      BY <1>1, <2>3, FS_AddElement DEF ZoneOK
    <3>2. i \in Ids /\ \A r \in zone : r.id # i
      BY DEF FreshIds, IdsInUse
    <3>3. n \in Records /\ n.id = i /\ n.type \in Families
      BY <3>2, ZonesAssumption DEF Records, RecordTypes
    <3>4. zone' = zone \cup {n}
      BY <2>3
    <3> HIDE DEF n
    <3> QED
      BY <1>1, <3>1, <3>2, <3>3, <3>4 DEF ZoneOK, NamesKept, Bystanders
  <2> QED
    BY <2>1, <2>2, <2>3 DEF HandEdit
<1>4. IInv'
  BY <1>2, <1>3, WorldStep DEF IInv, TypeOK, HandEdit
<1> QED
  BY <1>3, <1>4

\* The other steps of the environment touch no record and no job.
LEMMA SurroundingsKeep ==
  ASSUME IInv, LinkChanges \/ ManageHosts \/ (\E q \in late : Lose(q))
  PROVE  IInv' /\ Bystanders' = Bystanders
<1>1. ZoneOK' /\ NamesKept /\ zone' = zone /\ job' = job
  BY DEF IInv, TypeOK, ZoneOK, NamesKept, LinkChanges, ManageHosts, Lose
<1>2. budget' \in 0 .. MaxDisturbances
  BY BoundsAssumption DEF IInv, TypeOK, LinkChanges, ManageHosts, Lose, Disturb
<1>3. late' \subseteq late
  BY DEF LinkChanges, ManageHosts, Lose
<1>4. managed' \subseteq Hosts
  BY DEF IInv, TypeOK, LinkChanges, ManageHosts, Lose
<1>5. /\ up' \subseteq Links
      /\ link' \in [Links -> [Families -> Contents \cup {Absent, Unknown}]]
  <2>1. CASE LinkChanges
    <3>1. \A f \in Families : LinkAnswers(f) \subseteq Contents \cup {Absent, Unknown}
      BY ConfigAssumption DEF LinkAnswers
    <3> QED
      BY <2>1, <3>1 DEF LinkChanges, IInv, TypeOK
  <2>2. CASE ~LinkChanges
    BY <2>2 DEF IInv, TypeOK, ManageHosts, Lose
  <2> QED
    BY <2>1, <2>2
<1>6. IInv'
  BY <1>1, <1>2, <1>3, <1>4, <1>5, WorldStep
<1> QED
  BY <1>1, <1>6 DEF Bystanders

---------------------------------------------------------------------------
(* The theorems. *)

\* The invariant holds at first.
LEMMA InitInvariant == Init => IInv
<1> SUFFICES ASSUME Init PROVE IInv
  OBVIOUS
<1>1. Idle \in Jobs /\ Coherent(Idle) /\ ToSet(Idle.calls) = {}
  BY IdleInOrder DEF Idle, ToSet
<1>2. TypeOK
  BY <1>1, ConfigAssumption, ZonesAssumption, BoundsAssumption DEF Init, TypeOK
<1>3. RequestsNameOwnRecords
  BY <1>1 DEF Init, RequestsNameOwnRecords, Requests
<1> QED
  BY <1>1, <1>2, <1>3 DEF Init, IInv

\* Every step preserves the invariant and leaves the bystanders alone.
LEMMA NextInvariant ==
  ASSUME IInv, [Next]_vars
  PROVE  IInv' /\ Bystanders' = Bystanders
<1>1. CASE UNCHANGED vars
  BY <1>1 DEF vars, IInv, TypeOK, RequestsNameOwnRecords, Requests, Bystanders
<1>2. ASSUME NEW s \in Syncers, Cycle(s) \/ Listed(s) \/ NotFound(s)
      PROVE  IInv' /\ Bystanders' = Bystanders
  <2>1. IInv'
    BY <1>2, StartCycleKeeps, NextGroupKeeps, DetectIPv4Keeps, DetectIPv6Keeps,
       NextHostKeeps, GroupEndKeeps, ListedKeeps, NotFoundKeeps DEF Cycle
  <2>2. zone' = zone
    BY <1>2 DEF Cycle, StartCycle, NextGroup, DetectIPv4, DetectIPv6, NextHost,
       GroupDone, EndCycle, Listed, NotFound
  <2> QED
    BY <2>1, <2>2 DEF Bystanders
<1>3. ASSUME NEW s \in Syncers, Answered(s)
      PROVE  IInv' /\ Bystanders' = Bystanders
  BY <1>3, AnsweredKeeps DEF Bystanders
<1>4. ASSUME NEW s \in Syncers, NEW kind \in FailureKinds, Failed(s, kind)
      PROVE  IInv' /\ Bystanders' = Bystanders
  <2>1. zone' = zone
    BY <1>4 DEF Failed
  <2> QED
    BY <1>4, <2>1, FailedKeeps DEF Bystanders
<1>5. ASSUME NEW s \in Syncers, Crash(s)
      PROVE  IInv' /\ Bystanders' = Bystanders
  <2>1. zone' = zone
    BY <1>5 DEF Crash
  <2> QED
    BY <1>5, <2>1, CrashKeeps DEF Bystanders
<1>6. CASE Abandoned \/ LinkChanges \/ HandEdit \/ ManageHosts
  BY <1>6, LandKeeps, HandEditKeeps, SurroundingsKeep DEF Abandoned
<1> QED
  BY <1>1, <1>2, <1>3, <1>4, <1>5, <1>6 DEF Next, Attempt, World

\* IInv holds in every reachable state.
THEOREM Invariance == Spec => []IInv
<1>1. IInv /\ [Next]_vars => IInv'
  BY NextInvariant
<1> QED
  BY InitInvariant, <1>1, PTL DEF Spec

\* The variables of the sync engine keep their types: the bounded retry counter
\* of _request never passes its limit, and the zone stays a finite table with
\* unique record ids whatever interleaves.
THEOREM TypeCorrect == Spec => []TypeOK
<1>1. IInv => TypeOK
  BY DEF IInv
<1> QED
  BY <1>1, Invariance, PTL

\* No request, pending or abandoned, can ever hit a record of another name or
\* type than the one it was made for: the ids reconcile_host takes from a
\* listing stay good, or dangle, however stale the listing gets.
THEOREM RequestsSafe == Spec => []RequestsNameOwnRecords
<1>1. IInv => RequestsNameOwnRecords
  BY DEF IInv
<1> QED
  BY <1>1, Invariance, PTL

\* A write is only requested for the host being reconciled, for a family whose
\* detection gave an answer, in a group that is not offline.
THEOREM WritesAsserted == Spec => []WritesAreAsserted
<1>1. IInv => WritesAreAsserted
  <2> SUFFICES ASSUME IInv, NEW s \in Syncers, NEW c \in ToSet(job[s].calls),
                      c.op # "list"
               PROVE  /\ c.name = job[s].host /\ GroupOf[c.name] = job[s].group
                      /\ job[s].target[c.type] # Unknown
                      /\ \E f \in Families : job[s].target[f] # Absent
    BY DEF WritesAreAsserted
  <2>1. Coherent(job[s])
    BY DEF IInv
  <2>2. job[s].calls # <<>>
    BY DEF ToSet
  <2> QED
    BY <2>1, <2>2 DEF Coherent
<1> QED
  BY <1>1, Invariance, PTL

\* Records that are not address records are never created, changed or removed
\* by a sync, however many syncers run and whatever lands late.
THEOREM BystandersSafe == Spec => BystandersUntouched
<1>1. IInv /\ [Next]_vars =>
        [{r \in zone : r.type \notin Families} = {r \in zone' : r.type \notin Families}]_vars
  BY NextInvariant DEF Bystanders
<1> QED
  BY <1>1, Invariance, PTL DEF Spec, BystandersUntouched

---------------------------------------------------------------------------
(* One syncer alone: a single `sync --once`, with nobody editing records   *)
(* by hand. Whatever it requests, it requests of a host it has listed      *)
(* once, and never before. The argument goes by three kinds of steps: calm *)
(* ones, requests carried out, and listings.                               *)

Alone == Daemons = {} /\ \E s : OneShots = {s}

\* A cycle takes up each host once, by its listing; a group of which a family
\* is unknown has its hosts reported.
Order(j) ==
  /\ j.pending \cup j.members \subseteq j.asked
  /\ j.pending \cap j.members = {}
  /\ j.host # None => j.host \in j.asked /\ j.host \notin j.pending \cup j.members
  /\ j.pc \in {"idle", "groups", "exited", "killed"} => j.members = {}
  /\ j.pc \in {"idle", "killed"} => j.asked = {}
  /\ j.pc = "exited" => j.pending = {}
  /\ \A f \in Families : j.pc = "hosts" /\ j.target[f] = Unknown =>
       j.members \subseteq j.failed /\ (j.host # None => j.host \in j.failed)
  /\ \A i \in 1 .. Len(j.calls) : j.calls[i].op = "list" => Len(j.calls) = 1

\* A write is requested for a host that has been listed.
ListedFirst(s) ==
  job[s].pc # "killed" => \A c \in Requests : c.op # "list" => c.name \in Seen(job[s])

OrderInv == \A s \in Syncers : Order(job[s]) /\ ListedFirst(s)

\* What a job that changes from j to J does with its hosts, if it neither lists
\* nor writes: it reports some, begins with all, ends with none left, or is
\* killed.
Moved(j, J) ==
  \/ /\ ProgressOf(J) = ProgressOf(j)
     /\ \A h \in Hosts :
          \/ StageOf(J, h) = StageOf(j, h)
          \/ StageOf(j, h) \in {"waiting", "working"} /\ StageOf(J, h) = "reported"
  \/ /\ ProgressOf(j) = "new" /\ ProgressOf(J) = IF J.asked = {} THEN "over" ELSE "going"
     /\ \A h \in Hosts : StageOf(J, h) = IF h \in J.asked THEN "waiting" ELSE "out"
  \/ /\ ProgressOf(j) = "going" /\ ProgressOf(J) = "over"
     /\ \A h \in Hosts :
          StageOf(J, h) = StageOf(j, h) /\ StageOf(j, h) \in {"out", "done", "reported"}
  \/ /\ ProgressOf(j) = "going" /\ ProgressOf(J) = "killed"
     /\ \A h \in Hosts : StageOf(J, h) = "lost"

\* A step that changes no record and requests no write; a host it drops the
\* requests of is reported.
Calm(s) ==
  /\ Moved(job[s], job'[s])
  /\ zone' = zone
  /\ \A c \in Requests' : c.op # "list" => c \in Requests
  /\ job'[s].pc # "killed" => job[s].pc # "killed" /\ Seen(job[s]) \subseteq Seen(job'[s])
  /\ Settled(job'[s]) \subseteq Settled(job[s])
  /\ \A c \in ToSet(job[s].calls) :
       c.op # "list" /\ c.name \in Settled(job'[s]) => c \in ToSet(job'[s].calls)

\* A step in which the server carries out c, for a syncer that is waiting for
\* it or for one that no longer is; it may have been the last one of its host.
Carried(s, c) ==
  /\ c \in Writes /\ c \in Requests /\ zone' \in Outcomes(c)
  /\ \A d \in Requests' : d \in Requests
  /\ job'[s].pc = job[s].pc
  /\ Seen(job'[s]) = Seen(job[s]) /\ Settled(job'[s]) = Settled(job[s])
  /\ \A h \in Hosts :
       \/ StageOf(job'[s], h) = StageOf(job[s], h)
       \/ /\ h = c.name
          /\ StageOf(job[s], h) = "working" /\ StageOf(job'[s], h) = "done"
  /\ \A d \in ToSet(job[s].calls) : d = c \/ d \in ToSet(job'[s].calls)
  /\ \/ Answered(s) /\ c = Current(s)
     \/ \E q \in late : Land(q) /\ c = q.call

\* What is requested when there is one syncer only.
LEMMA RequestsOfOne ==
  ASSUME NEW s, Syncers = {s}
  PROVE  /\ \A c : c \in Requests <=>
              c \in ToSet(job[s].calls) \/ \E q \in late : c = q.call
         /\ \A c : c \in Requests' <=>
              c \in ToSet(job'[s].calls) \/ \E q \in late' : c = q.call
BY DEF Requests

\* The elements of a sequence, of its head and tail, and of a single request.
LEMMA CallSets ==
  ASSUME NEW calls \in Seq(Calls)
  PROVE  /\ calls = <<>> => ToSet(calls) = {} /\ Len(calls) = 0
         /\ calls # <<>> =>
              /\ Head(calls) = calls[1] /\ Len(calls) \in Nat \ {0}
              /\ Len(Tail(calls)) = Len(calls) - 1
              /\ \A i \in 1 .. Len(calls) - 1 : Tail(calls)[i] = calls[i + 1]
              /\ \A c \in ToSet(calls) : c = Head(calls) \/ c \in ToSet(Tail(calls))
              /\ ToSet(Tail(calls)) \subseteq ToSet(calls)
         /\ \A c \in ToSet(calls) : \E i \in 1 .. Len(calls) : c = calls[i]
         /\ \A i \in 1 .. Len(calls) : calls[i] \in ToSet(calls)
<1>1. /\ Len(calls) \in Nat /\ DOMAIN calls = 1 .. Len(calls)
      /\ calls # <<>> => Len(calls) # 0
  BY LenProperties, EmptySeq
<1>2. /\ \A c \in ToSet(calls) : \E i \in 1 .. Len(calls) : c = calls[i]
      /\ \A i \in 1 .. Len(calls) : calls[i] \in ToSet(calls)
  BY <1>1 DEF ToSet
<1>3. ASSUME calls # <<>>
      PROVE  /\ Head(calls) = calls[1] /\ Len(calls) \in Nat \ {0}
             /\ Len(Tail(calls)) = Len(calls) - 1
             /\ \A i \in 1 .. Len(calls) - 1 : Tail(calls)[i] = calls[i + 1]
             /\ DOMAIN Tail(calls) = 1 .. Len(calls) - 1
  BY <1>1, <1>3, HeadTailProperties
<1>4. ASSUME calls # <<>>, NEW c \in ToSet(calls), c # Head(calls)
      PROVE  c \in ToSet(Tail(calls))
  <2>1. PICK i \in 1 .. Len(calls) : c = calls[i]
    BY <1>2
  <2>2. i - 1 \in 1 .. Len(calls) - 1 /\ Tail(calls)[i - 1] = calls[(i - 1) + 1]
    <3>1. i # 1
      BY <1>3, <1>4, <2>1
    <3>2. i - 1 \in 1 .. Len(calls) - 1
      BY <1>1, <3>1
    <3> QED
      BY <1>3, <1>4, <3>2
  <2>3. (i - 1) + 1 = i
    BY <1>1
  <2> QED
    BY <1>3, <1>4, <2>1, <2>2, <2>3 DEF ToSet
<1>5. ASSUME calls # <<>>, NEW c \in ToSet(Tail(calls))
      PROVE  c \in ToSet(calls)
  <2>1. PICK i \in 1 .. Len(calls) - 1 : c = Tail(calls)[i]
    BY <1>3, <1>5 DEF ToSet
  <2>2. i + 1 \in 1 .. Len(calls) /\ c = calls[i + 1]
    BY <1>1, <1>3, <1>5, <2>1
  <2> QED
    BY <1>2, <2>2
<1>6. calls = <<>> => ToSet(calls) = {} /\ Len(calls) = 0
  BY DEF ToSet
<1> QED
  BY <1>2, <1>3, <1>4, <1>5, <1>6

\* Between two hosts a syncer requests nothing.
LEMMA NothingRequested ==
  ASSUME IInv, NEW s \in Syncers, job[s].host = None
  PROVE  /\ job[s] \in Jobs /\ Coherent(job[s]) /\ job[s].calls = <<>>
         /\ ~Listing(job[s]) /\ ToSet(job[s].calls) = {}
<1>1. job[s] \in Jobs /\ Coherent(job[s]) /\ job[s].calls = <<>>
  BY JobFacts DEF Coherent
<1> QED
  BY <1>1 DEF Listing, ToSet

\* Then a step that at most asks for a listing is calm.
LEMMA QuietIsCalm ==
  ASSUME IInv, NEW s, Syncers = {s}, job[s].host = None, zone' = zone, late' = late,
         NEW J \in Jobs, job' = [job EXCEPT ![s] = J], Order(J),
         \A c \in ToSet(J.calls) : c.op = "list", Moved(job[s], J),
         J.pc # "killed" => job[s].pc # "killed" /\ Seen(job[s]) \subseteq Seen(J),
         Settled(J) \subseteq Settled(job[s])
  PROVE  Calm(s) /\ Order(job'[s])
<1>1. s \in Syncers
  OBVIOUS
<1>2. job'[s] = J /\ ToSet(job[s].calls) = {}
  BY <1>1, NothingRequested DEF IInv, TypeOK
<1>3. \A c \in Requests' : c.op # "list" => c \in Requests
  BY <1>2, RequestsOfOne
<1> QED
  BY <1>2, <1>3 DEF Calm

\* A new cycle has everything to do,
LEMMA StartCycleCalm ==
  ASSUME IInv, NEW s, Syncers = {s}, s \notin Daemons, Order(job[s]), StartCycle(s)
  PROVE  Calm(s) /\ Order(job'[s])
<1>1. PICK hosts \in SUBSET managed :
        job' = [job EXCEPT ![s] =
                 IF hosts = {} THEN CycleOver(s, Idle)
                 ELSE [Idle EXCEPT !.pc = "groups", !.asked = hosts, !.pending = hosts]]
  BY DEF StartCycle
<1> DEFINE J == IF hosts = {} THEN CycleOver(s, Idle)
                ELSE [Idle EXCEPT !.pc = "groups", !.asked = hosts, !.pending = hosts]
<1>2. job[s].host = None
  BY JobFacts DEF Coherent, StartCycle
<1>3. /\ J.calls = <<>> /\ J.members = {} /\ J.host = None /\ J.failed = {}
      /\ J.target = NoTarget /\ J.asked = J.pending
      /\ J.pc = "groups" \/ (J.pc = "exited" /\ J.pending = {})
      /\ (J.asked = {} <=> J.pc = "exited")
  BY DEF CycleOver, Idle
<1>4. J \in Jobs
  <2>1. hosts \subseteq Hosts /\ Idle \in Jobs
    BY IdleInOrder DEF IInv, TypeOK
  <2> QED
    BY <2>1 DEF CycleOver, Jobs
<1>5. job' = [job EXCEPT ![s] = J]
  BY <1>1
<1>6. job[s].asked = {} /\ job[s].pc = "idle"
  BY DEF StartCycle, Order
<1> HIDE DEF J
<1>7. /\ ~Listing(J) /\ ToSet(J.calls) = {} /\ Len(J.calls) = 0
  BY <1>3 DEF Listing, ToSet
<1>8. Order(J)
  BY <1>3, <1>7 DEF Order
<1>9. /\ Seen(job[s]) = {} /\ Settled(J) = {}
  BY <1>3, <1>6, <1>7 DEF Seen, Settled, ToDo
<1>10. Moved(job[s], J)
  <2>1. /\ ProgressOf(job[s]) = "new"
        /\ ProgressOf(J) = IF J.asked = {} THEN "over" ELSE "going"
    BY <1>3, <1>6 DEF ProgressOf
  <2>2. ASSUME NEW h \in Hosts
        PROVE  StageOf(J, h) = IF h \in J.asked THEN "waiting" ELSE "out"
    BY <1>3, <1>7 DEF StageOf, ToDo
  <2> QED
    BY <2>1, <2>2 DEF Moved
<1> QED
  BY <1>2, <1>4, <1>5, <1>6, <1>7, <1>8, <1>9, <1>10, QuietIsCalm DEF StartCycle

\* a group that is taken up keeps its hosts, one that is skipped reports them,
LEMMA NextGroupCalm ==
  ASSUME IInv, NEW s, Syncers = {s}, s \notin Daemons, Order(job[s]), NextGroup(s)
  PROVE  Calm(s) /\ Order(job'[s])
<1>1. PICK g \in Groups : job' = [job EXCEPT ![s] = TakeGroup(job[s], g)]
  BY DEF NextGroup
<1> DEFINE J     == TakeGroup(job[s], g)
           hosts == {h \in job[s].pending : GroupOf[h] = g}
<1>2. job[s].host = None /\ job[s].pc = "groups" /\ s \in Syncers
  BY JobFacts DEF Coherent, NextGroup
<1>3. /\ job[s] \in Jobs /\ job[s].calls = <<>> /\ ~Listing(job[s])
      /\ ToSet(job[s].calls) = {} /\ job[s].members = {}
  BY <1>2, NothingRequested DEF Order
<1>4. /\ J \in Jobs
      /\ J.calls = <<>> /\ J.host = None /\ J.asked = job[s].asked
      /\ J.pending = job[s].pending \ hosts
      /\ \/ J.pc = "groups" /\ J.members = {} /\ J.failed = job[s].failed \cup hosts
         \/ J.pc = "ipv4" /\ J.members = hosts /\ J.failed = job[s].failed
  BY <1>2, <1>3 DEF TakeGroup, Jobs
<1>5. job' = [job EXCEPT ![s] = J]
  BY <1>1
<1> HIDE DEF J
<1>6. ~Listing(J) /\ ToSet(J.calls) = {} /\ Len(J.calls) = 0
  BY <1>4 DEF Listing, ToSet
<1>7. Order(J)
  BY <1>2, <1>4, <1>6 DEF Order
<1>8. Seen(job[s]) \subseteq Seen(J) /\ Settled(J) \subseteq Settled(job[s])
  BY <1>3, <1>4, <1>6 DEF Seen, Settled, ToDo
<1>9. Moved(job[s], J)
  BY <1>2, <1>3, <1>4, <1>6, SpecialsAssumption DEF Moved, StageOf, ProgressOf, ToDo
<1> QED
  BY <1>2, <1>4, <1>5, <1>6, <1>7, <1>8, <1>9, QuietIsCalm DEF NextGroup

\* a detection leaves the hosts alone
LEMMA DetectIPv4Calm ==
  ASSUME IInv, NEW s, Syncers = {s}, s \notin Daemons, Order(job[s]), DetectIPv4(s)
  PROVE  Calm(s) /\ Order(job'[s])
<1> DEFINE found == Detected(job[s].group, "A", job[s].source)
           J     == [job[s] EXCEPT !.pc = "ipv6", !.target["A"] = found]
<1>1. job[s].host = None /\ job[s].pc = "ipv4" /\ s \in Syncers
  BY JobFacts DEF Coherent, DetectIPv4
<1>2. /\ job[s] \in Jobs /\ Coherent(job[s]) /\ job[s].calls = <<>>
      /\ ~Listing(job[s]) /\ ToSet(job[s].calls) = {}
  BY <1>1, NothingRequested
<1>3. found \in Contents \cup {Absent, Unknown}
  BY <1>1, <1>2, DetectedType DEF Families, Coherent
<1> HIDE DEF found
<1>4. /\ J \in Jobs
      /\ J = [job[s] EXCEPT !.pc = "ipv6", !.target = J.target]
  BY <1>2, <1>3 DEF Jobs, Families
<1>5. job' = [job EXCEPT ![s] = J]
  BY DEF DetectIPv4, found
<1> HIDE DEF J
<1>6. /\ J.calls = <<>> /\ J.host = None /\ J.pc = "ipv6" /\ J.asked = job[s].asked
      /\ J.pending = job[s].pending /\ J.members = job[s].members
      /\ J.failed = job[s].failed
  BY <1>1, <1>2, <1>4 DEF Jobs
<1>7. ~Listing(J) /\ ToSet(J.calls) = {} /\ Len(J.calls) = 0
  BY <1>6 DEF Listing, ToSet
<1>8. Order(J)
  BY <1>6, <1>7 DEF Order
<1>9. Seen(job[s]) \subseteq Seen(J) /\ Settled(J) \subseteq Settled(job[s])
  BY <1>2, <1>6, <1>7 DEF Seen, Settled, ToDo
<1>10. Moved(job[s], J)
  BY <1>1, <1>2, <1>6, <1>7 DEF Moved, StageOf, ProgressOf, ToDo
<1> QED
  BY <1>1, <1>4, <1>5, <1>7, <1>8, <1>9, <1>10, QuietIsCalm DEF DetectIPv4

\* or reports all of them,
LEMMA DetectIPv6Calm ==
  ASSUME IInv, NEW s, Syncers = {s}, s \notin Daemons, Order(job[s]), DetectIPv6(s)
  PROVE  Calm(s) /\ Order(job'[s])
<1> DEFINE found    == Detected(job[s].group, "AAAA", job[s].source)
           target   == [job[s].target EXCEPT !["AAAA"] = found]
           unknown  == \E f \in Families : target[f] = Unknown
           reported == LeaveRecords(target) \/ unknown
           j == [job[s] EXCEPT !.failed =
                   IF reported THEN @ \cup job[s].members ELSE @]
           J == IF LeaveRecords(target) THEN LeaveGroup(j)
                ELSE [j EXCEPT !.pc = "hosts", !.target = target]
<1>1. job[s].host = None /\ job[s].pc = "ipv6" /\ s \in Syncers
  BY JobFacts DEF Coherent, DetectIPv6
<1>2. /\ job[s] \in Jobs /\ Coherent(job[s]) /\ job[s].calls = <<>>
      /\ ~Listing(job[s]) /\ ToSet(job[s].calls) = {}
  BY <1>1, NothingRequested
<1>3. target \in [Families -> Contents \cup {Absent, Unknown}]
  BY <1>1, <1>2, DetectedType DEF Jobs, Families, Coherent
<1>4. job' = [job EXCEPT ![s] = J]
  BY DEF DetectIPv6
<1>5. /\ j \in Jobs /\ j = [job[s] EXCEPT !.failed = j.failed]
      /\ job[s].failed \subseteq j.failed
      /\ reported => job[s].members \subseteq j.failed
  <2> HIDE DEF reported
  <2> QED
    BY <1>2 DEF Jobs
<1>6. (\E f \in Families : target[f] = Unknown) => reported
  OBVIOUS
<1>7. LeaveRecords(target) => reported
  OBVIOUS
<1> HIDE DEF target, j, reported
<1>8. /\ J \in Jobs
      /\ J.calls = <<>> /\ J.host = None /\ J.asked = job[s].asked
      /\ J.pending = job[s].pending /\ J.failed = j.failed
      /\ \/ J.pc = "groups" /\ J.members = {} /\ LeaveRecords(target)
         \/ J.pc = "hosts" /\ J.members = job[s].members /\ J.target = target
  <2>1. NoTarget \in [Families -> Contents \cup {Absent, Unknown}]
    BY DEF NoTarget
  <2> QED
    BY <1>1, <1>2, <1>3, <1>5, <2>1 DEF LeaveGroup, Jobs
<1> HIDE DEF J
<1>9. ~Listing(J) /\ ToSet(J.calls) = {} /\ Len(J.calls) = 0
  BY <1>8 DEF Listing, ToSet
<1>10. Order(J)
  BY <1>1, <1>5, <1>6, <1>8, <1>9 DEF Order
<1>11. Seen(job[s]) \subseteq Seen(J) /\ Settled(J) \subseteq Settled(job[s])
  BY <1>2, <1>5, <1>7, <1>8, <1>9 DEF Seen, Settled, ToDo
<1>12. j.failed \subseteq job[s].failed \cup job[s].members
  BY <1>2 DEF j, Jobs
<1>13. Moved(job[s], J)
  BY <1>1, <1>2, <1>5, <1>7, <1>8, <1>9, <1>12, SpecialsAssumption
     DEF Moved, StageOf, ProgressOf, ToDo
<1> QED
  BY <1>1, <1>4, <1>8, <1>9, <1>10, <1>11, <1>13, QuietIsCalm DEF DetectIPv6

\* a host taken up is still to be listed,
LEMMA NextHostCalm ==
  ASSUME IInv, NEW s, Syncers = {s}, s \notin Daemons, Order(job[s]), NextHost(s)
  PROVE  Calm(s) /\ Order(job'[s])
<1>1. PICK h \in job[s].members : job' = [job EXCEPT ![s] = TakeHost(job[s], h)]
  BY DEF NextHost
<1> DEFINE list == Call("list", h, None, None, None)
           J    == TakeHost(job[s], h)
<1>2. job[s].host = None /\ job[s].pc = "hosts" /\ s \in Syncers
  BY DEF NextHost
<1>3. /\ job[s] \in Jobs /\ job[s].calls = <<>>
      /\ ~Listing(job[s]) /\ ToSet(job[s].calls) = {}
  BY <1>2, NothingRequested
<1>4. h \in Hosts /\ h # None
  BY <1>3, SpecialsAssumption DEF Jobs
<1>5. list.op = "list" /\ list \in Calls
  <2>1. list \in ListCalls /\ list.op = "list"
    BY <1>4 DEF Call, ListCalls
  <2> QED
    BY <2>1 DEF Calls
<1>6. job' = [job EXCEPT ![s] = J]
  BY <1>1
<1>7. J = [job[s] EXCEPT !.members = @ \ {h}, !.host = h, !.calls = <<list>>]
  BY DEF TakeHost
<1> HIDE DEF J, list
<1>8. <<list>> \in Seq(Calls) /\ ToSet(<<list>>) = {list}
  BY <1>5, OneCall
<1>9. /\ J \in Jobs
      /\ J.calls = <<list>> /\ J.host = h /\ J.pc = "hosts" /\ J.asked = job[s].asked
      /\ J.pending = job[s].pending /\ J.members = job[s].members \ {h}
      /\ J.failed = job[s].failed /\ J.target = job[s].target
  BY <1>2, <1>3, <1>4, <1>7, <1>8 DEF Jobs
<1>10. /\ Listing(J) /\ \A c \in ToSet(J.calls) : c.op = "list"
       /\ Len(J.calls) = 1
  BY <1>5, <1>8, <1>9 DEF Listing
<1>11. Order(J)
  BY <1>2, <1>4, <1>9, <1>10 DEF Order
<1>12. Seen(job[s]) \subseteq Seen(J) /\ Settled(J) \subseteq Settled(job[s])
  BY <1>3, <1>9, <1>10 DEF Seen, Settled, ToDo
<1>13. Moved(job[s], J)
  BY <1>2, <1>3, <1>9, <1>10, SpecialsAssumption DEF Moved, StageOf, ProgressOf, ToDo
<1> QED
  BY <1>2, <1>6, <1>9, <1>10, <1>11, <1>12, <1>13, QuietIsCalm DEF NextHost

\* and nothing is left to do in a group or a cycle that ends.
LEMMA GroupEndCalm ==
  ASSUME IInv, NEW s, Syncers = {s}, s \notin Daemons, Order(job[s]),
         GroupDone(s) \/ EndCycle(s)
  PROVE  Calm(s) /\ Order(job'[s])
<1> DEFINE J == IF GroupDone(s) THEN LeaveGroup(job[s]) ELSE [job[s] EXCEPT !.pc = "exited"]
<1>1. job[s].host = None /\ s \in Syncers
  BY JobFacts DEF Coherent, GroupDone, EndCycle
<1>2. /\ job[s] \in Jobs /\ job[s].calls = <<>>
      /\ ~Listing(job[s]) /\ ToSet(job[s].calls) = {}
  BY <1>1, NothingRequested
<1>3. job' = [job EXCEPT ![s] = J]
  BY DEF GroupDone, EndCycle, CycleOver
<1>4. job[s].members = {} /\ job[s].pc \in {"hosts", "groups"}
      /\ (~GroupDone(s) => job[s].pending = {})
  BY DEF GroupDone, EndCycle, Order
<1>5. /\ J \in Jobs
      /\ J.calls = <<>> /\ J.host = None /\ J.asked = job[s].asked
      /\ J.pending = job[s].pending /\ J.failed = job[s].failed /\ J.members = {}
      /\ J.pc = "groups" \/ (J.pc = "exited" /\ J.pending = {})
  <2>1. NoTarget \in [Families -> Contents \cup {Absent, Unknown}]
    BY DEF NoTarget
  <2> QED
    BY <1>1, <1>2, <1>4, <2>1 DEF LeaveGroup, Jobs
<1> HIDE DEF J
<1>6. ~Listing(J) /\ ToSet(J.calls) = {} /\ Len(J.calls) = 0
  BY <1>5 DEF Listing, ToSet
<1>7. Order(J)
  BY <1>5, <1>6 DEF Order
<1>8. Seen(job[s]) \subseteq Seen(J) /\ Settled(J) \subseteq Settled(job[s])
  BY <1>2, <1>4, <1>5, <1>6 DEF Seen, Settled, ToDo
<1>9. Moved(job[s], J)
  BY <1>1, <1>2, <1>4, <1>5, <1>6, SpecialsAssumption DEF Moved, StageOf, ProgressOf, ToDo
<1> QED
  BY <1>1, <1>3, <1>4, <1>5, <1>6, <1>7, <1>8, <1>9, QuietIsCalm DEF GroupDone, EndCycle

\* After an error, or a crash, nothing is requested of the host any more; a
\* host that is not listed yet when its request fails is reported.
LEMMA StopCalm ==
  ASSUME IInv, NEW s, Syncers = {s}, s \notin Daemons, Order(job[s]), zone' = zone,
         \A q \in late' : q \in late \/ q.call \in Requests,
         \/ Requesting(s) /\ job' = [job EXCEPT ![s] = Raise(job[s])]
         \/ /\ job[s].pc \notin {"idle", "exited", "killed"}
            /\ job' = [job EXCEPT ![s] = [Idle EXCEPT !.pc = "killed"]]
  PROVE  Calm(s) /\ Order(job'[s]) /\ ToSet(job'[s].calls) = {}
<1> DEFINE J == job'[s]
<1>1. s \in Syncers
  OBVIOUS
<1>2. job[s] \in Jobs /\ Coherent(job[s]) /\ job \in [Syncers -> Jobs]
  BY <1>1, JobFacts DEF IInv, TypeOK
<1>3. ToSet(<<>>) = {}
  BY DEF ToSet
<1>4. J.calls = <<>> /\ J.host = None
  <2>1. CASE job' = [job EXCEPT ![s] = Raise(job[s])]
    <3>1. J = Raise(job[s])
      BY <1>1, <1>2, <2>1
    <3> QED
      BY <1>2, <3>1 DEF Raise, Jobs
  <2>2. CASE job' = [job EXCEPT ![s] = [Idle EXCEPT !.pc = "killed"]]
    <3>1. J = [Idle EXCEPT !.pc = "killed"]
      BY <1>1, <1>2, <2>2
    <3> QED
      BY <3>1 DEF Idle
  <2> QED
    BY <2>1, <2>2
<1>5. ~Listing(J) /\ ToSet(J.calls) = {} /\ Len(J.calls) = 0
  BY <1>3, <1>4 DEF Listing
<1>6. \A c \in Requests' : c \in Requests
  <2>1. \A q \in late' : q.call \in Requests
    BY DEF Requests
  <2> QED
    BY <1>5, <2>1, RequestsOfOne
<1>7. CASE Requesting(s) /\ job' = [job EXCEPT ![s] = Raise(job[s])]
  <2>1. /\ J.pc = job[s].pc /\ J.asked = job[s].asked /\ J.pending = job[s].pending
        /\ J.members = job[s].members /\ J.target = job[s].target
        /\ J.failed = job[s].failed \cup {job[s].host}
    BY <1>1, <1>2, <1>7 DEF Raise, Jobs
  <2>2. /\ job[s].host # None /\ job[s].pc = "hosts"
        /\ \A c \in ToSet(job[s].calls) : c.name = job[s].host
    BY <1>2, <1>7 DEF Coherent, Requesting
  <2> HIDE DEF J
  <2>3. Order(J)
    BY <1>4, <1>5, <2>1, <2>2 DEF Order
  <2>4. /\ Seen(job[s]) \subseteq Seen(J) /\ Settled(J) \subseteq Settled(job[s])
        /\ job[s].host \notin Settled(J)
    BY <1>5, <2>1, <2>2 DEF Seen, Settled, ToDo
  <2>5. job[s].pc # "killed"
    BY <2>2
  <2>6. Moved(job[s], J)
    BY <1>4, <1>5, <2>1, <2>2, SpecialsAssumption DEF Moved, StageOf, ProgressOf, ToDo, Order
  <2> QED
    BY <1>5, <1>6, <2>2, <2>3, <2>4, <2>5, <2>6 DEF Calm, J
<1>8. CASE /\ job[s].pc \notin {"idle", "exited", "killed"}
           /\ job' = [job EXCEPT ![s] = [Idle EXCEPT !.pc = "killed"]]
  <2>1. /\ J.pc = "killed" /\ J.asked = {} /\ J.pending = {} /\ J.members = {}
    BY <1>1, <1>2, <1>8 DEF Idle
  <2> HIDE DEF J
  <2>2. Order(J) /\ Settled(J) = {}
    BY <1>4, <1>5, <2>1 DEF Order, Settled, Seen
  <2>3. Moved(job[s], J)
    BY <1>8, <2>1 DEF Moved, StageOf, ProgressOf
  <2> QED
    BY <1>5, <1>6, <2>1, <2>2, <2>3 DEF Calm, J
<1> QED
  BY <1>7, <1>8

\* A request adrift was made.
LEMMA AdriftWasRequested ==
  ASSUME IInv, NEW s \in Syncers, Requesting(s), NEW q \in Adrift(Current(s))
  PROVE  q \in late \/ q.call \in Requests
BY CurrentFacts DEF Adrift

\* A failed attempt stops the host, or is repeated with nothing changed.
LEMMA FailedCalm ==
  ASSUME IInv, NEW s, Syncers = {s}, s \notin Daemons, Order(job[s]),
         NEW kind \in FailureKinds, Failed(s, kind)
  PROVE  Calm(s) /\ Order(job'[s])
<1>1. s \in Syncers /\ Requesting(s) /\ zone' = zone
  BY DEF Failed
<1>2. \A q \in late' : q \in late \/ q.call \in Requests
  BY <1>1, AdriftWasRequested DEF Failed
<1>3. CASE job' = [job EXCEPT ![s] = Raise(job[s])]
  BY <1>1, <1>2, <1>3, StopCalm
<1>4. CASE job' = [job EXCEPT ![s] = [job[s] EXCEPT !.tries = @ + 1]]
  <2> DEFINE J == job'[s]
  <2>1. job[s] \in Jobs /\ job \in [Syncers -> Jobs]
    BY <1>1 DEF IInv, TypeOK
  <2>2. /\ J.pc = job[s].pc /\ J.asked = job[s].asked /\ J.pending = job[s].pending
        /\ J.members = job[s].members /\ J.target = job[s].target
        /\ J.failed = job[s].failed /\ J.calls = job[s].calls /\ J.host = job[s].host
    BY <1>1, <1>4, <2>1 DEF Jobs
  <2> HIDE DEF J
  <2>3. Order(J) /\ Seen(J) = Seen(job[s]) /\ Settled(J) = Settled(job[s])
    BY <2>2 DEF Order, Seen, Settled, ToDo, Listing
  <2>4. \A c \in Requests' : c \in Requests
    <3>1. \A q \in late' : q.call \in Requests
      BY <1>2 DEF Requests
    <3>2. \A c \in ToSet(J.calls) : c \in Requests
      BY <1>1, <2>2 DEF Requests
    <3> QED
      BY <3>1, <3>2, RequestsOfOne DEF J
  <2>5. job[s].pc # "killed"
    BY <1>1, JobFacts DEF Coherent, Requesting
  <2>6. Moved(job[s], J)
    BY <2>2 DEF Moved, StageOf, ProgressOf, ToDo, Listing
  <2> QED
    BY <1>1, <2>2, <2>3, <2>4, <2>5, <2>6 DEF Calm, J
<1> QED
  BY <1>3, <1>4 DEF Failed, AfterFailure

\* A request answered 404 ends the work on its host.
LEMMA NotFoundCalm ==
  ASSUME IInv, NEW s, Syncers = {s}, s \notin Daemons, Order(job[s]), NotFound(s)
  PROVE  Calm(s) /\ Order(job'[s])
BY StopCalm DEF NotFound

\* A crash ends it too; what was on its way may still land, and was requested.
LEMMA CrashCalm ==
  ASSUME IInv, NEW s, Syncers = {s}, s \notin Daemons, Order(job[s]), Crash(s)
  PROVE  Calm(s) /\ Order(job'[s])
<1>1. \A q \in late' : q \in late \/ q.call \in Requests
  BY AdriftWasRequested DEF Crash
<1> QED
  BY <1>1, StopCalm DEF Crash

\* The world around the syncer is calm as long as nobody edits records.
LEMMA SurroundingsCalm ==
  ASSUME IInv, NEW s, Syncers = {s}, Order(job[s]),
         LinkChanges \/ ManageHosts \/ UNCHANGED vars \/ \E q \in late : Lose(q)
  PROVE  Calm(s) /\ Order(job'[s])
<1>1. zone' = zone /\ job' = job /\ late' \subseteq late
  BY DEF LinkChanges, ManageHosts, Lose, vars
<1>2. \A c \in Requests' : c \in Requests
  BY <1>1, RequestsOfOne
<1>3. Moved(job[s], job'[s])
  BY <1>1 DEF Moved
<1> QED
  BY <1>1, <1>2, <1>3 DEF Calm

\* An answered write is carried out for the syncer,
LEMMA AnsweredCarried ==
  ASSUME IInv, NEW s, Syncers = {s}, Order(job[s]), Answered(s)
  PROVE  Carried(s, Current(s)) /\ Order(job'[s])
<1> DEFINE j == job[s]
           J == Proceed(j, Tail(j.calls))
<1>1. /\ s \in Syncers /\ Requesting(s) /\ Current(s).op # "list"
      /\ zone' \in Outcomes(Current(s)) /\ late' = late
      /\ job' = [job EXCEPT ![s] = J]
  BY DEF Answered
<1>2. Current(s) \in Writes /\ Current(s) \in Requests
  BY <1>1, CurrentFacts
<1>3. /\ job \in [Syncers -> Jobs] /\ j \in Jobs /\ Coherent(j)
      /\ j.calls \in Seq(Calls) /\ j.calls # <<>>
  BY <1>1, JobFacts DEF IInv, TypeOK, Requesting
<1>4. /\ J.calls = Tail(j.calls) /\ J.pc = j.pc /\ J.asked = j.asked
      /\ J.pending = j.pending /\ J.members = j.members /\ J.target = j.target
      /\ J.failed = j.failed /\ J.host \in {None, j.host}
  BY <1>3 DEF Proceed, Jobs
<1>5. job'[s] = J
  BY <1>1, <1>3
<1> HIDE DEF J
<1>6. /\ Head(j.calls) = j.calls[1] /\ Len(j.calls) \in Nat \ {0}
      /\ Len(J.calls) = Len(j.calls) - 1
      /\ \A i \in 1 .. Len(j.calls) - 1 : J.calls[i] = j.calls[i + 1]
      /\ \A c \in ToSet(j.calls) : c = Head(j.calls) \/ c \in ToSet(J.calls)
      /\ ToSet(J.calls) \subseteq ToSet(j.calls)
  BY <1>3, <1>4, CallSets
<1>7. \A i \in 1 .. Len(J.calls) : J.calls[i].op # "list"
  <2> SUFFICES ASSUME NEW i \in 1 .. Len(J.calls), J.calls[i].op = "list"
               PROVE  FALSE
    OBVIOUS
  <2>1. i + 1 \in 1 .. Len(j.calls) /\ j.calls[i + 1].op = "list"
    BY <1>6
  <2>2. Len(j.calls) = 1
    BY <2>1 DEF Order
  <2> QED
    BY <1>6, <2>2
<1>8. ~Listing(j)
  BY <1>1 DEF Listing, Current
<1>9. ~Listing(J)
  <2> SUFFICES ASSUME Listing(J)
               PROVE  FALSE
    OBVIOUS
  <2>1. J.calls \in Seq(Calls) /\ J.calls # <<>>
    BY <1>3, <1>4, CurrentFacts, <1>1 DEF Listing
  <2>2. Head(J.calls) = J.calls[1] /\ Len(J.calls) \in Nat \ {0}
    BY <2>1, CallSets
  <2> QED
    BY <1>7, <2>2 DEF Listing
<1>10. Seen(J) = Seen(j) /\ Settled(J) = Settled(j)
  BY <1>4, <1>8, <1>9 DEF Seen, Settled, ToDo
<1>11. Order(J)
  BY <1>4, <1>7 DEF Order
<1>12. \A d \in Requests' : d \in Requests
  BY <1>1, <1>5, <1>6, RequestsOfOne
<1>13. \A d \in ToSet(j.calls) : d = Current(s) \/ d \in ToSet(J.calls)
  BY <1>6 DEF Current
<1>14. Current(s).name = j.host
  BY <1>3, CallSets DEF Coherent, Current
<1>15. ASSUME NEW h \in Hosts
       PROVE  \/ StageOf(J, h) = StageOf(j, h)
              \/ /\ h = Current(s).name
                 /\ StageOf(j, h) = "working" /\ StageOf(J, h) = "done"
  BY <1>4, <1>8, <1>9, <1>14, SpecialsAssumption DEF StageOf, ToDo
<1> QED
  BY <1>1, <1>2, <1>4, <1>5, <1>10, <1>11, <1>12, <1>13, <1>15 DEF Carried

\* and one that lands late although no syncer waits for it.
LEMMA LandCarried ==
  ASSUME IInv, NEW s, Syncers = {s}, Order(job[s]), NEW q \in late, Land(q)
  PROVE  Carried(s, q.call) /\ Order(job'[s])
<1>1. q.call \in Writes /\ q.call \in Requests
  BY DEF IInv, TypeOK, Requests
<1>2. job' = job /\ late' \subseteq late /\ zone' \in Outcomes(q.call)
  BY DEF Land
<1>3. \A d \in Requests' : d \in Requests
  BY <1>2, RequestsOfOne
<1> QED
  BY <1>1, <1>2, <1>3 DEF Carried

\* The listing is the one step by which a host is seen.
LEMMA ListedSees ==
  ASSUME IInv, NEW s, Syncers = {s}, Order(job[s]), Listed(s)
  PROVE  /\ Order(job'[s]) /\ zone' = zone /\ late' = late
         /\ job[s].pc # "killed" /\ job'[s].pc = job[s].pc
         /\ \A c \in ToSet(job[s].calls) : c.op = "list"
         /\ job[s].host \notin Seen(job[s])
         /\ Seen(job'[s]) = Seen(job[s]) \cup {job[s].host}
         /\ Settled(job'[s]) \subseteq Settled(job[s]) \cup {job[s].host}
         /\ job[s].host \in Settled(job'[s]) =>
              \A f \in Families : job[s].target[f] # Unknown
         /\ \A h \in Hosts :
              \/ StageOf(job'[s], h) = StageOf(job[s], h)
              \/ /\ h = job[s].host /\ h \in Settled(job'[s])
                 /\ StageOf(job[s], h) = "waiting"
                 /\ StageOf(job'[s], h) \in {"working", "done"}
<1> DEFINE j == job[s]
           J == job'[s]
           h == j.host
<1>1. /\ s \in Syncers /\ Requesting(s) /\ Current(s).op = "list"
      /\ zone' = zone /\ late' = late
  BY DEF Listed
<1>2. /\ job \in [Syncers -> Jobs] /\ j \in Jobs /\ Coherent(j)
      /\ j.calls \in Seq(Calls) /\ j.calls # <<>>
  BY <1>1, JobFacts DEF IInv, TypeOK, Requesting
<1>3. h # None /\ j.pc = "hosts" /\ Listing(j)
  BY <1>1, <1>2 DEF Coherent, Listing, Current
<1>4. /\ job' = [job EXCEPT ![s] = Proceed(j, J.calls)] /\ J.calls \in Seq(Calls)
      /\ \A c \in ToSet(J.calls) : c.op # "list"
  BY <1>1, ListedRequests DEF Writes
<1>5. /\ J.pc = j.pc /\ J.asked = j.asked
      /\ J.pending = j.pending /\ J.members = j.members /\ J.target = j.target
      /\ J.failed = j.failed /\ J.host \in {None, h}
  <2>1. J = Proceed(j, J.calls)
    BY <1>1, <1>2, <1>4
  <2> DEFINE calls == J.calls
  <2>2. J = Proceed(j, calls)
    BY <2>1
  <2> HIDE DEF calls
  <2> HIDE DEF J
  <2> QED
    BY <1>2, <2>2 DEF Proceed, Jobs
<1> HIDE DEF J
<1>6. \A i \in 1 .. Len(J.calls) : J.calls[i].op # "list"
  BY <1>4, CallSets
<1>7. ~Listing(J)
  BY <1>4, <1>6, CallSets DEF Listing
<1>8. \A c \in ToSet(j.calls) : c.op = "list"
  <2>1. /\ Head(j.calls) = j.calls[1] /\ Len(j.calls) \in Nat \ {0}
        /\ \A c \in ToSet(j.calls) : \E i \in 1 .. Len(j.calls) : c = j.calls[i]
    BY <1>2, CallSets
  <2>2. Len(j.calls) = 1
    BY <1>3, <2>1 DEF Order, Listing
  <2>3. \A c \in ToSet(j.calls) : c = j.calls[1]
    BY <2>1, <2>2
  <2> QED
    BY <1>3, <2>1, <2>3 DEF Listing
<1>9. Order(J)
  BY <1>5, <1>6 DEF Order
<1>10. /\ h \notin Seen(j) /\ Seen(J) = Seen(j) \cup {h}
       /\ Settled(J) \subseteq Settled(j) \cup {h}
       /\ h \in Settled(J) => h \notin j.failed
  <2>1. h \in j.asked /\ h \notin j.pending \cup j.members
    BY <1>3 DEF Order
  <2> QED
    BY <1>3, <1>5, <1>7, <2>1 DEF Seen, Settled, ToDo
<1>11. h \in Settled(J) => \A f \in Families : j.target[f] # Unknown
  BY <1>3, <1>10 DEF Order
<1>12. ASSUME NEW n \in Hosts
       PROVE  \/ StageOf(J, n) = StageOf(j, n)
              \/ /\ n = h /\ n \in Settled(J) /\ StageOf(j, n) = "waiting"
                 /\ StageOf(J, n) \in {"working", "done"}
  <2>1. h \in j.asked /\ h \notin j.pending \cup j.members
    BY <1>3 DEF Order
  <2> QED
    BY <1>3, <1>5, <1>7, <2>1, SpecialsAssumption DEF StageOf, Settled, Seen, ToDo
<1> QED
  BY <1>1, <1>3, <1>5, <1>8, <1>9, <1>10, <1>11, <1>12 DEF J

---------------------------------------------------------------------------
(* The order of one cycle. *)

\* Every step is of one of the kinds, or somebody edits records.
LEMMA Steps ==
  ASSUME IInv, NEW s, Syncers = {s}, s \notin Daemons, Order(job[s]), [Next]_vars
  PROVE  /\ Order(job'[s])
         /\ Calm(s) \/ (\E c : Carried(s, c)) \/ Listed(s) \/ HandEdit
<1>1. s \in Syncers /\ \A t \in Syncers : t = s
  OBVIOUS
<1>2. CASE Cycle(s)
  BY <1>2, StartCycleCalm, NextGroupCalm, DetectIPv4Calm, DetectIPv6Calm, NextHostCalm,
     GroupEndCalm DEF Cycle
<1>3. CASE Attempt(s)
  BY <1>3, ListedSees, AnsweredCarried, NotFoundCalm, FailedCalm DEF Attempt
<1>4. CASE Crash(s)
  BY <1>4, CrashCalm
<1>5. CASE Abandoned
  BY <1>5, LandCarried, SurroundingsCalm DEF Abandoned
<1>6. CASE LinkChanges \/ ManageHosts \/ UNCHANGED vars
  BY <1>6, SurroundingsCalm
<1>7. CASE HandEdit
  BY <1>7 DEF HandEdit
<1> QED
  BY <1>1, <1>2, <1>3, <1>4, <1>5, <1>6, <1>7 DEF Next, World

\* A listing adds the requests of its plans to those that are abandoned.
LEMMA ListedAdds ==
  ASSUME IInv, NEW s, Syncers = {s}, Order(job[s]), Listed(s), NEW c \in Requests'
  PROVE  \/ c \in ToSet(job'[s].calls) /\ c \in Writes /\ c.name = job[s].host
         \/ c \in Requests /\ \E q \in late : c = q.call
<1>1. c \in ToSet(job'[s].calls) \/ \E q \in late : c = q.call
  BY RequestsOfOne, ListedSees
<1> QED
  BY <1>1, ListedRequests DEF Requests

\* Every step of a single run keeps the order of its cycle,
LEMMA OrderStep ==
  ASSUME IInv, NEW s, Syncers = {s}, s \notin Daemons, OrderInv, [Next]_vars
  PROVE  OrderInv'
<1>1. Order(job[s]) /\ ListedFirst(s)
  BY DEF OrderInv
<1>2. Order(job'[s])
  BY <1>1, Steps
<1>3. ListedFirst(s)'
  <2>1. CASE Calm(s)
    BY <1>1, <2>1 DEF ListedFirst, Calm
  <2>2. CASE \E c : Carried(s, c)
    BY <1>1, <2>2 DEF ListedFirst, Carried
  <2>3. CASE Listed(s)
    <3>1. Seen(job'[s]) = Seen(job[s]) \cup {job[s].host} /\ job[s].pc # "killed"
      BY <1>1, <2>3, ListedSees
    <3>2. \A c \in Requests' : c.op # "list" => c.name \in Seen(job'[s])
      BY <1>1, <2>3, <3>1, ListedAdds DEF ListedFirst
    <3> QED
      BY <3>2 DEF ListedFirst
  <2>4. CASE HandEdit
    <3>1. \A c \in Requests' : c \in Requests
      BY <2>4 DEF HandEdit, Requests
    <3> QED
      BY <1>1, <2>4, <3>1 DEF ListedFirst, HandEdit
  <2> QED
    BY <1>1, <2>1, <2>2, <2>3, <2>4, Steps
<1> QED
  BY <1>2, <1>3 DEF OrderInv

\* which holds before it.
LEMMA OrderInit ==
  ASSUME Init, NEW s, Syncers = {s}
  PROVE  OrderInv
<1>1. job[s] = Idle /\ late = {}
  BY DEF Init
<1>2. ToSet(Idle.calls) = {} /\ Len(Idle.calls) = 0
  BY DEF Idle, ToSet
<1>3. Order(Idle)
  BY <1>2 DEF Order, Idle
<1>4. \A c : c \notin Requests
  BY <1>1, <1>2, RequestsOfOne
<1> QED
  BY <1>1, <1>3, <1>4 DEF OrderInv, ListedFirst

---------------------------------------------------------------------------
(* The records of a family that has an address. *)

\* While the links stand still, a detection that is over found what its link
\* still answers.
DetectInv ==
  \A s \in Syncers :
    /\ job[s].pc \in {"ipv4", "ipv6", "hosts"} =>
         /\ Bound(job[s].group) => LinkOf[job[s].group] \in up
         /\ \A f \in Families :
              f \in job[s].source <=> link[LinkOf[job[s].group]][f] # Absent
    /\ job[s].pc \in {"ipv6", "hosts"} =>
         job[s].target["A"] = link[LinkOf[job[s].group]]["A"]
    /\ job[s].pc = "hosts" => job[s].target["AAAA"] = link[LinkOf[job[s].group]]["AAAA"]

\* A family that has an address and a record has one nobody asks to delete.
AddressInv ==
  \A h \in Hosts, f \in Families :
    Wanted(h, f) # Absent /\ Matching(h, f) # {} =>
      \E r \in Matching(h, f) : Spares(Requests, r)

\* What a single run has detected stays true while the links stand still.
LEMMA DetectStep ==
  ASSUME IInv, NEW s, Syncers = {s}, s \notin Daemons, DetectInv, [Next]_vars,
         ~LinkChanges
  PROVE  DetectInv'
<1> DEFINE j == job[s]
           J == job'[s]
           Answer(g, f) == link[LinkOf[g]][f]
<1>1. link' = link /\ up' = up
  BY DEF Next, vars, Cycle, Attempt, World, Abandoned, StartCycle, NextGroup, DetectIPv4,
     DetectIPv6, NextHost, GroupDone, EndCycle, Listed, Answered, NotFound, Failed, Crash,
     HandEdit, ManageHosts, Land, Lose
<1>2. s \in Syncers /\ \A t \in Syncers : t = s
  OBVIOUS
<1>3. j \in Jobs /\ Coherent(j) /\ job \in [Syncers -> Jobs]
  BY <1>2, JobFacts DEF IInv, TypeOK
<1>4. /\ j.pc \in {"ipv4", "ipv6", "hosts"} =>
           /\ Bound(j.group) => LinkOf[j.group] \in up
           /\ \A f \in Families : f \in j.source <=> Answer(j.group, f) # Absent
      /\ j.pc \in {"ipv6", "hosts"} => j.target["A"] = Answer(j.group, "A")
      /\ j.pc = "hosts" => j.target["AAAA"] = Answer(j.group, "AAAA")
  BY <1>2 DEF DetectInv
<1>5. \A f \in Families :
        j.pc \in {"ipv4", "ipv6"} => Detected(j.group, f, j.source) = Answer(j.group, f)
  BY <1>4 DEF Detected
<1>6. \/ J.pc \in {"idle", "groups", "exited", "killed"}
      \/ /\ J.pc = j.pc /\ J.group = j.group /\ J.source = j.source
         /\ J.target = j.target
      \/ /\ J.pc = "ipv4"
         /\ Bound(J.group) => LinkOf[J.group] \in up
         /\ \A f \in Families : f \in J.source <=> Answer(J.group, f) # Absent
      \/ /\ j.pc = "ipv4" /\ J.pc = "ipv6" /\ J.group = j.group /\ J.source = j.source
         /\ J.target["A"] = Detected(j.group, "A", j.source)
      \/ /\ j.pc = "ipv6" /\ J.pc = "hosts" /\ J.group = j.group /\ J.source = j.source
         /\ J.target["A"] = j.target["A"]
         /\ J.target["AAAA"] = Detected(j.group, "AAAA", j.source)
  <2>1. CASE StartCycle(s) \/ GroupDone(s) \/ EndCycle(s) \/ Crash(s)
    <3>1. CASE StartCycle(s)
      <4>1. PICK hosts \in SUBSET managed :
              job' = [job EXCEPT ![s] =
                 IF hosts = {} THEN CycleOver(s, Idle)
                 ELSE [Idle EXCEPT !.pc = "groups", !.asked = hosts, !.pending = hosts]]
        BY <3>1 DEF StartCycle
      <4>2. J.pc \in {"idle", "groups", "exited"}
        BY <1>2, <1>3, <4>1 DEF CycleOver, Idle
      <4> QED
        BY <4>2
    <3>2. CASE GroupDone(s)
      <4>1. J = LeaveGroup(j)
        BY <1>2, <1>3, <3>2 DEF GroupDone
      <4>2. J.pc = "groups"
        BY <1>3, <4>1 DEF LeaveGroup, Jobs
      <4> QED
        BY <4>2
    <3>3. CASE EndCycle(s)
      <4>1. J = CycleOver(s, j)
        BY <1>2, <1>3, <3>3 DEF EndCycle
      <4>2. J.pc \in {"idle", "exited"}
        BY <1>3, <4>1 DEF CycleOver, Idle, Jobs
      <4> QED
        BY <4>2
    <3>4. CASE Crash(s)
      <4>1. J = [Idle EXCEPT !.pc = "killed"]
        BY <1>2, <1>3, <3>4 DEF Crash
      <4>2. J.pc = "killed"
        BY <4>1 DEF Idle
      <4> QED
        BY <4>2
    <3> QED
      BY <2>1, <3>1, <3>2, <3>3, <3>4
  <2>2. CASE NextGroup(s)
    <3>1. PICK g \in Groups : job' = [job EXCEPT ![s] = TakeGroup(j, g)]
      BY <2>2 DEF NextGroup
    <3>2. J = TakeGroup(j, g) /\ j.pc = "groups"
      BY <1>2, <1>3, <2>2, <3>1 DEF NextGroup
    <3>3. CASE Bound(g) /\ LinkOf[g] \notin up
      <4>1. J.pc = "groups"
        BY <1>3, <3>2, <3>3 DEF TakeGroup, Jobs
      <4> QED
        BY <4>1
    <3>4. CASE ~(Bound(g) /\ LinkOf[g] \notin up)
      <4>1. /\ J.pc = "ipv4" /\ J.group = g
            /\ J.source = {f \in Families : Answer(g, f) # Absent}
        BY <1>3, <3>2, <3>4 DEF TakeGroup, Jobs
      <4> QED
        BY <3>4, <4>1
    <3> QED
      BY <3>3, <3>4
  <2>3. CASE DetectIPv4(s)
    <3> DEFINE found == Detected(j.group, "A", j.source)
    <3>1. J = [j EXCEPT !.pc = "ipv6", !.target["A"] = found] /\ j.pc = "ipv4"
      BY <1>2, <1>3, <2>3 DEF DetectIPv4
    <3> HIDE DEF found
    <3>2. /\ J.pc = "ipv6" /\ J.group = j.group /\ J.source = j.source
          /\ J.target["A"] = found
      BY <1>3, <3>1 DEF Jobs, Families
    <3> QED
      BY <3>1, <3>2 DEF found
  <2>4. CASE DetectIPv6(s)
    <3> DEFINE found  == Detected(j.group, "AAAA", j.source)
               target == [j.target EXCEPT !["AAAA"] = found]
    <3>1. PICK failed :
            /\ J = IF LeaveRecords(target) THEN LeaveGroup([j EXCEPT !.failed = failed])
                   ELSE [[j EXCEPT !.failed = failed] EXCEPT !.pc = "hosts",
                                                             !.target = target]
            /\ j.pc = "ipv6"
      BY <1>2, <1>3, <2>4 DEF DetectIPv6
    <3>2. target["A"] = j.target["A"] /\ target["AAAA"] = found
      BY <1>3 DEF Jobs, Families
    <3> HIDE DEF found, target
    <3>3. \/ J.pc = "groups"
          \/ /\ J.pc = "hosts" /\ J.group = j.group /\ J.source = j.source
             /\ J.target = target
      BY <1>3, <3>1 DEF LeaveGroup, Jobs
    <3> QED
      BY <3>1, <3>2, <3>3 DEF found
  <2>5. CASE NextHost(s)
    <3>1. PICK h : J = TakeHost(j, h)
      BY <1>2, <1>3, <2>5 DEF NextHost
    <3> QED
      BY <1>3, <3>1 DEF TakeHost, Jobs
  <2>6. CASE Listed(s) \/ Answered(s)
    <3>1. PICK rest : J = Proceed(j, rest)
      BY <1>2, <1>3, <2>6, ListedPlans DEF Answered
    <3> QED
      BY <1>3, <3>1 DEF Proceed, Jobs
  <2>7. CASE NotFound(s) \/ \E kind \in FailureKinds : Failed(s, kind)
    <3>1. J = Raise(j) \/ J = [j EXCEPT !.tries = @ + 1]
      BY <1>2, <1>3, <2>7 DEF NotFound, Failed, AfterFailure
    <3> QED
      BY <1>3, <3>1 DEF Raise, Jobs
  <2>8. CASE job' = job
    BY <2>8
  <2> QED
    BY <1>2, <2>1, <2>2, <2>3, <2>4, <2>5, <2>6, <2>7, <2>8 DEF Next, vars, Cycle, Attempt,
       World, Abandoned, LinkChanges, HandEdit, ManageHosts, Land, Lose
<1> HIDE DEF J, j
<1>7. "A" \in Families /\ "AAAA" \in Families
  BY DEF Families
<1>8. /\ J.pc \in {"ipv4", "ipv6", "hosts"} =>
           /\ Bound(J.group) => LinkOf[J.group] \in up
           /\ \A f \in Families : f \in J.source <=> Answer(J.group, f) # Absent
      /\ J.pc \in {"ipv6", "hosts"} => J.target["A"] = Answer(J.group, "A")
      /\ J.pc = "hosts" => J.target["AAAA"] = Answer(J.group, "AAAA")
  <2> HIDE DEF Answer
  <2>1. CASE J.pc \in {"idle", "groups", "exited", "killed"}
    BY <2>1
  <2>2. CASE J.pc = j.pc /\ J.group = j.group /\ J.source = j.source /\ J.target = j.target
    BY <1>4, <2>2
  <2>3. CASE /\ J.pc = "ipv4"
             /\ Bound(J.group) => LinkOf[J.group] \in up
             /\ \A f \in Families : f \in J.source <=> Answer(J.group, f) # Absent
    BY <2>3
  <2>4. CASE /\ j.pc = "ipv4" /\ J.pc = "ipv6" /\ J.group = j.group
             /\ J.source = j.source /\ J.target["A"] = Detected(j.group, "A", j.source)
    BY <1>4, <1>5, <1>7, <2>4
  <2>5. CASE /\ j.pc = "ipv6" /\ J.pc = "hosts" /\ J.group = j.group
             /\ J.source = j.source /\ J.target["A"] = j.target["A"]
             /\ J.target["AAAA"] = Detected(j.group, "AAAA", j.source)
    BY <1>4, <1>5, <1>7, <2>5
  <2> QED
    BY <1>6, <2>1, <2>2, <2>3, <2>4, <2>5
<1> QED
  BY <1>1, <1>2, <1>8 DEF DetectInv, J, Bound

\* What a write that is carried out does to single records: it takes the one it
\* deletes, rewrites the one it updates in place, or adds one with an id that
\* nobody refers to.
LEMMA CarriedOut ==
  ASSUME IInv, NEW c \in Writes, c \in Requests, zone' \in Outcomes(c)
  PROVE  /\ \A r \in zone : ~(c.op = "delete" /\ c.id = r.id) =>
              \E n \in zone' :
                /\ n.id = r.id /\ n.name = r.name /\ n.type = r.type
                /\ \/ n = r /\ ~(c.op = "update" /\ c.id = r.id)
                   \/ c.op = "update" /\ c.id = r.id /\ n = RecordFor(c, c.id)
         /\ \A n \in zone' :
              \/ \E r \in zone :
                   /\ n.id = r.id /\ n.name = r.name /\ n.type = r.type
                   /\ ~(c.op = "delete" /\ c.id = r.id)
                   /\ \/ n = r /\ ~(c.op = "update" /\ c.id = r.id)
                      \/ c.op = "update" /\ c.id = r.id /\ n = RecordFor(c, c.id)
              \/ /\ c.op = "create" /\ n.id \in FreshIds /\ n = RecordFor(c, n.id)
                 /\ n.name = c.name /\ n.type = c.type
         /\ c.op = "create" =>
              \E n \in zone' : /\ n.id \in FreshIds /\ n = RecordFor(c, n.id)
                               /\ n.name = c.name /\ n.type = c.type
                               /\ \A m \in zone' : m = n \/ m \in zone
<1>1. \A i : /\ RecordFor(c, i).id = i /\ RecordFor(c, i).name = c.name
             /\ RecordFor(c, i).type = c.type
  BY DEF RecordFor
<1>2. c.op # "create" => \A r \in zone : r.id = c.id => r.name = c.name /\ r.type = c.type
  BY DEF IInv, RequestsNameOwnRecords, Writes
<1>3. CASE c.op = "create"
  <2>1. PICK i \in FreshIds : zone' = zone \cup {RecordFor(c, i)}
    BY <1>3 DEF Outcomes
  <2> QED
    BY <1>1, <1>3, <2>1
<1>4. CASE c.op = "update"
  <2>1. zone' = {IF r.id = c.id THEN RecordFor(c, c.id) ELSE r : r \in zone}
    BY <1>4 DEF Outcomes
  <2> QED
    BY <1>1, <1>2, <1>4, <2>1
<1>5. CASE c.op = "delete"
  <2>1. zone' = {r \in zone : r.id # c.id}
    BY <1>5 DEF Outcomes
  <2> QED
    BY <1>5, <2>1
<1> QED
  BY <1>3, <1>4, <1>5 DEF Writes

\* A spared record outlives the requests, whatever they are.
LEMMA SparedSurvives ==
  ASSUME IInv, NEW s, NEW c, Carried(s, c), NEW h, NEW f, NEW r \in Matching(h, f),
         Spares(Requests, r)
  PROVE  \E n \in Matching(h, f)' : n.id = r.id /\ Spares(Requests', n)
<1>1. c \in Writes /\ c \in Requests /\ zone' \in Outcomes(c) /\ \A d \in Requests' : d \in Requests
  BY DEF Carried
<1>2. r \in zone /\ r.name = h /\ r.type = f /\ ~(c.op = "delete" /\ c.id = r.id)
  BY <1>1 DEF Matching, Spares
<1>3. PICK n \in zone' : n.id = r.id /\ n.name = r.name /\ n.type = r.type
  BY <1>1, <1>2, CarriedOut
<1> QED
  BY <1>1, <1>2, <1>3 DEF Matching, Spares

\* Nobody refers to the id of a new record.
LEMMA FreshIsSpared ==
  ASSUME NEW n, n.id \in FreshIds
  PROVE  Spares(Requests, n)
<1>1. \A c \in Requests : c.id \in IdsInUse
  BY DEF Requests, IdsInUse
<1> QED
  BY <1>1 DEF FreshIds, Spares

\* A listed host's target is what its link answers.
LEMMA TargetIsWanted ==
  ASSUME IInv, NEW s \in Syncers, DetectInv, Listed(s)
  PROVE  \A f \in Families : job[s].target[f] = Wanted(job[s].host, f)
<1>1. Coherent(job[s]) /\ job[s].host # None
  BY JobFacts DEF Coherent, Listed, Requesting
<1>2. job[s].pc = "hosts" /\ GroupOf[job[s].host] = job[s].group
  BY <1>1 DEF Coherent
<1> QED
  BY <1>2 DEF DetectInv, Wanted, Families

\* The requests that are abandoned concern other hosts than the one listed.
LEMMA LateIsElsewhere ==
  ASSUME IInv, NEW s, Syncers = {s}, OrderInv, Listed(s), NEW q \in late
  PROVE  q.call \in Writes /\ q.call.name # job[s].host
<1>1. q.call \in Writes /\ q.call \in Requests /\ q.call.op # "list"
  BY DEF IInv, TypeOK, Requests, Writes
<1>2. Order(job[s]) /\ ListedFirst(s)
  BY DEF OrderInv
<1>3. job[s].pc # "killed" /\ job[s].host \notin Seen(job[s])
  BY <1>2, ListedSees
<1> QED
  BY <1>1, <1>2, <1>3 DEF ListedFirst

\* No step of a single run removes the last record of a wanted family.
LEMMA AddressStep ==
  ASSUME IInv, NEW s, Syncers = {s}, s \notin Daemons, OrderInv, DetectInv, AddressInv,
         [Next]_vars, ~HandEdit, ~LinkChanges
  PROVE  /\ AddressInv'
         /\ \A h \in Hosts, f \in Families :
              Matching(h, f) # {} /\ Matching(h, f)' = {} => Wanted(h, f) = Absent
<1>1. link' = link
  BY DEF Next, vars, Cycle, Attempt, World, Abandoned, StartCycle, NextGroup, DetectIPv4,
     DetectIPv6, NextHost, GroupDone, EndCycle, Listed, Answered, NotFound, Failed, Crash,
     HandEdit, ManageHosts, Land, Lose
<1>2. Order(job[s]) /\ s \in Syncers
  BY DEF OrderInv
<1> SUFFICES ASSUME NEW h \in Hosts, NEW f \in Families, Wanted(h, f) # Absent
             PROVE  /\ Matching(h, f)' # {} =>
                         \E r \in Matching(h, f)' : Spares(Requests', r)
                    /\ Matching(h, f) # {} => Matching(h, f)' # {}
  BY <1>1 DEF AddressInv, Wanted
<1>3. Matching(h, f) # {} => \E r \in Matching(h, f) : Spares(Requests, r)
  BY DEF AddressInv
<1>4. CASE Calm(s)
  <2>1. Matching(h, f)' = Matching(h, f)
    BY <1>4 DEF Calm, Matching
  <2>2. \A r : Spares(Requests, r) => Spares(Requests', r)
    BY <1>4 DEF Calm, Spares
  <2> QED
    BY <1>3, <2>1, <2>2
<1>5. ASSUME NEW c, Carried(s, c)
      PROVE  /\ Matching(h, f)' # {} =>
                  \E r \in Matching(h, f)' : Spares(Requests', r)
             /\ Matching(h, f) # {} => Matching(h, f)' # {}
  <2>1. c \in Writes /\ c \in Requests /\ zone' \in Outcomes(c)
        /\ \A d \in Requests' : d \in Requests
    BY <1>5 DEF Carried
  <2>2. CASE Matching(h, f) # {}
    BY <1>3, <1>5, <2>2, SparedSurvives
  <2>3. CASE Matching(h, f) = {}
    <3>1. ASSUME NEW n \in Matching(h, f)'
          PROVE  n.id \in FreshIds
      <4>1. n \in zone' /\ n.name = h /\ n.type = f
        BY <3>1 DEF Matching
      <4>2. ~ \E r \in zone : n.id = r.id /\ n.name = r.name /\ n.type = r.type
        BY <2>3, <4>1 DEF Matching
      <4> QED
        BY <2>1, <4>1, <4>2, CarriedOut
    <3>2. \A n \in Matching(h, f)' : Spares(Requests', n)
      BY <2>1, <3>1, FreshIsSpared DEF Spares
    <3> QED
      BY <2>3, <3>2
  <2> QED
    BY <2>2, <2>3
<1>6. CASE Listed(s)
  <2>1. Matching(h, f)' = Matching(h, f) /\ ZoneOK
    BY <1>2, <1>6, ListedSees DEF Matching, IInv, TypeOK, ZoneOK
  <2> DEFINE calls == job'[s].calls
  <2>2. \A c \in Requests' : c \in ToSet(calls) \/ (c \in Requests /\ c.name # job[s].host)
    BY <1>2, <1>6, ListedAdds, LateIsElsewhere
  <2>3. \A c \in ToSet(calls) :
          /\ c.name = job[s].host
          /\ c.op = "delete" => \E r \in Matching(job[s].host, c.type) : r.id = c.id
    BY <1>6, ListedRequests
  <2>4. \A c \in ToSet(calls) : c.op = "delete" => job[s].target[c.type] # Unknown
    BY <1>6, ListedRequests
  <2>5. CASE Matching(h, f) = {}
    BY <2>1, <2>5
  <2>6. CASE Matching(h, f) # {} /\ ~(h = job[s].host /\ job[s].target[f] # Unknown)
    <3>1. PICK r \in Matching(h, f) : Spares(Requests, r)
      BY <1>3, <2>6
    <3>2. \A c \in ToSet(calls) : c.op = "delete" => c.id # r.id
      <4>1. r \in zone /\ r.name = h /\ r.type = f
        BY DEF Matching
      <4>2. \A c \in ToSet(calls) : c.op = "delete" =>
              \E n \in zone : n.id = c.id /\ n.name = job[s].host /\ n.type = c.type
        BY <2>3 DEF Matching
      <4>3. \A n \in zone : n.id = r.id => n = r
        BY <2>1, <4>1 DEF ZoneOK
      <4> HIDE DEF calls
      <4> QED
        BY <2>4, <2>6, <4>1, <4>2, <4>3
    <3>3. Spares(Requests', r)
      BY <2>2, <3>1, <3>2 DEF Spares
    <3> QED
      BY <2>1, <3>3
  <2>7. CASE Matching(h, f) # {} /\ h = job[s].host /\ job[s].target[f] # Unknown
    <3>1. job[s].target[f] = Wanted(h, f)
      BY <1>6, <2>7, TargetIsWanted
    <3>2. Leads(ToSet(calls), calls, h, f, Wanted(h, f))
      BY <1>6, <2>7, <3>1, ListedRequests
    <3>3. PICK r \in Matching(h, f) : Spares(ToSet(calls), r)
      BY <2>7, <3>2 DEF Leads
    <3>4. \A c \in Requests : c.op = "delete" /\ c.id = r.id => c.name = h
      BY DEF IInv, RequestsNameOwnRecords, Matching
    <3>5. Spares(Requests', r)
      <4> HIDE DEF calls
      <4> QED
        BY <2>2, <2>7, <3>3, <3>4 DEF Spares
    <3> QED
      BY <2>1, <3>5
  <2> QED
    BY <2>5, <2>6, <2>7
<1> QED
  BY <1>2, <1>4, <1>5, <1>6, Steps

\* The families of one syncer's hosts keep their records: with one single run at
\* work, links that stand still and nobody editing by hand, no crash, repeated or
\* late request takes the last record of a family that has an address. Without
\* the first two the claim is false: the requests of two runs, or of one run made
\* for two states of a link, may delete what the other keeps.
THEOREM AddressesKept ==
  ASSUME Alone, Disturbances \cap {"link", "edit"} = {}
  PROVE  Spec => AddressKept
<1>1. PICK s : Syncers = {s} /\ s \notin Daemons
  BY DEF Alone, Syncers
<1>2. ~HandEdit /\ ~LinkChanges
  BY DEF HandEdit, LinkChanges, Disturb
<1> DEFINE Inv == OrderInv /\ DetectInv /\ AddressInv
<1>3. Init => Inv
  <2> SUFFICES ASSUME Init PROVE Inv
    OBVIOUS
  <2>1. OrderInv
    BY <1>1, OrderInit
  <2>2. DetectInv
    BY DEF Init, Idle, DetectInv
  <2>3. \A c : c \notin Requests
    BY DEF Init, Requests, Idle, ToSet
  <2>4. AddressInv
    BY <2>3 DEF AddressInv, Spares
  <2> QED
    BY <2>1, <2>2, <2>4
<1>4. IInv /\ Inv /\ [Next]_vars => Inv'
  BY <1>1, <1>2, OrderStep, DetectStep, AddressStep
<1>5. IInv /\ Inv /\ [Next]_vars =>
        [\A h \in Hosts, f \in Families :
           Matching(h, f) # {} /\ Matching(h, f)' = {}
             => link[LinkOf[GroupOf[h]]][f] = Absent]_vars
  BY <1>1, <1>2, AddressStep DEF Wanted
<1> HIDE DEF Inv
<1> QED
  BY <1>3, <1>4, <1>5, Invariance, PTL DEF Spec, AddressKept

---------------------------------------------------------------------------
(* The creation of records. *)

\* A record is asked to be created once, whoever still waits for the answer.
OnceInv ==
  /\ \A p, q \in late : SameCreate(p.call, q.call) => p = q
  /\ \A s \in Syncers :
       /\ Lone(job[s].calls)
       /\ \A c \in ToSet(job[s].calls), q \in late : ~SameCreate(c, q.call)

\* Until it lands, the family it is for has none.
EmptyInv == \A c \in Requests : c.op = "create" => Matching(c.name, c.type) = {}

\* The steps of a cycle ask for listings only.
LEMMA CycleLists ==
  ASSUME IInv, NEW s, Syncers = {s}, Cycle(s)
  PROVE  late' = late /\ \A c \in ToSet(job'[s].calls) : c.op = "list"
<1>1. s \in Syncers /\ job[s].host = None
  BY JobFacts DEF Cycle, StartCycle, NextGroup, DetectIPv4, DetectIPv6, NextHost, GroupDone,
     EndCycle, Coherent
<1>2. job[s] \in Jobs /\ job[s].calls = <<>> /\ job \in [Syncers -> Jobs] /\ ToSet(<<>>) = {}
  BY <1>1, NothingRequested DEF IInv, TypeOK
<1>3. late' = late
  BY DEF Cycle, StartCycle, NextGroup, DetectIPv4, DetectIPv6, NextHost, GroupDone, EndCycle
<1>4. CASE StartCycle(s)
  <2>1. PICK hosts :
          job' = [job EXCEPT ![s] =
             IF hosts = {} THEN CycleOver(s, Idle)
             ELSE [Idle EXCEPT !.pc = "groups", !.asked = hosts, !.pending = hosts]]
    BY <1>4 DEF StartCycle
  <2>2. job'[s].calls = <<>>
    BY <1>1, <1>2, <2>1 DEF CycleOver, Idle
  <2> QED
    BY <1>2, <1>3, <2>2
<1>5. CASE NextGroup(s)
  <2>1. PICK g : job'[s] = TakeGroup(job[s], g)
    BY <1>1, <1>2, <1>5 DEF NextGroup
  <2>2. job'[s].calls = <<>>
    BY <1>2, <2>1 DEF TakeGroup, Jobs
  <2> QED
    BY <1>2, <1>3, <2>2
<1>6. CASE DetectIPv4(s)
  <2>1. PICK found : job'[s] = [job[s] EXCEPT !.pc = "ipv6", !.target["A"] = found]
    BY <1>1, <1>2, <1>6 DEF DetectIPv4
  <2>2. job'[s].calls = <<>>
    BY <1>2, <2>1 DEF Jobs
  <2> QED
    BY <1>2, <1>3, <2>2
<1>7. CASE DetectIPv6(s)
  <2>1. PICK failed, target :
          job'[s] = IF LeaveRecords(target) THEN LeaveGroup([job[s] EXCEPT !.failed = failed])
                    ELSE [[job[s] EXCEPT !.failed = failed] EXCEPT !.pc = "hosts",
                                                                 !.target = target]
    BY <1>1, <1>2, <1>7 DEF DetectIPv6
  <2>2. job'[s].calls = <<>>
    BY <1>2, <2>1 DEF LeaveGroup, Jobs
  <2> QED
    BY <1>2, <1>3, <2>2
<1>8. CASE NextHost(s)
  <2>1. PICK h : job'[s] = TakeHost(job[s], h)
    BY <1>1, <1>2, <1>8 DEF NextHost
  <2> DEFINE list == Call("list", h, None, None, None)
  <2>2. job'[s].calls = <<list>>
    BY <1>2, <2>1 DEF TakeHost, Jobs
  <2>3. list.op = "list"
    BY DEF Call
  <2> HIDE DEF list
  <2>4. ToSet(<<list>>) = {list}
    BY OneCall
  <2> QED
    BY <1>3, <2>2, <2>3, <2>4
<1>9. CASE GroupDone(s) \/ EndCycle(s)
  <2>1. job'[s] \in {LeaveGroup(job[s]), [job[s] EXCEPT !.pc = "exited"], Idle}
    BY <1>1, <1>2, <1>9 DEF GroupDone, EndCycle, CycleOver
  <2>2. /\ LeaveGroup(job[s]).calls = <<>>
        /\ [job[s] EXCEPT !.pc = "exited"].calls = <<>>
    BY <1>2 DEF LeaveGroup, Jobs
  <2>3. Idle.calls = <<>>
    BY DEF Idle
  <2> QED
    BY <1>2, <1>3, <2>1, <2>2, <2>3
<1> QED
  BY <1>4, <1>5, <1>6, <1>7, <1>8, <1>9 DEF Cycle

\* No request is abandoned and made again if it creates a record.
LEMMA OnceStep ==
  ASSUME IInv, NEW s, Syncers = {s}, s \notin Daemons, OrderInv, OnceInv, [Next]_vars,
         "server_error" \notin Disturbances
  PROVE  OnceInv'
<1> DEFINE calls == job[s].calls
           next  == job'[s].calls
<1>1. /\ s \in Syncers /\ \A t \in Syncers : t = s
      /\ Order(job[s])
  BY DEF OrderInv
<1>2. /\ job[s] \in Jobs /\ calls \in Seq(Calls) /\ job \in [Syncers -> Jobs]
      /\ next \in Seq(Calls)
  <2>1. job[s] \in Jobs /\ calls \in Seq(Calls) /\ job \in [Syncers -> Jobs]
    BY <1>1, JobFacts DEF IInv, TypeOK
  <2>2. IInv'
    BY NextInvariant
  <2>3. job'[s] \in Jobs
    BY <1>1, <2>2 DEF IInv, TypeOK
  <2>4. next \in Seq(Calls)
    BY <2>3 DEF Jobs
  <2> QED
    BY <2>1, <2>4
<1>3. /\ \A p, q \in late : SameCreate(p.call, q.call) => p = q
      /\ Lone(calls)
      /\ \A c \in ToSet(calls), q \in late : ~SameCreate(c, q.call)
  BY <1>1 DEF OnceInv
<1>4. SUFFICES /\ \A p, q \in late' : SameCreate(p.call, q.call) => p = q
               /\ Lone(next)
               /\ \A c \in ToSet(next), q \in late' : ~SameCreate(c, q.call)
  BY <1>1 DEF OnceInv
<1>5. \A c, d : SameCreate(c, d) => SameCreate(d, c) /\ c.op = "create"
  BY DEF SameCreate
<1>6. ASSUME \A c \in ToSet(next) : c.op # "create"
      PROVE  Lone(next) /\ \A c \in ToSet(next), q \in late' : ~SameCreate(c, q.call)
  <2>1. \A i \in 1 .. Len(next) : next[i] \in ToSet(next)
    BY <1>2, CallSets
  <2> QED
    BY <1>5, <1>6, <2>1 DEF Lone
<1>7. ASSUME Requesting(s), late' \in {late, Adrift(Current(s))}
      PROVE  \A p, q \in late' : SameCreate(p.call, q.call) => p = q
  <2>1. Current(s) \in ToSet(calls)
    BY <1>1, <1>7, CurrentFacts
  <2>2. CASE late' = late
    BY <1>3, <2>2
  <2>3. CASE late' = Adrift(Current(s)) /\ Current(s).op # "list"
    <3>1. late' = late \cup {[no |-> budget, call |-> Current(s)]}
      BY <2>3 DEF Adrift
    <3>2. \A p \in late' : p \in late \/ p = [no |-> budget, call |-> Current(s)]
      BY <3>1
    <3>3. \A q \in late : ~SameCreate(Current(s), q.call) /\ ~SameCreate(q.call, Current(s))
      BY <1>3, <1>5, <2>1
    <3> QED
      BY <1>3, <3>2, <3>3
  <2>4. CASE late' = Adrift(Current(s)) /\ Current(s).op = "list"
    BY <1>3, <2>4 DEF Adrift
  <2> QED
    BY <1>7, <2>2, <2>3, <2>4
<1>8. CASE Cycle(s)
  <2>1. late' = late /\ \A c \in ToSet(next) : c.op # "create"
    BY <1>8, CycleLists
  <2> QED
    BY <1>3, <1>6, <2>1
<1>9. CASE Listed(s)
  <2>1. /\ late' = late /\ Lone(next)
        /\ \A c \in ToSet(next) : c.name = job[s].host
    BY <1>1, <1>9, ListedSees, ListedRequests
  <2>2. \A q \in late : q.call.name # job[s].host
    BY <1>9, LateIsElsewhere
  <2> QED
    BY <1>3, <2>1, <2>2 DEF SameCreate
<1>10. CASE Answered(s)
  <2>1. late' = late /\ job' = [job EXCEPT ![s] = Proceed(job[s], Tail(calls))] /\ calls # <<>>
    BY <1>10 DEF Answered, Requesting
  <2>2. next = Tail(calls)
    BY <1>1, <1>2, <2>1 DEF Proceed, Jobs
  <2> HIDE DEF next, calls
  <2>3. /\ Len(calls) \in Nat /\ Len(next) = Len(calls) - 1
        /\ \A i \in 1 .. Len(calls) - 1 : next[i] = calls[i + 1]
        /\ ToSet(next) \subseteq ToSet(calls)
    BY <1>2, <2>1, <2>2, CallSets
  <2>4. Lone(next)
    <3> SUFFICES ASSUME NEW i \in 1 .. Len(next), NEW k \in 1 .. Len(next),
                        SameCreate(next[i], next[k])
                 PROVE  i = k
      BY DEF Lone
    <3>1. i + 1 \in 1 .. Len(calls) /\ k + 1 \in 1 .. Len(calls)
      BY <2>3
    <3>2. SameCreate(calls[i + 1], calls[k + 1])
      BY <2>3
    <3>3. i + 1 = k + 1
      BY <1>3, <3>1, <3>2 DEF Lone
    <3> QED
      BY <2>3, <3>3
  <2> QED
    BY <1>3, <2>1, <2>3, <2>4
<1>11. CASE NotFound(s) \/ Crash(s)
  <2>1. /\ late' = late \/ (Requesting(s) /\ late' = Adrift(Current(s)))
        /\ next = <<>> /\ (NotFound(s) => Requesting(s))
    <3>1. job'[s] \in {Raise(job[s]), Idle, [Idle EXCEPT !.pc = "killed"]}
      BY <1>1, <1>2, <1>11 DEF NotFound, Crash
    <3>2. next = <<>>
      <4>1. Raise(job[s]).calls = <<>>
        BY <1>2 DEF Raise, Jobs
      <4>2. Idle.calls = <<>> /\ [Idle EXCEPT !.pc = "killed"].calls = <<>>
        BY DEF Idle
      <4> QED
        BY <3>1, <4>1, <4>2
    <3> QED
      BY <1>11, <3>2 DEF NotFound, Crash
  <2>2. ToSet(next) = {}
    BY <2>1 DEF ToSet
  <2> QED
    BY <1>3, <1>6, <1>7, <2>1, <2>2
<1>12. ASSUME NEW kind \in FailureKinds, Failed(s, kind)
       PROVE  /\ \A p, q \in late' : SameCreate(p.call, q.call) => p = q
              /\ Lone(next)
              /\ \A c \in ToSet(next), q \in late' : ~SameCreate(c, q.call)
  <2>1. /\ Requesting(s) /\ late' \in {late, Adrift(Current(s))} /\ kind # "server_error"
        /\ job' = [job EXCEPT ![s] = AfterFailure(job[s], kind)]
    BY <1>12 DEF Failed, Disturb
  <2>2. \A p, q \in late' : SameCreate(p.call, q.call) => p = q
    BY <1>7, <2>1
  <2>3. CASE job'[s] = Raise(job[s])
    <3>1. next = <<>>
      BY <1>2, <2>3 DEF Raise, Jobs
    <3>2. ToSet(next) = {}
      BY <3>1 DEF ToSet
    <3> QED
      BY <1>6, <2>2, <3>2
  <2>4. CASE job'[s] # Raise(job[s])
    <3>1. /\ Retriable(Current(s), kind)
          /\ job'[s] = [job[s] EXCEPT !.tries = @ + 1]
      BY <1>1, <1>2, <2>1, <2>4 DEF AfterFailure, Current
    <3>2. next = calls
      BY <1>2, <3>1 DEF Jobs
    <3>3. late' = late \/ (Current(s).op # "create" /\ late' = Adrift(Current(s)))
      BY <1>12, <2>1, <3>1 DEF Retriable, Failed, MayLand
    <3>4. \A q \in late' : q \in late \/ q.call.op # "create"
      BY <3>3 DEF Adrift
    <3> QED
      BY <1>3, <1>5, <2>2, <3>2, <3>4
  <2> QED
    BY <2>3, <2>4
<1>13. CASE job' = job /\ late' \subseteq late
  BY <1>3, <1>13
<1>14. CASE Abandoned \/ LinkChanges \/ HandEdit \/ ManageHosts \/ UNCHANGED vars
  BY <1>13, <1>14 DEF Abandoned, Land, Lose, LinkChanges, HandEdit, ManageHosts, vars
<1> QED
  BY <1>1, <1>8, <1>9, <1>10, <1>11, <1>12, <1>14 DEF Next, Attempt, World

\* A request to create a record is made for a family that has none, and is gone
\* once the record is there.
LEMMA EmptyStep ==
  ASSUME IInv, NEW s, Syncers = {s}, s \notin Daemons, OrderInv, OnceInv, EmptyInv,
         [Next]_vars, ~HandEdit
  PROVE  /\ EmptyInv'
         /\ \A h \in Hosts, f \in Families : \A r \in Matching(h, f)' :
              Matching(h, f) # {} => \E q \in Matching(h, f) : q.id = r.id
<1>1. Order(job[s]) /\ s \in Syncers
  BY DEF OrderInv
<1>2. ASSUME zone' = zone
      PROVE  \A h, f : Matching(h, f)' = Matching(h, f)
  BY <1>2 DEF Matching
<1>3. CASE Calm(s)
  <2>1. \A c \in Requests' : c.op = "create" => c \in Requests
    BY <1>3 DEF Calm
  <2> QED
    BY <1>2, <1>3, <2>1 DEF EmptyInv, Calm
<1>4. CASE Listed(s)
  <2>1. zone' = zone
    BY <1>1, <1>4, ListedSees
  <2>2. \A c \in Requests' : c.op = "create" => Matching(c.name, c.type) = {}
    BY <1>1, <1>4, ListedAdds, ListedRequests DEF EmptyInv
  <2> QED
    BY <1>2, <2>1, <2>2 DEF EmptyInv
<1>5. ASSUME NEW c, Carried(s, c)
      PROVE  /\ EmptyInv'
             /\ \A h \in Hosts, f \in Families : \A r \in Matching(h, f)' :
                  Matching(h, f) # {} => \E q \in Matching(h, f) : q.id = r.id
  <2>1. /\ c \in Writes /\ c \in Requests /\ zone' \in Outcomes(c)
        /\ \A d \in Requests' : d \in Requests
    BY <1>5 DEF Carried
  <2>2. \A d \in Requests' : ~SameCreate(c, d)
    <3>1. \A d : d \in Requests' <=>
            d \in ToSet(job'[s].calls) \/ \E q \in late' : d = q.call
      BY RequestsOfOne
    <3>2. \A d, e : SameCreate(d, e) => SameCreate(e, d)
      BY DEF SameCreate
    <3>3. CASE Answered(s) /\ c = Current(s)
      <4> DEFINE calls == job[s].calls
      <4>1. job[s] \in Jobs /\ calls \in Seq(Calls) /\ job \in [Syncers -> Jobs]
        BY <1>1, JobFacts DEF IInv, TypeOK
      <4>2. late' = late /\ job'[s] = Proceed(job[s], Tail(calls)) /\ calls # <<>>
        BY <1>1, <3>3, <4>1 DEF Answered, Requesting
      <4>3. job'[s].calls = Tail(calls) /\ c = Head(calls)
        BY <3>3, <4>1, <4>2 DEF Proceed, Jobs, Current
      <4> HIDE DEF calls
      <4>4. /\ Head(calls) = calls[1] /\ Len(calls) \in Nat \ {0}
            /\ Len(Tail(calls)) = Len(calls) - 1
            /\ \A i \in 1 .. Len(calls) - 1 : Tail(calls)[i] = calls[i + 1]
            /\ \A i \in 1 .. Len(calls) : calls[i] \in ToSet(calls)
        BY <4>1, <4>2, CallSets
      <4>5. Lone(calls) /\ \A q \in late : ~SameCreate(c, q.call)
        <5>1. c \in ToSet(calls)
          BY <4>3, <4>4
        <5> QED
          BY <1>1, <5>1 DEF OnceInv, calls
      <4>6. ASSUME NEW d \in ToSet(Tail(calls))
            PROVE  ~SameCreate(c, d)
        <5>1. Tail(calls) \in Seq(Calls)
          BY <4>1, <4>2, HeadTailProperties
        <5>2. PICK i \in 1 .. Len(Tail(calls)) : d = Tail(calls)[i]
          BY <4>6, <5>1, CallSets
        <5>3. i + 1 \in 1 .. Len(calls) /\ d = calls[i + 1] /\ i + 1 # 1 /\ 1 \in 1 .. Len(calls)
          BY <4>4, <5>2
        <5> QED
          BY <4>3, <4>4, <4>5, <5>3 DEF Lone
      <4> QED
        BY <3>1, <4>2, <4>3, <4>5, <4>6
    <3>4. ASSUME NEW q \in late, Land(q), c = q.call
          PROVE  \A d \in Requests' : ~SameCreate(c, d)
      <4>1. late' = late \ {q} /\ job' = job
        BY <3>4 DEF Land
      <4>2. \A p \in late' : ~SameCreate(c, p.call)
        BY <3>4, <4>1 DEF OnceInv
      <4>3. \A d \in ToSet(job[s].calls) : ~SameCreate(c, d)
        BY <1>1, <3>2, <3>4 DEF OnceInv
      <4> QED
        BY <3>1, <4>1, <4>2, <4>3
    <3> QED
      BY <1>5, <3>3, <3>4 DEF Carried
  <2>3. ASSUME NEW h, NEW f, NEW n \in Matching(h, f)'
        PROVE  \/ \E r \in Matching(h, f) : r.id = n.id
               \/ c.op = "create" /\ c.name = h /\ c.type = f
    <3>1. n \in zone' /\ n.name = h /\ n.type = f
      BY <2>3 DEF Matching
    <3>2. \/ \E r \in zone : n.id = r.id /\ n.name = r.name /\ n.type = r.type
          \/ c.op = "create" /\ n.name = c.name /\ n.type = c.type
      BY <2>1, <3>1, CarriedOut
    <3> QED
      BY <3>1, <3>2 DEF Matching
  <2>4. EmptyInv'
    <3> SUFFICES ASSUME NEW d \in Requests', d.op = "create"
                 PROVE  Matching(d.name, d.type)' = {}
      BY DEF EmptyInv
    <3>1. Matching(d.name, d.type) = {} /\ ~SameCreate(c, d)
      BY <2>1, <2>2 DEF EmptyInv
    <3> QED
      BY <2>3, <3>1 DEF SameCreate
  <2>5. c.op = "create" => Matching(c.name, c.type) = {}
    BY <2>1 DEF EmptyInv
  <2> QED
    BY <2>3, <2>4, <2>5
<1> QED
  BY <1>1, <1>3, <1>4, <1>5, Steps

\* One run creates no duplicate: no step adds a record to a family that has one,
\* as long as nobody edits by hand and no gateway answers a POST with an error
\* after passing it on, which _request repeats. The links may change as they like.
THEOREM DuplicatesNotCreated ==
  ASSUME Alone, Disturbances \cap {"edit", "server_error"} = {}
  PROVE  Spec => NoNewDuplicates
<1>1. PICK s : Syncers = {s} /\ s \notin Daemons
  BY DEF Alone, Syncers
<1>2. ~HandEdit /\ "server_error" \notin Disturbances
  BY DEF HandEdit, Disturb
<1> DEFINE Inv == OrderInv /\ OnceInv /\ EmptyInv
<1>3. Init => Inv
  <2> SUFFICES ASSUME Init PROVE Inv
    OBVIOUS
  <2>1. OrderInv
    BY <1>1, OrderInit
  <2>2. Idle.calls = <<>> /\ ToSet(<<>>) = {} /\ Lone(<<>>)
    BY DEF Idle, ToSet, Lone
  <2>3. OnceInv
    BY <2>2 DEF Init, OnceInv
  <2>4. EmptyInv
    BY <2>2 DEF Init, EmptyInv, Requests
  <2> QED
    BY <2>1, <2>3, <2>4
<1>4. IInv /\ Inv /\ [Next]_vars => Inv'
  BY <1>1, <1>2, OrderStep, OnceStep, EmptyStep
<1>5. IInv /\ Inv /\ [Next]_vars =>
        [\A h \in Hosts, f \in Families : \A r \in Matching(h, f)' :
           Matching(h, f) # {} => \E q \in Matching(h, f) : q.id = r.id]_vars
  BY <1>1, <1>2, EmptyStep
<1> HIDE DEF Inv
<1> QED
  BY <1>3, <1>4, <1>5, Invariance, PTL DEF Spec, NoNewDuplicates

---------------------------------------------------------------------------
(* The report of one run. *)

\* What is asked to be written is what the link answers.
ContentInv ==
  \A c \in Requests : c.op \in {"create", "update"} => c.content = Wanted(c.name, c.type)

\* What is still requested for a host that is listed and not reported leads to
\* what its link answers.
ProgressInv ==
  \A s \in Syncers : \A h \in Settled(job[s]), f \in Families :
    Leads(Requests, job[s].calls, h, f, Wanted(h, f))

\* The provider spells an address in its own way, but as the same address.
SpellsBack == \A c \in Contents : Denotes[Stored[c]] = Denotes[c]

\* A single run creates and updates records with the address of the link only.
LEMMA ContentStep ==
  ASSUME IInv, NEW s, Syncers = {s}, s \notin Daemons, OrderInv, DetectInv, ContentInv,
         [Next]_vars, link' = link, ~HandEdit
  PROVE  ContentInv'
<1> SUFFICES ASSUME NEW c \in Requests', c.op \in {"create", "update"}
             PROVE  c.content = Wanted(c.name, c.type)
  BY DEF ContentInv, Wanted
<1>1. Order(job[s]) /\ s \in Syncers
  BY DEF OrderInv
<1>2. CASE c \in Requests
  BY <1>2 DEF ContentInv
<1>3. CASE Listed(s) /\ c \in ToSet(job'[s].calls)
  <2>1. c \in Writes /\ c.name = job[s].host /\ c.content = job[s].target[c.type]
    BY <1>1, <1>3, ListedRequests
  <2>2. c.type \in Families
    BY <2>1 DEF Writes
  <2> QED
    BY <1>1, <1>3, <2>1, <2>2, TargetIsWanted
<1>4. c \in Requests \/ (Listed(s) /\ c \in ToSet(job'[s].calls))
  BY <1>1, Steps, ListedAdds DEF Calm, Carried
<1> QED
  BY <1>2, <1>3, <1>4

\* A record just written has not drifted.
LEMMA WrittenIsRight ==
  ASSUME SpellsBack, NEW c \in Writes, c.op # "delete", NEW i
  PROVE  ~Drifted(c.name, RecordFor(c, i), c.content)
<1>1. c.content \in Contents /\ c.name \in Hosts
  BY DEF Writes
<1> QED
  BY <1>1 DEF SpellsBack, Drifted, RecordFor, DesiredTtl

\* A write that is carried out brings its family on,
LEMMA CarriedLeads ==
  ASSUME IInv, NEW s, NEW c, Carried(s, c), SpellsBack, EmptyInv, ContentInv,
         link' = link, NEW h \in Hosts, NEW f \in Families,
         Leads(Requests, job[s].calls, h, f, Wanted(h, f))
  PROVE  Leads(Requests, job[s].calls, h, f, Wanted(h, f))'
<1> DEFINE t     == Wanted(h, f)
           M     == Matching(h, f)
           calls == job[s].calls
           next  == job'[s].calls
<1>1. /\ c \in Writes /\ c \in Requests /\ zone' \in Outcomes(c)
      /\ \A d \in Requests' : d \in Requests
      /\ \A d \in ToSet(calls) : d = c \/ d \in ToSet(next)
  BY DEF Carried
<1>2. /\ \A r \in zone : ~(c.op = "delete" /\ c.id = r.id) =>
           \E n \in zone' :
             /\ n.id = r.id /\ n.name = r.name /\ n.type = r.type
             /\ \/ n = r /\ ~(c.op = "update" /\ c.id = r.id)
                \/ c.op = "update" /\ c.id = r.id /\ n = RecordFor(c, c.id)
      /\ c.op = "create" =>
           \E n \in zone' : /\ n.id \in FreshIds /\ n = RecordFor(c, n.id)
                            /\ n.name = c.name /\ n.type = c.type
                            /\ \A m \in zone' : m = n \/ m \in zone
  BY <1>1, CarriedOut
<1>3. ASSUME NEW n \in M'
      PROVE  \/ \E r \in M : n.id = r.id /\ ~(c.op = "delete" /\ c.id = r.id)
             \/ c.op = "create" /\ c.name = h /\ c.type = f
  <2>1. n \in zone' /\ n.name = h /\ n.type = f
    BY <1>3 DEF Matching
  <2>2. \/ \E r \in zone : /\ n.id = r.id /\ n.name = r.name /\ n.type = r.type
                           /\ ~(c.op = "delete" /\ c.id = r.id)
        \/ c.op = "create" /\ n.name = c.name /\ n.type = c.type
    BY <1>1, <2>1, CarriedOut
  <2> QED
    BY <2>1, <2>2 DEF Matching
<1>4. ASSUME NEW op, NEW id, Asks(calls, op, h, f, id), ~(c.op = op /\ c.id = id)
      PROVE  Asks(next, op, h, f, id)
  BY <1>1, <1>4 DEF Asks
<1>5. c.op # "delete" => c.content = Wanted(c.name, c.type)
  BY <1>1 DEF ContentInv, Writes
<1>6. c.op # "delete" /\ c.name = h /\ c.type = f =>
        /\ t \in Contents /\ t # Absent
        /\ \A i : ~Drifted(h, RecordFor(c, i), t)
  <2>1. c.op # "delete" => c.content \in Contents
    BY <1>1 DEF Writes
  <2> QED
    BY <1>1, <1>5, <2>1, WrittenIsRight, SpecialsAssumption
<1>7. Wanted(h, f)' = t
  BY DEF Wanted
<1>8. /\ t # Unknown
      /\ t = Absent => \A r \in M : Asks(calls, "delete", h, f, r.id)
      /\ t # Absent =>
           \/ M = {} /\ Asks(calls, "create", h, f, None)
           \/ \E r \in M :
                /\ Spares(Requests, r)
                /\ \A q \in M : q.id # r.id => Asks(calls, "delete", h, f, q.id)
                /\ Drifted(h, r, t) => Asks(calls, "update", h, f, r.id)
  BY DEF Leads
<1> HIDE DEF t, M, calls, next
<1>9. ASSUME t = Absent, NEW n \in M'
      PROVE  Asks(next, "delete", h, f, n.id)
  <2>1. PICK r \in M : n.id = r.id /\ ~(c.op = "delete" /\ c.id = r.id)
    BY <1>3, <1>6, <1>9
  <2> QED
    BY <1>4, <1>8, <1>9, <2>1
<1>10. ASSUME t # Absent, M = {}, Asks(calls, "create", h, f, None)
       PROVE  \/ M' = {} /\ Asks(next, "create", h, f, None)
              \/ \E r \in M' :
                   /\ Spares(Requests', r)
                   /\ \A q \in M' : q.id # r.id => Asks(next, "delete", h, f, q.id)
                   /\ Drifted(h, r, t) => Asks(next, "update", h, f, r.id)
  <2>1. CASE c.op = "create" /\ c.name = h /\ c.type = f
    <3>1. PICK n \in zone' : /\ n.id \in FreshIds /\ n = RecordFor(c, n.id)
                             /\ n.name = c.name /\ n.type = c.type
                             /\ \A m \in zone' : m = n \/ m \in zone
      BY <1>2, <2>1
    <3>2. n \in M' /\ \A m \in M' : m = n
      BY <1>10, <2>1, <3>1 DEF M, Matching
    <3>3. Spares(Requests', n)
      BY <1>1, <3>1, FreshIsSpared DEF Spares
    <3>4. ~Drifted(h, n, t)
      BY <1>6, <2>1, <3>1
    <3> QED
      BY <3>2, <3>3, <3>4
  <2>2. CASE ~(c.op = "create" /\ c.name = h /\ c.type = f)
    <3>1. M' = {}
      BY <1>3, <1>10, <2>2
    <3>2. PICK d \in ToSet(calls) : d.op = "create" /\ d.name = h /\ d.type = f /\ d.id = None
      BY <1>10 DEF Asks
    <3>3. d \in ToSet(next)
      BY <1>1, <2>2, <3>2 DEF calls, next
    <3>4. Asks(next, "create", h, f, None)
      BY <3>2, <3>3 DEF Asks
    <3> QED
      BY <3>1, <3>4
  <2> QED
    BY <2>1, <2>2
<1>11. ASSUME t # Absent, NEW r \in M, Spares(Requests, r),
              \A q \in M : q.id # r.id => Asks(calls, "delete", h, f, q.id),
              Drifted(h, r, t) => Asks(calls, "update", h, f, r.id)
       PROVE  \E n \in M' :
                /\ Spares(Requests', n)
                /\ \A q \in M' : q.id # n.id => Asks(next, "delete", h, f, q.id)
                /\ Drifted(h, n, t) => Asks(next, "update", h, f, n.id)
  <2>1. r \in zone /\ r.name = h /\ r.type = f /\ ~(c.op = "delete" /\ c.id = r.id)
    BY <1>1, <1>11 DEF M, Matching, Spares
  <2>2. PICK n \in zone' : /\ n.id = r.id /\ n.name = r.name /\ n.type = r.type
                           /\ \/ n = r /\ ~(c.op = "update" /\ c.id = r.id)
                              \/ c.op = "update" /\ c.id = r.id /\ n = RecordFor(c, c.id)
    BY <1>2, <2>1
  <2>3. n \in M' /\ Spares(Requests', n)
    BY <1>1, <1>11, <2>1, <2>2 DEF M, Matching, Spares
  <2>4. ~(c.op = "create" /\ c.name = h /\ c.type = f)
    BY <1>1 DEF EmptyInv, M
  <2>5. ASSUME NEW q \in M', q.id # n.id
        PROVE  Asks(next, "delete", h, f, q.id)
    <3>1. PICK o \in M : q.id = o.id /\ ~(c.op = "delete" /\ c.id = o.id)
      BY <1>3, <2>4
    <3>2. Asks(calls, "delete", h, f, o.id)
      BY <1>11, <2>2, <2>5, <3>1
    <3> QED
      BY <1>4, <3>1, <3>2
  <2>6. ASSUME Drifted(h, n, t)
        PROVE  Asks(next, "update", h, f, n.id)
    <3>1. CASE n = r /\ ~(c.op = "update" /\ c.id = r.id)
      BY <1>4, <1>11, <2>6, <3>1
    <3>2. CASE c.op = "update" /\ c.id = r.id /\ n = RecordFor(c, c.id)
      <4>1. c.name = h /\ c.type = f
        BY <2>1, <2>2, <3>2 DEF RecordFor
      <4> QED
        BY <1>6, <2>6, <3>2, <4>1
    <3> QED
      BY <2>2, <3>1, <3>2
  <2> QED
    BY <2>3, <2>5, <2>6
<1>12. /\ t # Unknown
       /\ t = Absent => \A r \in M' : Asks(next, "delete", h, f, r.id)
       /\ t # Absent =>
            \/ M' = {} /\ Asks(next, "create", h, f, None)
            \/ \E r \in M' :
                 /\ Spares(Requests', r)
                 /\ \A q \in M' : q.id # r.id => Asks(next, "delete", h, f, q.id)
                 /\ Drifted(h, r, t) => Asks(next, "update", h, f, r.id)
  <2>1. t # Absent => \/ M' = {} /\ Asks(next, "create", h, f, None)
                      \/ \E r \in M' :
                           /\ Spares(Requests', r)
                           /\ \A q \in M' : q.id # r.id => Asks(next, "delete", h, f, q.id)
                           /\ Drifted(h, r, t) => Asks(next, "update", h, f, r.id)
    BY <1>8, <1>10, <1>11
  <2> QED
    BY <1>8, <1>9, <2>1
<1> QED
  BY <1>7, <1>12 DEF Leads, t, M, next

\* and every other step leaves it where it is.
LEMMA ProgressStep ==
  ASSUME IInv, NEW s, Syncers = {s}, s \notin Daemons, SpellsBack, OrderInv, DetectInv,
         EmptyInv, ContentInv, ProgressInv, [Next]_vars, link' = link, ~HandEdit
  PROVE  ProgressInv'
<1>1. Order(job[s]) /\ s \in Syncers
  BY DEF OrderInv
<1> SUFFICES ASSUME NEW h \in Settled(job'[s]), NEW f \in Families
             PROVE  Leads(Requests, job[s].calls, h, f, Wanted(h, f))'
  BY <1>1 DEF ProgressInv
<1>2. h \in Hosts /\ Settled(job[s]) \subseteq Hosts
  <2>1. job[s] \in Jobs
    BY <1>1 DEF IInv, TypeOK
  <2>2. job'[s] \in Jobs
    BY <1>1, NextInvariant DEF IInv, TypeOK
  <2> QED
    BY <2>1, <2>2 DEF Settled, Seen, Jobs
<1> DEFINE t     == Wanted(h, f)
           calls == job[s].calls
           next  == job'[s].calls
<1>3. t' = t
  BY DEF Wanted
<1>4. h \in Settled(job[s]) => Leads(Requests, calls, h, f, t)
  BY <1>1 DEF ProgressInv
<1>5. CASE Calm(s)
  <2>1. h \in Settled(job[s]) /\ Matching(h, f)' = Matching(h, f)
    BY <1>5 DEF Calm, Matching
  <2>2. \A c \in ToSet(calls) : c.op # "list" /\ c.name = h => c \in ToSet(next)
    BY <1>5 DEF Calm
  <2> HIDE DEF calls, next, t
  <2>3. \A op, id : op # "list" /\ Asks(calls, op, h, f, id) => Asks(next, op, h, f, id)
    BY <2>2 DEF Asks
  <2>4. \A r : Spares(Requests, r) => Spares(Requests', r)
    BY <1>5 DEF Calm, Spares
  <2> QED
    BY <1>3, <1>4, <2>1, <2>3, <2>4 DEF Leads, t, next
<1>6. CASE \E c : Carried(s, c)
  <2>1. PICK c : Carried(s, c)
    BY <1>6
  <2>2. h \in Settled(job[s])
    BY <2>1 DEF Carried
  <2> QED
    BY <1>2, <1>4, <2>1, <2>2, CarriedLeads
<1>7. ASSUME Listed(s), h # job[s].host
      PROVE  Leads(Requests, job[s].calls, h, f, Wanted(h, f))'
  <2>1. /\ zone' = zone /\ h \in Settled(job[s])
        /\ \A c \in ToSet(calls) : c.op = "list"
    BY <1>1, <1>7, ListedSees
  <2>2. Matching(h, f)' = Matching(h, f)
    BY <2>1 DEF Matching
  <2>3. \A op, id : op # "list" => ~Asks(calls, op, h, f, id)
    BY <2>1 DEF Asks
  <2>4. ASSUME NEW r \in Matching(h, f), Spares(Requests, r)
        PROVE  Spares(Requests', r)
    <3>1. r \in zone /\ r.name = h
      BY DEF Matching
    <3>2. \A c \in ToSet(next) : c.op = "delete" =>
            \E n \in zone : n.id = c.id /\ n.name = job[s].host
      BY <1>1, <1>7, ListedRequests DEF Matching
    <3>3. \A n \in zone : n.id = r.id => n = r
      BY <3>1 DEF IInv, TypeOK
    <3>4. \A c \in Requests' : c \in ToSet(next) \/ c \in Requests
      BY <1>1, <1>7, ListedAdds
    <3> HIDE DEF next
    <3> QED
      BY <1>7, <2>4, <3>1, <3>2, <3>3, <3>4 DEF Spares
  <2> HIDE DEF calls, next, t
  <2> QED
    BY <1>3, <1>4, <2>1, <2>2, <2>3, <2>4 DEF Leads, t
<1>8. ASSUME Listed(s), h = job[s].host
      PROVE  Leads(Requests, job[s].calls, h, f, Wanted(h, f))'
  <2>1. zone' = zone /\ job[s].target[f] # Unknown
    BY <1>1, <1>8, ListedSees
  <2>2. Matching(h, f)' = Matching(h, f)
    BY <2>1 DEF Matching
  <2>3. job[s].target[f] = t
    BY <1>1, <1>8, TargetIsWanted
  <2>4. Leads(ToSet(next), next, h, f, t)
    BY <1>1, <1>8, <2>1, <2>3, ListedRequests
  <2>5. ASSUME NEW r \in Matching(h, f), Spares(ToSet(next), r)
        PROVE  Spares(Requests', r)
    <3>1. \A c \in Requests : c.op = "delete" /\ c.id = r.id => c.name = h
      BY DEF IInv, RequestsNameOwnRecords, Matching
    <3>2. \A c \in Requests' : c \in ToSet(next) \/ (c \in Requests /\ c.name # h)
      BY <1>1, <1>8, ListedAdds, LateIsElsewhere
    <3> HIDE DEF next
    <3> QED
      BY <2>5, <3>1, <3>2 DEF Spares
  <2> HIDE DEF calls, next, t
  <2> QED
    BY <1>3, <2>2, <2>4, <2>5 DEF Leads, t, next
<1> QED
  BY <1>1, <1>5, <1>6, <1>7, <1>8, Steps

\* When the run has exited, nothing is left to be requested.
LEMMA ExitedMatches ==
  ASSUME IInv, NEW s \in Syncers, OrderInv, ProgressInv, job[s].pc = "exited",
         NEW h \in job[s].asked \ job[s].failed
  PROVE  HostMatches(h)
<1>1. job[s] \in Jobs /\ Coherent(job[s]) /\ Order(job[s])
  BY JobFacts DEF OrderInv
<1>2. job[s].calls = <<>> /\ job[s].pending = {} /\ job[s].members = {}
  BY <1>1 DEF Coherent, Order
<1>3. h \in Settled(job[s]) /\ ToSet(job[s].calls) = {}
  BY <1>2 DEF Settled, Seen, ToDo, Listing, ToSet
<1>4. SUFFICES ASSUME NEW f \in Families PROVE FamilyMatches(h, f)
  BY DEF HostMatches
<1>5. Leads(Requests, job[s].calls, h, f, Wanted(h, f))
  BY <1>3 DEF ProgressInv
<1>6. \A op, id : ~Asks(job[s].calls, op, h, f, id)
  BY <1>3 DEF Asks
<1>7. CASE Wanted(h, f) = Absent
  <2>1. Matching(h, f) = {}
    BY <1>5, <1>6, <1>7 DEF Leads
  <2> QED
    BY <1>7, <2>1, SpecialsAssumption DEF FamilyMatches, Wanted
<1>8. CASE Wanted(h, f) # Absent
  <2>1. PICK r \in Matching(h, f) : /\ \A q \in Matching(h, f) : q.id = r.id
                                    /\ ~Drifted(h, r, Wanted(h, f))
    BY <1>5, <1>6, <1>8 DEF Leads
  <2>2. \A q \in Matching(h, f) : q = r
    BY <2>1 DEF Matching, IInv, TypeOK
  <2>3. Matching(h, f) = {r}
    BY <2>2
  <2>4. Cardinality(Matching(h, f)) = 1
    BY <2>3, FS_Singleton
  <2>5. Wanted(h, f) # Unknown
    BY <1>5 DEF Leads
  <2> QED
    BY <1>8, <2>1, <2>2, <2>4, <2>5 DEF FamilyMatches, Wanted
<1> QED
  BY <1>7, <1>8

\* The exit code of a single run can be trusted, for any number of hosts, groups,
\* links and failures: every host it was asked to sync and did not report has
\* exactly the records its link calls for, if the links stand still, nobody edits
\* by hand, and no gateway answers a POST with an error after passing it on.
THEOREM ReportTrusted ==
  ASSUME Alone, SpellsBack, Disturbances \cap {"link", "edit", "server_error"} = {}
  PROVE  Spec => []UnreportedHostsMatch
<1>1. PICK s : Syncers = {s} /\ s \notin Daemons
  BY DEF Alone, Syncers
<1>2. ~HandEdit /\ ~LinkChanges /\ "server_error" \notin Disturbances
  BY DEF HandEdit, LinkChanges, Disturb
<1>3. [Next]_vars => link' = link
  BY <1>2 DEF Next, vars, Cycle, Attempt, World, Abandoned, StartCycle, NextGroup, DetectIPv4,
     DetectIPv6, NextHost, GroupDone, EndCycle, Listed, Answered, NotFound, Failed, Crash,
     HandEdit, ManageHosts, Land, Lose
<1> DEFINE Inv == /\ OrderInv /\ DetectInv /\ OnceInv /\ EmptyInv /\ ContentInv
                  /\ ProgressInv
<1>4. Init => Inv
  <2> SUFFICES ASSUME Init PROVE Inv
    OBVIOUS
  <2>1. OrderInv
    BY <1>1, OrderInit
  <2>2. Idle.calls = <<>> /\ ToSet(<<>>) = {} /\ Lone(<<>>) /\ Idle.asked = {}
    BY DEF Idle, ToSet, Lone
  <2>3. DetectInv
    BY DEF Init, Idle, DetectInv
  <2>4. \A c : c \notin Requests
    BY <2>2 DEF Init, Requests
  <2>5. OnceInv
    BY <2>2 DEF Init, OnceInv
  <2>6. Settled(Idle) = {}
    BY <2>2 DEF Settled, Seen
  <2> QED
    BY <2>1, <2>3, <2>4, <2>5, <2>6 DEF Init, EmptyInv, ContentInv, ProgressInv
<1>5. IInv /\ Inv /\ [Next]_vars => Inv'
  BY <1>1, <1>2, <1>3, OrderStep, DetectStep, OnceStep, EmptyStep, ContentStep, ProgressStep
<1>6. IInv /\ Inv => UnreportedHostsMatch
  BY <1>1, ExitedMatches DEF UnreportedHostsMatch, Syncers
<1> HIDE DEF Inv
<1> QED
  BY <1>4, <1>5, <1>6, Invariance, PTL DEF Spec

---------------------------------------------------------------------------
(* What one run promises. *)

\* A write is requested only when its host's link has answered for its family,
\* and is not offline.
AssertedInv ==
  \A c \in Requests : c.op # "list" =>
    Wanted(c.name, c.type) # Unknown /\ \E f \in Families : Wanted(c.name, f) # Absent

\* A host that is done has the records it is to have.
DoneInv == \A h \in Hosts : Stages[h] = "done" => Promise!Fits(h)

\* The values of the refinement mapping.
LEMMA Mapped ==
  /\ \A h \in Hosts : Stages[h] = StageOf(job[Runner], h)
  /\ \A h \in Hosts, f \in Families : /\ Wants[h][f] = Want(h, f)
                                      /\ Holdings[h][f] = Held(h, f)
  /\ \A h, f : /\ Want(h, f) = "unknown" <=> Wanted(h, f) = Unknown
               /\ Want(h, f) = "none" <=> Wanted(h, f) = Absent
               /\ Want(h, f) = "one" <=> Wanted(h, f) \notin {Absent, Unknown}
BY SpecialsAssumption DEF Stages, Wants, Holdings, Want

\* One run requests what detection has asserted.
LEMMA AssertedStep ==
  ASSUME IInv, NEW s, Syncers = {s}, s \notin Daemons, OrderInv, DetectInv, AssertedInv,
         [Next]_vars, link' = link, ~HandEdit
  PROVE  AssertedInv'
<1> SUFFICES ASSUME NEW c \in Requests', c.op # "list"
             PROVE  /\ Wanted(c.name, c.type) # Unknown
                    /\ \E f \in Families : Wanted(c.name, f) # Absent
  BY DEF AssertedInv, Wanted
<1>1. Order(job[s]) /\ s \in Syncers
  BY DEF OrderInv
<1>2. CASE c \in Requests
  BY <1>2 DEF AssertedInv
<1>3. CASE Listed(s) /\ c \in ToSet(job'[s].calls)
  <2>1. c.name = job[s].host /\ c.type \in Families /\ job[s].target[c.type] # Unknown
    BY <1>1, <1>3, ListedRequests DEF Writes
  <2>2. \E f \in Families : job[s].target[f] # Absent
    BY <1>1, <1>3, JobFacts DEF Coherent, Listed, Requesting
  <2> QED
    BY <1>1, <1>3, <2>1, <2>2, TargetIsWanted
<1>4. c \in Requests \/ (Listed(s) /\ c \in ToSet(job'[s].calls))
  BY <1>1, Steps, ListedAdds DEF Calm, Carried
<1> QED
  BY <1>2, <1>3, <1>4

\* Of a host that is done nothing is requested, so its records are there.
LEMMA DoneFits ==
  ASSUME IInv, NEW s, Syncers = {s}, Runner = s, ProgressInv
  PROVE  DoneInv
<1> SUFFICES ASSUME NEW h \in Hosts, Stages[h] = "done", NEW f \in Families
             PROVE  \/ Wants[h][f] = "one" /\ \E i \in Ids : Holdings[h][f] = {Promise!Right(i)}
                    \/ Wants[h][f] = "none" /\ Holdings[h][f] = {}
  BY DEF DoneInv, Promise!Fits
<1>1. s \in Syncers /\ StageOf(job[s], h) = "done"
  BY Mapped
<1>2. h \in Settled(job[s]) /\ h # job[s].host
  BY <1>1 DEF StageOf, Settled, Seen
<1>3. \A op, id : ~Asks(job[s].calls, op, h, f, id)
  BY <1>1, <1>2, JobFacts DEF Asks, Coherent
<1>4. Leads(Requests, job[s].calls, h, f, Wanted(h, f))
  BY <1>1, <1>2 DEF ProgressInv
<1>5. CASE Wanted(h, f) = Absent
  <2>1. Matching(h, f) = {}
    BY <1>3, <1>4, <1>5 DEF Leads
  <2> QED
    BY <1>5, <2>1, Mapped DEF Held
<1>6. CASE Wanted(h, f) # Absent
  <2>1. PICK r \in Matching(h, f) : /\ \A q \in Matching(h, f) : q.id = r.id
                                    /\ ~Drifted(h, r, Wanted(h, f))
    BY <1>3, <1>4, <1>6 DEF Leads
  <2>2. \A q \in Matching(h, f) : q = r
    BY <2>1 DEF Matching, IInv, TypeOK
  <2>3. Want(h, f) = "one"
    BY <1>4, <1>6, Mapped DEF Leads
  <2>4. Held(h, f) = {Promise!Right(r.id)}
    BY <2>1, <2>2, <2>3 DEF Held, Promise!Right
  <2>5. r.id \in Ids
    BY DEF Matching, IInv, TypeOK, Records
  <2> QED
    BY <2>3, <2>4, <2>5, Mapped
<1> QED
  BY <1>5, <1>6

\* A write changes the records of its own host and family only,
LEMMA WriteIsLocal ==
  ASSUME IInv, NEW c \in Writes, c \in Requests, zone' \in Outcomes(c),
         NEW h, NEW f, ~(h = c.name /\ f = c.type)
  PROVE  Matching(h, f)' = Matching(h, f)
<1>1. c.op # "create" => \A r \in zone : r.id = c.id => r.name = c.name /\ r.type = c.type
  BY DEF IInv, RequestsNameOwnRecords, Writes
<1>2. \A i : RecordFor(c, i).name = c.name /\ RecordFor(c, i).type = c.type
  BY DEF RecordFor
<1>3. ASSUME NEW n \in Matching(h, f)' PROVE n \in Matching(h, f)
  BY <1>2, <1>3, CarriedOut DEF Matching
<1>4. ASSUME NEW r \in Matching(h, f) PROVE r \in Matching(h, f)'
  <2>1. r \in zone /\ r.name = h /\ r.type = f
    BY <1>4 DEF Matching
  <2>2. ~(c.op \in {"update", "delete"} /\ c.id = r.id)
    BY <1>1, <2>1
  <2>3. r \in zone'
    BY <2>1, <2>2, CarriedOut
  <2> QED
    BY <2>1, <2>3 DEF Matching
<1> QED
  BY <1>3, <1>4

\* of which it creates the one there is to be,
LEMMA CreateCreates ==
  ASSUME IInv, SpellsBack, NEW c \in Writes, c \in Requests, zone' \in Outcomes(c),
         c.op = "create", EmptyInv, ContentInv, link' = link
  PROVE  /\ Want(c.name, c.type) = "one" /\ Held(c.name, c.type) = {}
         /\ \E i \in Ids : Held(c.name, c.type)' = {Promise!Right(i)}
<1>1. Matching(c.name, c.type) = {} /\ c.content = Wanted(c.name, c.type)
  BY DEF EmptyInv, ContentInv
<1>2. c.content \in Contents
  BY DEF Writes
<1>3. Want(c.name, c.type) = "one" /\ Want(c.name, c.type)' = "one"
  BY <1>1, <1>2, SpecialsAssumption, Mapped DEF Want, Wanted
<1>4. PICK i \in FreshIds : zone' = zone \cup {RecordFor(c, i)}
  BY DEF Outcomes
<1>5. Matching(c.name, c.type)' = {RecordFor(c, i)}
  BY <1>1, <1>4 DEF Matching, RecordFor
<1>6. ~Drifted(c.name, RecordFor(c, i), c.content) /\ RecordFor(c, i).id = i /\ i \in Ids
  BY WrittenIsRight DEF RecordFor, FreshIds
<1>7. Held(c.name, c.type)' = {Promise!Right(i)}
  BY <1>1, <1>3, <1>5, <1>6 DEF Held, Promise!Right, Wanted
<1> QED
  BY <1>1, <1>3, <1>6, <1>7 DEF Held

\* puts one right,
LEMMA UpdateUpdates ==
  ASSUME IInv, SpellsBack, NEW c \in Writes, c \in Requests, zone' \in Outcomes(c),
         c.op = "update", ContentInv, link' = link
  PROVE  \/ Held(c.name, c.type)' = Held(c.name, c.type)
         \/ /\ Want(c.name, c.type) = "one"
            /\ \E e \in Held(c.name, c.type) :
                 Held(c.name, c.type)' = (Held(c.name, c.type) \ {e}) \cup {Promise!Right(e.id)}
<1> DEFINE h == c.name
           f == c.type
           t == Wanted(h, f)
           n == RecordFor(c, c.id)
           Entry(r) == [id |-> r.id, right |-> ~Drifted(h, r, t)]
<1>1. c.content = t /\ c.content \in Contents
  BY DEF ContentInv, Writes
<1>2. Want(h, f) = "one" /\ Want(h, f)' = "one" /\ t' = t
  BY <1>1, SpecialsAssumption, Mapped DEF Want, Wanted
<1>3. /\ Held(h, f) = {Entry(r) : r \in Matching(h, f)}
      /\ Held(h, f)' = {Entry(r) : r \in Matching(h, f)'}
  BY <1>2 DEF Held
<1>4. zone' = {IF r.id = c.id THEN n ELSE r : r \in zone}
  BY DEF Outcomes
<1>5. /\ n.id = c.id /\ n.name = h /\ n.type = f /\ Entry(n) = Promise!Right(c.id)
  BY <1>1, WrittenIsRight DEF RecordFor, Promise!Right
<1>6. CASE \A r \in zone : r.id # c.id
  <2>1. Matching(h, f)' = Matching(h, f)
    BY <1>4, <1>6 DEF Matching
  <2> QED
    BY <1>3, <2>1
<1>7. CASE \E r \in zone : r.id = c.id
  <2>1. PICK r \in zone : r.id = c.id
    BY <1>7
  <2>2. r \in Matching(h, f)
    BY <2>1 DEF IInv, RequestsNameOwnRecords, Matching
  <2>3. \A q \in zone : q.id = c.id => q = r
    BY <2>1 DEF IInv, TypeOK
  <2> HIDE DEF n, h, f
  <2>4. Matching(h, f)' = (Matching(h, f) \ {r}) \cup {n}
    BY <1>4, <1>5, <2>1, <2>2, <2>3 DEF Matching
  <2>5. \A q \in Matching(h, f) : Entry(q) = Entry(r) => q = r
    BY <2>1, <2>3 DEF Matching
  <2> HIDE DEF Entry
  <2>6. Held(h, f)' = (Held(h, f) \ {Entry(r)}) \cup {Entry(n)}
    BY <1>3, <2>2, <2>4, <2>5
  <2>7. Entry(r) \in Held(h, f)
    BY <1>3, <2>2
  <2>8. Entry(n) = Promise!Right(Entry(r).id)
    BY <1>5, <2>1 DEF Entry
  <2> QED
    BY <1>2, <2>6, <2>7, <2>8 DEF h, f
<1> QED
  BY <1>6, <1>7

\* or deletes one that is not to be there, or not the last.
LEMMA DeleteDeletes ==
  ASSUME IInv, NEW c \in Writes, c \in Requests, zone' \in Outcomes(c),
         c.op = "delete", AssertedInv, link' = link,
         Matching(c.name, c.type) # {} /\ Matching(c.name, c.type)' = {} =>
           Wanted(c.name, c.type) = Absent
  PROVE  \/ Held(c.name, c.type)' = Held(c.name, c.type)
         \/ \E e \in Held(c.name, c.type) :
              /\ \/ Want(c.name, c.type) = "none"
                 \/ Want(c.name, c.type) = "one" /\ Held(c.name, c.type) # {e}
              /\ Held(c.name, c.type)' = Held(c.name, c.type) \ {e}
<1> DEFINE h == c.name
           f == c.type
           Entry(r) == [id |-> r.id,
                        right |-> Want(h, f) = "one" /\ ~Drifted(h, r, Wanted(h, f))]
<1>1. Want(h, f)' = Want(h, f) /\ Wanted(h, f)' = Wanted(h, f) /\ Wanted(h, f) # Unknown
  BY DEF Want, Wanted, AssertedInv
<1>2. /\ Held(h, f) = {Entry(r) : r \in Matching(h, f)}
      /\ Held(h, f)' = {Entry(r) : r \in Matching(h, f)'}
  BY <1>1 DEF Held
<1>3. zone' = {r \in zone : r.id # c.id}
  BY DEF Outcomes
<1>4. CASE \A r \in zone : r.id # c.id
  <2>1. Matching(h, f)' = Matching(h, f)
    BY <1>3, <1>4 DEF Matching
  <2> QED
    BY <1>2, <2>1
<1>5. CASE \E r \in zone : r.id = c.id
  <2>1. PICK r \in zone : r.id = c.id
    BY <1>5
  <2>2. r \in Matching(h, f)
    BY <2>1 DEF IInv, RequestsNameOwnRecords, Matching
  <2>3. \A q \in zone : q.id = c.id => q = r
    BY <2>1 DEF IInv, TypeOK
  <2> HIDE DEF h, f
  <2>4. Matching(h, f)' = Matching(h, f) \ {r}
    BY <1>3, <2>1, <2>2, <2>3 DEF Matching
  <2>5. \A q \in Matching(h, f) : Entry(q) = Entry(r) => q = r
    BY <2>1, <2>3 DEF Matching
  <2> HIDE DEF Entry
  <2>6. Held(h, f)' = Held(h, f) \ {Entry(r)}
    BY <1>2, <2>2, <2>4, <2>5
  <2>7. Entry(r) \in Held(h, f)
    BY <1>2, <2>2
  <2>8. Want(h, f) = "none" \/ (Want(h, f) = "one" /\ Held(h, f) # {Entry(r)})
    <3>1. CASE Wanted(h, f) = Absent
      BY <3>1, Mapped
    <3>2. CASE Wanted(h, f) # Absent
      <4>1. PICK q : q \in Matching(h, f)'
        BY <2>2, <3>2 DEF h, f
      <4>2. Entry(q) \in Held(h, f) /\ Entry(q) # Entry(r)
        BY <1>2, <2>4, <2>5, <4>1
      <4>3. Want(h, f) = "one"
        BY <1>1, <3>2, Mapped
      <4> QED
        BY <4>2, <4>3
    <3> QED
      BY <3>1, <3>2
  <2> QED
    BY <2>6, <2>7, <2>8 DEF h, f
<1> QED
  BY <1>4, <1>5

\* The mapping in the next state, when the links stand still.
LEMMA MappedNext ==
  ASSUME link' = link
  PROVE  /\ Wants' = Wants
         /\ \A h \in Hosts : Stages'[h] = StageOf(job'[Runner], h)
         /\ \A h \in Hosts, f \in Families : Holdings'[h][f] = Held(h, f)'
         /\ \A h \in Hosts, f \in Families :
              Matching(h, f)' = Matching(h, f) => Holdings'[h][f] = Holdings[h][f]
<1>1. Wants' = Wants
  BY DEF Wants, Want, Wanted
<1>2. \A h \in Hosts : Stages'[h] = StageOf(job'[Runner], h)
  BY DEF Stages
<1>3. \A h \in Hosts, f \in Families :
        Holdings'[h][f] = Held(h, f)' /\ Holdings[h][f] = Held(h, f)
  BY DEF Holdings
<1>4. ASSUME NEW h \in Hosts, NEW f \in Families, Matching(h, f)' = Matching(h, f)
      PROVE  Held(h, f)' = Held(h, f)
  BY <1>4 DEF Held, Want, Wanted
<1> QED
  BY <1>1, <1>2, <1>3, <1>4

\* A function that changes at no argument does not change.
LEMMA HeldStill ==
  ASSUME link' = link,
         \A h \in Hosts, f \in Families : Matching(h, f)' = Matching(h, f)
  PROVE  Holdings' = Holdings
BY DEF Holdings, Held, Want, Wanted

\* A step that neither lists nor writes reports hosts, or begins, ends or
\* kills the run.
LEMMA CalmPromised ==
  ASSUME IInv', NEW s \in Syncers, Runner = s, Calm(s), link' = link
  PROVE  [Promise!Next]_(Promise!vars)
<1> DEFINE j == job[s]
           J == job'[s]
<1>1. Wants' = Wants /\ Holdings' = Holdings
  BY MappedNext, HeldStill DEF Calm, Matching
<1>2. /\ Stages = [h \in Hosts |-> StageOf(j, h)]
      /\ Stages' = [h \in Hosts |-> StageOf(J, h)]
  BY DEF Stages
<1>3. J.asked \subseteq Hosts
  BY DEF IInv, TypeOK, Jobs
<1>4. Moved(j, J)
  BY DEF Calm
<1> HIDE DEF j, J
<1>5. CASE /\ ProgressOf(J) = ProgressOf(j)
           /\ \A h \in Hosts :
                \/ StageOf(J, h) = StageOf(j, h)
                \/ StageOf(j, h) \in {"waiting", "working"} /\ StageOf(J, h) = "reported"
  <2> DEFINE S == {h \in Hosts : StageOf(J, h) # StageOf(j, h)}
  <2>1. \A h \in S : Stages[h] \in {"waiting", "working"}
    BY <1>2, <1>5
  <2>2. Stages' = [h \in Hosts |-> IF h \in S THEN "reported" ELSE Stages[h]]
    BY <1>2, <1>5
  <2>3. Promise!Report(S)
    <3> HIDE DEF S
    <3> QED
      BY <1>1, <1>5, <2>1, <2>2 DEF Promise!Report, j, J
  <2>4. S \in SUBSET Hosts
    OBVIOUS
  <2> QED
    BY <2>3, <2>4 DEF Promise!Next
<1>6. CASE /\ ProgressOf(j) = "new"
           /\ ProgressOf(J) = IF J.asked = {} THEN "over" ELSE "going"
           /\ \A h \in Hosts : StageOf(J, h) = IF h \in J.asked THEN "waiting" ELSE "out"
  <2>1. Stages' = [h \in Hosts |-> IF h \in J.asked THEN "waiting" ELSE "out"]
    BY <1>2, <1>6
  <2>2. Promise!Start
    BY <1>1, <1>3, <1>6, <2>1 DEF Promise!Start, j, J
  <2> QED
    BY <2>2 DEF Promise!Next
<1>7. CASE /\ ProgressOf(j) = "going" /\ ProgressOf(J) = "over"
           /\ \A h \in Hosts : /\ StageOf(J, h) = StageOf(j, h)
                               /\ StageOf(j, h) \in {"out", "done", "reported"}
  <2>1. Stages' = Stages /\ \A h \in Hosts : Stages[h] \in {"out", "done", "reported"}
    BY <1>2, <1>7
  <2>2. Promise!End
    BY <1>1, <1>7, <2>1 DEF Promise!End, j, J
  <2> QED
    BY <2>2 DEF Promise!Next
<1>8. CASE /\ ProgressOf(j) = "going" /\ ProgressOf(J) = "killed"
           /\ \A h \in Hosts : StageOf(J, h) = "lost"
  <2>1. Stages' = [h \in Hosts |-> "lost"]
    BY <1>2, <1>8
  <2>2. Promise!Kill
    BY <1>1, <1>8, <2>1 DEF Promise!Kill, j, J
  <2> QED
    BY <2>2 DEF Promise!Next
<1> QED
  BY <1>4, <1>5, <1>6, <1>7, <1>8 DEF Moved

\* A listing decides on its host, if it has not been reported.
LEMMA ListedPromised ==
  ASSUME IInv, NEW s, Syncers = {s}, Runner = s, Order(job[s]), DetectInv, Listed(s),
         link' = link, DoneInv'
  PROVE  [Promise!Next]_(Promise!vars)
<1>1. Wants' = Wants /\ Holdings' = Holdings
  BY ListedSees, MappedNext, HeldStill DEF Matching
<1>2. ProgressOf(job'[Runner]) = ProgressOf(job[Runner])
  BY ListedSees DEF ProgressOf
<1>3. \A k \in Hosts : /\ Stages[k] = StageOf(job[s], k)
                       /\ Stages'[k] = StageOf(job'[s], k)
  BY MappedNext, Mapped
<1>4. Stages' = [k \in Hosts |-> Stages'[k]] /\ Stages = [k \in Hosts |-> Stages[k]]
  BY DEF Stages
<1>5. CASE \A k \in Hosts : Stages'[k] = Stages[k]
  <2>1. Stages' = Stages
    BY <1>4, <1>5
  <2> QED
    BY <1>1, <1>2, <2>1 DEF Promise!vars
<1>6. CASE \E k \in Hosts : Stages'[k] # Stages[k]
  <2>1. PICK h \in Hosts : Stages'[h] # Stages[h]
    BY <1>6
  <2>2. /\ h = job[s].host /\ Stages[h] = "waiting" /\ h \in Settled(job'[s])
        /\ Stages'[h] \in {"working", "done"}
        /\ \A k \in Hosts : k # h => Stages'[k] = Stages[k]
    BY <1>3, <2>1, ListedSees
  <2>3. /\ \A f \in Families : Wanted(h, f) # Unknown
        /\ \E f \in Families : Wanted(h, f) # Absent
    <3>1. \A f \in Families : job[s].target[f] = Wanted(h, f)
      BY <2>2, TargetIsWanted
    <3>2. \A f \in Families : job[s].target[f] # Unknown
      BY <2>2, ListedSees
    <3>3. \E f \in Families : job[s].target[f] # Absent
      BY JobFacts DEF Coherent, Listed, Requesting
    <3> QED
      BY <3>1, <3>2, <3>3
  <2>4. Promise!Known(h) /\ Promise!Connected(h)
    BY <2>3, Mapped DEF Promise!Known, Promise!Connected
  <2>5. CASE Stages'[h] = "working"
    <3>1. Stages' = [Stages EXCEPT ![h] = "working"]
      BY <1>4, <2>2, <2>5
    <3>2. Promise!Decide(h)
      BY <1>1, <1>2, <2>2, <2>4, <3>1 DEF Promise!Decide
    <3> QED
      BY <3>2 DEF Promise!Next
  <2>6. CASE Stages'[h] = "done"
    <3>1. Stages' = [Stages EXCEPT ![h] = "done"]
      BY <1>4, <2>2, <2>6
    <3>2. Promise!Fits(h)'
      BY <2>6 DEF DoneInv
    <3>3. Promise!Decide(h)
      BY <1>1, <1>2, <2>2, <2>4, <3>1, <3>2 DEF Promise!Decide, Promise!Done
    <3> QED
      BY <3>3 DEF Promise!Next
  <2> QED
    BY <2>2, <2>5, <2>6
<1> QED
  BY <1>5, <1>6

\* A request the server carries out writes to its host, or confirms what is
\* there, and never reaches one that is done.
LEMMA CarriedPromised ==
  ASSUME IInv, NEW s, Syncers = {s}, Runner = s, NEW c, Carried(s, c), link' = link,
         SpellsBack, OrderInv, EmptyInv, ContentInv, AssertedInv, DoneInv, DoneInv',
         \A h \in Hosts, f \in Families :
           Matching(h, f) # {} /\ Matching(h, f)' = {} => Wanted(h, f) = Absent
  PROVE  [Promise!Next]_(Promise!vars)
<1> DEFINE h == c.name
           f == c.type
<1>1. /\ c \in Writes /\ c \in Requests /\ zone' \in Outcomes(c) /\ c.op # "list"
      /\ h \in Hosts /\ f \in Families /\ job'[s].pc = job[s].pc
  BY DEF Carried, Writes
<1>2. Wants' = Wants /\ ProgressOf(job'[Runner]) = ProgressOf(job[Runner])
  BY <1>1, MappedNext DEF ProgressOf
<1>3. /\ Stages' = [k \in Hosts |-> Stages'[k]] /\ Stages = [k \in Hosts |-> Stages[k]]
      /\ Holdings' = [k \in Hosts |-> [g \in Families |-> Holdings'[k][g]]]
      /\ Holdings = [k \in Hosts |-> [g \in Families |-> Holdings[k][g]]]
  BY DEF Stages, Holdings
<1>4. \A k \in Hosts : /\ Stages[k] = StageOf(job[s], k)
                       /\ Stages'[k] = StageOf(job'[s], k)
  BY MappedNext, Mapped
<1>5. \/ Stages' = Stages
      \/ Stages[h] = "working" /\ Stages' = [Stages EXCEPT ![h] = "done"] /\ Promise!Fits(h)'
  <2>1. \A k \in Hosts : \/ Stages'[k] = Stages[k]
                         \/ k = h /\ Stages[k] = "working" /\ Stages'[k] = "done"
    BY <1>4 DEF Carried
  <2> HIDE DEF h
  <2>2. CASE Stages'[h] = Stages[h]
    BY <1>3, <2>1, <2>2
  <2>3. CASE Stages[h] = "working" /\ Stages'[h] = "done"
    <3>1. Stages' = [Stages EXCEPT ![h] = "done"]
      BY <1>3, <2>1, <2>3
    <3>2. Promise!Fits(h)'
      BY <1>1, <2>3 DEF DoneInv
    <3> QED
      BY <2>3, <3>1, <3>2
  <2> QED
    BY <1>1, <2>1, <2>2, <2>3
<1>6. Stages[h] \in {"working", "reported", "lost", "done"}
  <2>1. job[s].pc # "killed" => h \in Seen(job[s])
    BY <1>1 DEF OrderInv, ListedFirst
  <2> QED
    BY <1>1, <1>4, <2>1 DEF Seen, StageOf
<1>7. Promise!Connected(h)
  <2>1. \E g \in Families : Wanted(h, g) # Absent
    BY <1>1 DEF AssertedInv
  <2> QED
    BY <1>1, <2>1, Mapped DEF Promise!Connected
<1>8. \A k \in Hosts, g \in Families :
        ~(k = h /\ g = f) => Holdings'[k][g] = Holdings[k][g]
  BY <1>1, WriteIsLocal, MappedNext
<1>9. Holdings[h][f] = Held(h, f) /\ Holdings'[h][f] = Held(h, f)' /\ Wants[h][f] = Want(h, f)
  BY <1>1, MappedNext, Mapped
<1>10. \/ Holdings'[h][f] = Holdings[h][f]
       \/ /\ Wants[h][f] = "one" /\ Holdings[h][f] = {}
          /\ \E i \in Ids : Holdings'[h][f] = {Promise!Right(i)}
       \/ /\ Wants[h][f] = "one"
          /\ \E e \in Holdings[h][f] :
               Holdings'[h][f] = (Holdings[h][f] \ {e}) \cup {Promise!Right(e.id)}
       \/ \E e \in Holdings[h][f] :
            /\ Wants[h][f] = "none" \/ (Wants[h][f] = "one" /\ Holdings[h][f] # {e})
            /\ Holdings'[h][f] = Holdings[h][f] \ {e}
  <2>1. CASE c.op = "create"
    BY <1>1, <1>9, <2>1, CreateCreates
  <2>2. CASE c.op = "update"
    BY <1>1, <1>9, <2>2, UpdateUpdates
  <2>3. CASE c.op = "delete"
    BY <1>1, <1>9, <2>3, DeleteDeletes
  <2> QED
    BY <1>1, <2>1, <2>2, <2>3 DEF Writes
<1> HIDE DEF h, f
<1>11. Holdings' = [Holdings EXCEPT ![h][f] = Holdings'[h][f]]
  BY <1>1, <1>3, <1>8
<1>12. CASE Holdings'[h][f] = Holdings[h][f]
  <2>1. Holdings' = Holdings
    BY <1>3, <1>8, <1>12
  <2>2. CASE Stages' = Stages
    BY <1>2, <2>1, <2>2 DEF Promise!vars
  <2>3. CASE Stages[h] = "working" /\ Stages' = [Stages EXCEPT ![h] = "done"] /\ Promise!Fits(h)'
    <3>1. Promise!Finish(h)
      BY <1>2, <2>1, <2>3 DEF Promise!Finish, Promise!Done
    <3> QED
      BY <1>1, <3>1 DEF Promise!Next
  <2> QED
    BY <1>5, <2>2, <2>3
<1>13. CASE Holdings'[h][f] # Holdings[h][f]
  <2>1. Stages[h] # "done"
    <3> SUFFICES ASSUME Stages[h] = "done" PROVE FALSE
      OBVIOUS
    <3>1. \/ Wants[h][f] = "one" /\ \E i \in Ids : Holdings[h][f] = {Promise!Right(i)}
          \/ Wants[h][f] = "none" /\ Holdings[h][f] = {}
      BY <1>1 DEF DoneInv, Promise!Fits
    <3>2. PICK i \in Ids : Wants[h][f] = "one" /\ Holdings[h][f] = {Promise!Right(i)}
      BY <1>10, <1>13, <3>1
    <3>3. \A e \in Holdings[h][f] : e = Promise!Right(i) /\ e.id = i
      BY <3>2 DEF Promise!Right
    <3> QED
      BY <1>10, <1>13, <3>2, <3>3
  <2>2. Promise!Create(h, f) \/ Promise!Update(h, f) \/ Promise!Delete(h, f)
    BY <1>10, <1>11, <1>13 DEF Promise!Create, Promise!Update, Promise!Delete
  <2>3. Promise!Write(h)
    BY <1>1, <1>2, <1>5, <1>6, <1>7, <2>1, <2>2 DEF Promise!Write, Promise!Done
  <2> QED
    BY <1>1, <2>3 DEF Promise!Next
<1> QED
  BY <1>12, <1>13

\* A single run keeps its promise, for any number of hosts, groups and links and
\* however its requests fail, are repeated or land late: it implements
\* SyncPromise, if the links stand still, nobody edits by hand, and no gateway
\* answers a POST with an error after passing it on.
THEOREM RunKept ==
  ASSUME Alone, SpellsBack, Disturbances \cap {"link", "edit", "server_error"} = {}
  PROVE  Spec => RunPromised
<1>1. PICK s : Syncers = {s} /\ s \notin Daemons /\ OneShots = {s}
  BY DEF Alone, Syncers
<1>2. Runner = s
  BY <1>1 DEF Runner
<1>3. ~HandEdit /\ ~LinkChanges /\ "server_error" \notin Disturbances
  BY DEF HandEdit, LinkChanges, Disturb
<1>4. [Next]_vars => link' = link
  BY <1>3 DEF Next, vars, Cycle, Attempt, World, Abandoned, StartCycle, NextGroup, DetectIPv4,
     DetectIPv6, NextHost, GroupDone, EndCycle, Listed, Answered, NotFound, Failed, Crash,
     HandEdit, ManageHosts, Land, Lose
<1> DEFINE Inv == /\ OrderInv /\ DetectInv /\ AddressInv /\ OnceInv /\ EmptyInv
                  /\ ContentInv /\ ProgressInv /\ AssertedInv
<1>5. ASSUME Init PROVE Inv /\ Promise!Init
  <2>1. OrderInv
    BY <1>1, <1>5, OrderInit
  <2>2. /\ Idle.calls = <<>> /\ ToSet(<<>>) = {} /\ Lone(<<>>) /\ Idle.asked = {}
        /\ Idle.pc = "idle"
    BY DEF Idle, ToSet, Lone
  <2>3. job[s] = Idle /\ late = {} /\ s \in Syncers
    BY <1>1, <1>5 DEF Init
  <2>4. DetectInv
    BY <1>5 DEF Init, Idle, DetectInv
  <2>5. \A c : c \notin Requests
    BY <1>5, <2>2 DEF Init, Requests
  <2>6. OnceInv
    BY <1>5, <2>2 DEF Init, OnceInv
  <2>7. Settled(Idle) = {}
    BY <2>2 DEF Settled, Seen
  <2>8. Inv
    BY <1>5, <2>1, <2>4, <2>5, <2>6, <2>7
    DEF Init, AddressInv, Spares, EmptyInv, ContentInv, ProgressInv, AssertedInv
  <2>9. Stages = [h \in Hosts |-> "out"] /\ ProgressOf(job[Runner]) = "new"
    BY <1>2, <2>2, <2>3 DEF Stages, StageOf, ProgressOf
  <2>10. Wants \in [Hosts -> [Families -> {"one", "none", "unknown"}]]
    BY DEF Wants, Want
  <2>11. Holdings \in [Hosts -> [Families -> SUBSET [id : Ids, right : BOOLEAN]]]
    <3>1. \A r \in zone : r.id \in Ids
      BY <1>5, InitInvariant DEF IInv, TypeOK, Records
    <3>2. ASSUME NEW h \in Hosts, NEW f \in Families, NEW e \in Held(h, f)
          PROVE  e \in [id : Ids, right : BOOLEAN]
      <4> DEFINE right(r) == Want(h, f) = "one" /\ ~Drifted(h, r, Wanted(h, f))
      <4>1. PICK r \in Matching(h, f) : e = [id |-> r.id, right |-> right(r)]
        BY <3>2 DEF Held
      <4>2. right(r) \in BOOLEAN /\ r.id \in Ids
        BY <3>1 DEF Matching
      <4> HIDE DEF right
      <4> QED
        BY <4>1, <4>2
    <3> QED
      BY <3>2 DEF Holdings
  <2> QED
    BY <2>8, <2>9, <2>10, <2>11 DEF Promise!Init
<1>6. IInv /\ Inv /\ [Next]_vars => Inv'
  BY <1>1, <1>3, <1>4, OrderStep, DetectStep, AddressStep, OnceStep, EmptyStep, ContentStep,
     ProgressStep, AssertedStep
<1>7. IInv /\ Inv => DoneInv
  BY <1>1, <1>2, DoneFits
<1>8. ASSUME IInv, IInv', Inv, DoneInv, DoneInv', [Next]_vars
      PROVE  [Promise!Next]_(Promise!vars)
  <2>1. Order(job[s]) /\ s \in Syncers /\ link' = link
    BY <1>1, <1>4, <1>8 DEF OrderInv
  <2>2. Calm(s) \/ (\E c : Carried(s, c)) \/ Listed(s)
    BY <1>1, <1>3, <1>8, <2>1, Steps
  <2>3. \A h \in Hosts, f \in Families :
          Matching(h, f) # {} /\ Matching(h, f)' = {} => Wanted(h, f) = Absent
    BY <1>1, <1>3, <1>8, AddressStep
  <2>4. ASSUME NEW c, Carried(s, c) PROVE [Promise!Next]_(Promise!vars)
    BY <1>1, <1>2, <1>8, <2>1, <2>3, <2>4, CarriedPromised
  <2> QED
    BY <1>1, <1>2, <1>8, <2>1, <2>2, <2>4, CalmPromised, ListedPromised
<1> HIDE DEF Inv
<1> QED
  BY <1>5, <1>6, <1>7, <1>8, Invariance, PTL DEF Spec, RunPromised, Promise!Spec
=============================================================================
