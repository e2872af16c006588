------------------------------ MODULE DnsSync ------------------------------
(***************************************************************************)
(* The sync engine of cloudflare-register: SyncService.run_once walks the  *)
(* interface groups, detects the public addresses of each group's link,    *)
(* and reconcile_host brings the DNS records of every member into line     *)
(* through the Cloudflare provider, one HTTP request at a time.            *)
(*                                                                         *)
(* A syncer is one process running the engine: the daemon (`service`, or   *)
(* `sync --loop`) or a one-shot (`sync --once` from cron, or the TUI).  All *)
(* of them write the same zone, and nothing but the zone connects them.    *)
(* Each action below is what a syncer does between two awaits.             *)
(***************************************************************************)
EXTENDS Integers, FiniteSets, SequencesExt

CONSTANTS
  Hosts,            \* hostnames (HostConfig.hostname)
  InitialHosts,     \* the hosts in hosts.json at first
  Groups,           \* interface groups, the default group among them
  GroupOf,          \* [Hosts -> Groups]: HostConfig.interface_group
  Links,            \* uplinks: the default route and named interfaces
  DefaultLink,      \* the default route, the link of every unbound group
  LinkOf,           \* [Groups -> Links]: InterfaceGroup.interface_name
  Addrs,            \* [Families -> SUBSET Contents]: public addresses
  Contents,         \* record contents: addresses, and other spellings of them
  Denotes,          \* [Contents -> Contents]: the address a content spells
  Stored,           \* [Contents -> Contents]: how the provider spells it back
  Proxied,          \* [Hosts -> BOOLEAN]: HostConfig.proxied
  Ttl,              \* [Hosts -> Ttls]: HostConfig.ttl
  Ttls,             \* TTL values, 1 ("automatic") among them
  Ids,              \* record ids the provider can hand out
  InitialZones,     \* the zones a run may start from
  Edits,            \* [type, content, proxied, ttl] an operator may write by hand
  Daemons,          \* syncers in run_forever
  OneShots,         \* syncers that run one cycle and exit
  MaxRetries,       \* _MAX_RETRIES, the attempts of one request
  Disturbances,     \* which of AllDisturbances the environment may cause
  MaxDisturbances,  \* bound: how many of them one behaviour may contain,
  Unbounded,        \* except for failures of these kinds, which have no bound
  Absent,           \* a family with no address (Python's None)
  Unknown,          \* a family whose detection failed (UNKNOWN_ADDRESS)
  None

Families == {"A", "AAAA"}
RecordTypes == Families \cup {"TXT"}
Syncers == Daemons \cup OneShots

\* How one attempt of a request can fail: before it reached the server, with
\* no answer in time, with a 429, with a retried 5xx, with a refusal, with a
\* success whose body cannot be used.
FailureKinds ==
  {"connect", "timeout", "rate_limit", "server_error", "rejected", "garbled"}
AllDisturbances == FailureKinds \cup {"crash", "link", "edit", "manage"}

Records == [id : Ids, name : Hosts, type : RecordTypes, content : Contents,
            proxied : BOOLEAN, ttl : Ttls]
ListCalls == [op : {"list"}, name : Hosts, type : {None}, id : {None}, content : {None}]
Writes ==
  [op : {"create"}, name : Hosts, type : Families, id : {None}, content : Contents]
    \cup [op : {"update"}, name : Hosts, type : Families, id : Ids, content : Contents]
    \cup [op : {"delete"}, name : Hosts, type : Families, id : Ids, content : {None}]
Calls == ListCalls \cup Writes

ASSUME SpecialsAssumption ==
  /\ Absent # Unknown
  /\ {Absent, Unknown} \cap Contents = {}
  /\ None \notin Ids \cup Hosts \cup Groups \cup Families
ASSUME ConfigAssumption ==
  /\ GroupOf \in [Hosts -> Groups] /\ LinkOf \in [Groups -> Links]
  /\ InitialHosts \subseteq Hosts
  /\ Addrs \in [Families -> SUBSET Contents]
  /\ Denotes \in [Contents -> Contents] /\ Stored \in [Contents -> Contents]
  /\ Proxied \in [Hosts -> BOOLEAN] /\ Ttl \in [Hosts -> Ttls] /\ 1 \in Ttls
ASSUME ZonesAssumption ==
  /\ InitialZones \subseteq SUBSET Records
  /\ \A z \in InitialZones :
       IsFiniteSet(z) /\ \A r, q \in z : r.id = q.id => r = q
  /\ Edits \subseteq [type : Families, content : Contents, proxied : BOOLEAN, ttl : Ttls]
ASSUME BoundsAssumption ==
  /\ MaxRetries \in Nat \ {0} /\ MaxDisturbances \in Nat
  /\ Disturbances \subseteq AllDisturbances
  /\ Unbounded \subseteq {"connect", "rate_limit", "rejected"}

VARIABLES
  zone,     \* the records the provider holds
  managed,  \* the hosts in hosts.json
  link,     \* link[l][f]: what detecting family f over link l would answer
  up,       \* the named interfaces that exist and are up
  job,      \* job[s]: the local state of syncer s
  late,     \* requests whose syncer stopped waiting; they may still land
  budget    \* disturbances left

vars == <<zone, managed, link, up, job, late, budget>>

---------------------------------------------------------------------------
(* Requests and what they do to the zone. *)

Call(op, name, type, id, content) ==
  [op |-> op, name |-> name, type |-> type, id |-> id, content |-> content]

\* Cloudflare forces the TTL of a proxied record to automatic.
DesiredTtl(h) == IF Proxied[h] THEN 1 ELSE Ttl[h]

RecordFor(c, i) ==
  [id |-> i, name |-> c.name, type |-> c.type, content |-> Stored[c.content],
   proxied |-> Proxied[c.name], ttl |-> DesiredTtl(c.name)]

\* Ids nobody refers to: a provider never hands out an id twice, and an id
\* that everybody forgot cannot be told from a new one.
IdsInUse == {r.id : r \in zone}
              \cup (UNION {{c.id : c \in ToSet(job[s].calls)} : s \in Syncers})
              \cup {q.call.id : q \in late}
FreshIds == Ids \ IdsInUse

\* The zones the provider may be left with once it has carried out c.
Outcomes(c) ==
  CASE c.op = "list"   -> {zone}
    [] c.op = "create" -> {zone \cup {RecordFor(c, i)} : i \in FreshIds}
    [] c.op = "update" -> {{IF r.id = c.id THEN RecordFor(c, c.id) ELSE r : r \in zone}}
    [] c.op = "delete" -> {{r \in zone : r.id # c.id}}

\* Bug: list_records without its type split.
BugMatching(h, f) == {r \in zone : r.name = h}
\* Bug: list_records without the name filter.
BugMatchingName(h, f) == {r \in zone : r.type = f}

Matching(h, f) == {r \in zone : r.name = h /\ r.type = f}

\* Bug: addresses compared as text.
BugDrifted(h, r, content) ==
  \/ r.content # content
  \/ r.proxied # Proxied[h]
  \/ ~Proxied[h] /\ r.ttl # DesiredTtl(h)

\* The comparison that decides whether the kept record needs an update.
Drifted(h, r, content) ==
  \/ Denotes[r.content] # Denotes[content]
  \/ r.proxied # Proxied[h]
  \/ ~Proxied[h] /\ r.ttl # DesiredTtl(h)

\* Bug: duplicates are not deleted.
BugPlanDuplicates(h, f, content, listed) ==
  IF content = Unknown THEN <<>>
  ELSE IF listed = <<>>
  THEN IF content = Absent THEN <<>> ELSE <<Call("create", h, f, None, content)>>
  ELSE IF content = Absent THEN <<Call("delete", h, f, listed[1].id, None)>>
  ELSE IF Drifted(h, listed[1], content)
  THEN <<Call("update", h, f, listed[1].id, content)>>
  ELSE <<>>

\* Bug: a drifted record is deleted and created anew.
BugPlanRecreate(h, f, content, listed) ==
  LET Del(i) == Call("delete", h, f, listed[i].id, None)
      all    == [i \in DOMAIN listed |-> Del(i)]
      forKept ==
        IF content = Absent THEN <<>>
        ELSE IF listed # <<>> /\ ~Drifted(h, listed[1], content) THEN <<>>
        ELSE <<Call("create", h, f, None, content)>>
  IN  IF content = Unknown THEN <<>>
      ELSE IF content # Absent /\ forKept = <<>> THEN Tail(all) ELSE all \o forKept

\* The requests reconcile_host makes for one family, in program order, given
\* the records list_records returned for it.
PlanFamily(h, f, content, listed) ==
  LET Del(r)  == Call("delete", h, f, r.id, None)
      extras  == [i \in 1 .. Len(listed) - 1 |-> Del(listed[i + 1])]
      forKept ==
        IF listed = <<>>
        THEN IF content = Absent THEN <<>> ELSE <<Call("create", h, f, None, content)>>
        ELSE IF content = Absent THEN <<Del(listed[1])>>
        ELSE IF Drifted(h, listed[1], content)
        THEN <<Call("update", h, f, listed[1].id, content)>>
        ELSE <<>>
  IN  IF content = Unknown THEN <<>> ELSE extras \o forKept

---------------------------------------------------------------------------
(* The local state of a syncer. *)

NoTarget == [f \in Families |-> Unknown]
Idle == [pc |-> "idle", asked |-> {}, pending |-> {}, group |-> None,
         source |-> {}, target |-> NoTarget, members |-> {}, host |-> None,
         calls |-> <<>>, tries |-> 0, failed |-> {}]

LeaveGroup(j) == [j EXCEPT !.pc = "groups", !.group = None, !.source = {},
                           !.target = NoTarget, !.members = {}]

\* The request at the head of j.calls is done; a host ends with its last one.
Proceed(j, rest) == [j EXCEPT !.calls = rest, !.tries = 0,
                              !.host = IF rest = <<>> THEN None ELSE @]

\* Bug: the error is caught but not recorded.
BugRaise(j) == [j EXCEPT !.calls = <<>>, !.tries = 0, !.host = None]

\* Bug: a failed host is tried again in the same cycle.
BugRaiseRequeue(j) == [j EXCEPT !.calls = <<>>, !.tries = 0, !.host = None,
                                !.members = @ \cup {j.host}]

\* reconcile_host raised: run_once records the error and goes on.
Raise(j) == [j EXCEPT !.calls = <<>>, !.tries = 0, !.host = None,
                      !.failed = @ \cup {j.host}]

Bound(g) == LinkOf[g] # DefaultLink

\* What _detect_family returns for family f of group g, given the families
\* the bound interface had an address of when it was resolved.
Detected(g, f, source) ==
  LET answer == link[LinkOf[g]][f]
  IN  IF ~Bound(g) THEN answer
      ELSE IF f \notin source THEN Absent
      ELSE IF LinkOf[g] \in up /\ answer # Absent THEN answer ELSE Unknown

---------------------------------------------------------------------------
(* One cycle of SyncService.run_once. *)

CycleOver(s, j) == IF s \in Daemons THEN Idle ELSE [j EXCEPT !.pc = "exited"]

\* The host list is read once, when the cycle starts; a one-shot may be asked
\* for one group only. With no hosts there is nothing to do.
StartCycle(s) ==
  /\ job[s].pc = "idle"
  /\ \E scope \in {Groups} \cup (IF s \in OneShots THEN {{g} : g \in Groups} ELSE {}) :
       LET hosts == {h \in managed : GroupOf[h] \in scope}
       IN  job' = [job EXCEPT ![s] =
             IF hosts = {} THEN CycleOver(s, Idle)
             ELSE [Idle EXCEPT !.pc = "groups", !.asked = hosts, !.pending = hosts]]
  /\ UNCHANGED <<zone, managed, link, up, late, budget>>

\* The job of a syncer that takes up group g: a group bound to an interface
\* that is missing or down is skipped, its hosts reported.
TakeGroup(j, g) ==
  LET hosts == {h \in j.pending : GroupOf[h] = g}
  IN  IF Bound(g) /\ LinkOf[g] \notin up
      THEN [j EXCEPT !.pending = @ \ hosts, !.failed = @ \cup hosts]
      ELSE [j EXCEPT !.pending = @ \ hosts, !.pc = "ipv4", !.group = g,
              !.members = hosts,
              !.source = {f \in Families : link[LinkOf[g]][f] # Absent}]

NextGroup(s) ==
  /\ job[s].pc = "groups"
  /\ \E g \in Groups :
       /\ \E h \in job[s].pending : GroupOf[h] = g
       /\ job' = [job EXCEPT ![s] = TakeGroup(@, g)]
  /\ UNCHANGED <<zone, managed, link, up, late, budget>>

DetectIPv4(s) ==
  /\ job[s].pc = "ipv4"
  /\ LET found == Detected(job[s].group, "A", job[s].source)
     IN  job' = [job EXCEPT ![s] = [@ EXCEPT !.pc = "ipv6", !.target["A"] = found]]
  /\ UNCHANGED <<zone, managed, link, up, late, budget>>

\* Bug: no guard against a link that is offline.
BugLeaveRecords(target) == \A f \in Families : target[f] = Unknown

\* After the second detection the group is left alone if both failed, or if
\* the link has no address at all: it is offline, not decommissioned.
LeaveRecords(target) ==
  \/ \A f \in Families : target[f] = Unknown
  \/ \A f \in Families : target[f] = Absent

DetectIPv6(s) ==
  /\ job[s].pc = "ipv6"
  /\ LET target == [job[s].target EXCEPT !["AAAA"] =
                      Detected(job[s].group, "AAAA", job[s].source)]
         reported == LeaveRecords(target) \/ \E f \in Families : target[f] = Unknown
         j == [job[s] EXCEPT !.failed = IF reported THEN @ \cup job[s].members ELSE @]
     IN  job' = [job EXCEPT ![s] =
           IF LeaveRecords(target) THEN LeaveGroup(j)
           ELSE [j EXCEPT !.pc = "hosts", !.target = target]]
  /\ UNCHANGED <<zone, managed, link, up, late, budget>>

\* reconcile_host begins with a listing of the host's records.
TakeHost(j, h) == [j EXCEPT !.members = @ \ {h}, !.host = h,
                            !.calls = <<Call("list", h, None, None, None)>>]

NextHost(s) ==
  /\ job[s].pc = "hosts" /\ job[s].host = None
  /\ \E h \in job[s].members : job' = [job EXCEPT ![s] = TakeHost(@, h)]
  /\ UNCHANGED <<zone, managed, link, up, late, budget>>

GroupDone(s) ==
  /\ job[s].pc = "hosts" /\ job[s].host = None /\ job[s].members = {}
  /\ job' = [job EXCEPT ![s] = LeaveGroup(@)]
  /\ UNCHANGED <<zone, managed, link, up, late, budget>>

\* The daemon sleeps until its next cycle; a one-shot exits with its report.
EndCycle(s) ==
  /\ job[s].pc = "groups" /\ job[s].pending = {}
  /\ job' = [job EXCEPT ![s] = CycleOver(s, @)]
  /\ UNCHANGED <<zone, managed, link, up, late, budget>>

---------------------------------------------------------------------------
(* The provider: the attempts of the request at the head of job[s].calls. *)

Requesting(s) == job[s].calls # <<>>
Current(s) == Head(job[s].calls)

\* The listing comes back, each family's records in whatever order.
Listed(s) ==
  /\ Requesting(s) /\ Current(s).op = "list"
  /\ LET h == job[s].host
     IN  \E v4 \in SetToSeqs(Matching(h, "A")), v6 \in SetToSeqs(Matching(h, "AAAA")) :
           job' = [job EXCEPT ![s] = Proceed(@,
                     PlanFamily(h, "A", job[s].target["A"], v4)
                       \o PlanFamily(h, "AAAA", job[s].target["AAAA"], v6))]
  /\ UNCHANGED <<zone, managed, link, up, late, budget>>

\* An update of a record somebody deleted is a 404, which is raised; a delete
\* of one is a 404 too, which delete_record swallows.
Gone(c) == c.op = "update" /\ \A r \in zone : r.id # c.id

Answered(s) ==
  /\ Requesting(s) /\ Current(s).op # "list" /\ ~Gone(Current(s))
  /\ zone' \in Outcomes(Current(s))
  /\ job' = [job EXCEPT ![s] = Proceed(@, Tail(@.calls))]
  /\ UNCHANGED <<managed, link, up, late, budget>>

NotFound(s) ==
  /\ Requesting(s) /\ Gone(Current(s))
  /\ job' = [job EXCEPT ![s] = Raise(@)]
  /\ UNCHANGED <<zone, managed, link, up, late, budget>>

\* A write the syncer gave up on without knowing whether the server has it.
\* (The budget numbers these requests, which keeps equal ones apart.)
Adrift(c) == IF c.op = "list" THEN late ELSE late \cup {[no |-> budget, call |-> c]}

MayLand(kind) == kind \in {"timeout", "server_error", "garbled"}

\* Bug: a timed-out POST is repeated like any other request.
BugRetriable(c, kind) == kind # "rejected"

\* Which failed attempts _request repeats.
Retriable(c, kind) ==
  \/ kind \in {"connect", "rate_limit", "server_error"}
  \/ kind = "timeout" /\ c.op # "create"

Disturb(kind) ==
  /\ kind \in Disturbances
  /\ IF kind \in Unbounded THEN UNCHANGED budget ELSE budget > 0 /\ budget' = budget - 1

\* Bug: one attempt too many.
BugAfterFailure(j, kind) ==
  IF Retriable(Head(j.calls), kind) /\ j.tries < MaxRetries
  THEN [j EXCEPT !.tries = @ + 1] ELSE Raise(j)

AfterFailure(j, kind) ==
  IF Retriable(Head(j.calls), kind) /\ j.tries < MaxRetries - 1
  THEN [j EXCEPT !.tries = @ + 1] ELSE Raise(j)

Failed(s, kind) ==
  /\ Requesting(s) /\ Disturb(kind)
  /\ late' = IF MayLand(kind) THEN Adrift(Current(s)) ELSE late
  /\ job' = [job EXCEPT ![s] = AfterFailure(@, kind)]
  /\ UNCHANGED <<zone, managed, link, up>>

---------------------------------------------------------------------------
(* The environment. *)

\* The process dies or is cancelled; systemd restarts the daemon.
Crash(s) ==
  /\ job[s].pc \notin {"idle", "exited", "killed"} /\ Disturb("crash")
  /\ late' = IF Requesting(s) THEN Adrift(Current(s)) ELSE late
  /\ job' = [job EXCEPT ![s] = IF s \in Daemons THEN Idle ELSE [Idle EXCEPT !.pc = "killed"]]
  /\ UNCHANGED <<zone, managed, link, up>>

Land(q) ==
  /\ zone' \in Outcomes(q.call) /\ late' = late \ {q}
  /\ UNCHANGED <<managed, link, up, job, budget>>

Lose(q) ==
  /\ late' = late \ {q}
  /\ UNCHANGED <<zone, managed, link, up, job, budget>>

LinkAnswers(f) == Addrs[f] \cup {Absent, Unknown}

LinkChanges ==
  /\ Disturb("link")
  /\ \/ /\ \E l \in Links, f \in Families : \E a \in LinkAnswers(f) :
             link' = [link EXCEPT ![l][f] = a]
        /\ UNCHANGED up
     \/ /\ \E l \in Links \ {DefaultLink} :
             up' = IF l \in up THEN up \ {l} ELSE up \cup {l}
        /\ UNCHANGED link
  /\ UNCHANGED <<zone, managed, job, late>>

\* Somebody edits, removes or adds an address record in Cloudflare's own UI.
HandEdit ==
  /\ Disturb("edit")
  /\ \/ \E r \in zone : r.type \in Families /\ zone' = zone \ {r}
     \/ \E r \in zone, e \in Edits :
          /\ r.type = e.type
          /\ zone' = (zone \ {r}) \cup {[r EXCEPT !.content = e.content,
                                          !.proxied = e.proxied, !.ttl = e.ttl]}
     \/ \E h \in Hosts, e \in Edits, i \in FreshIds :
          zone' = zone \cup {[id |-> i, name |-> h, type |-> e.type, content |-> e.content,
                              proxied |-> e.proxied, ttl |-> e.ttl]}
  /\ UNCHANGED <<managed, link, up, job, late>>

\* A host is added to or removed from hosts.json; DNS is not touched.
ManageHosts ==
  /\ Disturb("manage")
  /\ \E h \in Hosts : managed' = IF h \in managed THEN managed \ {h} ELSE managed \cup {h}
  /\ UNCHANGED <<zone, link, up, job, late>>

---------------------------------------------------------------------------
Init ==
  /\ zone \in InitialZones
  /\ managed = InitialHosts
  /\ link \in [Links -> [Families -> Contents \cup {Absent, Unknown}]]
  /\ \A l \in Links, f \in Families : link[l][f] \in LinkAnswers(f)
  /\ up \in SUBSET (Links \ {DefaultLink})
  /\ job = [s \in Syncers |-> Idle]
  /\ late = {}
  /\ budget = MaxDisturbances

Cycle(s) ==
  \/ StartCycle(s) \/ NextGroup(s) \/ DetectIPv4(s) \/ DetectIPv6(s)
  \/ NextHost(s) \/ GroupDone(s) \/ EndCycle(s)

Attempt(s) ==
  \/ Listed(s) \/ Answered(s) \/ NotFound(s)
  \/ \E kind \in FailureKinds : Failed(s, kind)

Abandoned == \E q \in late : Land(q) \/ Lose(q)

World == (\E s \in Syncers : Crash(s)) \/ LinkChanges \/ HandEdit \/ ManageHosts

Next == (\E s \in Syncers : Cycle(s) \/ Attempt(s)) \/ Abandoned \/ World

\* The timer and the event loop let every syncer run on, every attempt ends
\* (httpx has a timeout for it), and no abandoned request stays in flight for
\* ever. That an attempt ends well is not assumed.
Fairness ==
  /\ \A s \in Syncers : WF_vars(Cycle(s) \/ Attempt(s))
  /\ WF_vars(Abandoned)

Spec == Init /\ [][Next]_vars
FairSpec == Spec /\ Fairness

---------------------------------------------------------------------------
(* Properties. *)

Jobs == [pc : {"idle", "groups", "ipv4", "ipv6", "hosts", "exited", "killed"},
         asked : SUBSET Hosts, pending : SUBSET Hosts, group : Groups \cup {None},
         source : SUBSET Families,
         target : [Families -> Contents \cup {Absent, Unknown}],
         members : SUBSET Hosts, host : Hosts \cup {None}, calls : Seq(Calls),
         tries : 0 .. MaxRetries - 1, failed : SUBSET Hosts]

\* The type invariant: every variable keeps its type, attempts stay below
\* _MAX_RETRIES, and the zone is a finite table in which no two records share
\* an id.
TypeOK ==
  /\ zone \subseteq Records /\ IsFiniteSet(zone)
  /\ managed \subseteq Hosts
  /\ link \in [Links -> [Families -> Contents \cup {Absent, Unknown}]]
  /\ up \subseteq Links
  /\ job \in [Syncers -> Jobs]
  /\ late \subseteq [no : 1 .. MaxDisturbances, call : Writes]
  /\ budget \in 0 .. MaxDisturbances
  /\ \A r, q \in zone : r.id = q.id => r = q

\* A request that names a record names one of the host it is made for, of the
\* family it is made for, or one that is gone: reconcile_host takes ids from
\* its own listing, and neither a concurrent syncer nor an abandoned request
\* of an earlier cycle can make such an id point at anything else.
Requests == (UNION {ToSet(job[s].calls) : s \in Syncers}) \cup {q.call : q \in late}
RequestsNameOwnRecords ==
  \A c \in Requests : c.op \in {"update", "delete"} =>
    \A r \in zone : r.id = c.id => r.name = c.name /\ r.type = c.type

\* No step of any syncer, prompt or late, creates, changes or removes a record
\* that is not an address record (a TXT at a managed name stays as it is).
BystandersUntouched ==
  [][{r \in zone : r.type \notin Families} = {r \in zone' : r.type \notin Families}]_vars

\* A write is only ever requested for a family whose address detection did not
\* fail, and for a group that has, or may have, an address in some family:
\* transient probe failures and a local outage leave the records alone.
WritesAreAsserted ==
  \A s \in Syncers : \A c \in ToSet(job[s].calls) : c.op # "list" =>
    /\ c.name = job[s].host /\ GroupOf[c.name] = job[s].group
    /\ job[s].target[c.type] # Unknown
    /\ \E f \in Families : job[s].target[f] # Absent

\* The records of one family of h are what link l calls for right now.
FamilyMatches(h, f) ==
  LET wanted == link[LinkOf[GroupOf[h]]][f]
      held   == Matching(h, f)
  IN  CASE wanted = Unknown -> TRUE
        [] wanted = Absent -> held = {}
        [] OTHER -> Cardinality(held) = 1 /\ \A r \in held : ~Drifted(h, r, wanted)

\* A link that is down, or offline, or cannot be probed says nothing about
\* its hosts' records.
Assertive(g) ==
  /\ Bound(g) => LinkOf[g] \in up
  /\ ~LeaveRecords(link[LinkOf[g]])
HostMatches(h) == Assertive(GroupOf[h]) => \A f \in Families : FamilyMatches(h, f)

\* The exit code of `sync --once` can be trusted: every host a finished one-shot
\* was asked to sync and did not report as failed has exactly the records its
\* link calls for, whatever failed on the way for this host or for others.
UnreportedHostsMatch ==
  \A s \in OneShots : job[s].pc = "exited" =>
    \A h \in job[s].asked \ job[s].failed : HostMatches(h)

\* An address change never passes through a moment without a record: while the
\* link has an address of a family, no step takes the last record of that
\* family from a host (records are updated in place, and the first listed
\* duplicate is kept).
AddressKept ==
  [][\A h \in Hosts, f \in Families :
       Matching(h, f) # {} /\ Matching(h, f)' = {} => link[LinkOf[GroupOf[h]]][f] = Absent]_vars

\* No step adds a second record to a family that has one: only requests that
\* did not reach the server are repeated blindly, as the comment in _request
\* has it.
NoNewDuplicates ==
  [][\A h \in Hosts, f \in Families : \A r \in Matching(h, f)' :
       Matching(h, f) # {} => \E q \in Matching(h, f) : q.id = r.id]_vars

\* Once the disturbances end, the zone settles on what the links call for, for
\* every host still managed.
Converges == <>[](\A h \in managed : HostMatches(h))

\* ... and from then on the daemon's cycles list and write nothing: a matching
\* record is recognised whatever its spelling or its forced TTL.
Quiesces == <>[](\A s \in Syncers : \A c \in ToSet(job[s].calls) : c.op = "list")

\* Every cycle ends even if every attempt of every request fails, for ever: an
\* outage costs a bounded number of attempts per host.
CyclesEnd ==
  \A s \in Syncers : job[s].pc \in {"groups", "ipv4", "ipv6", "hosts"}
                       ~> job[s].pc \in {"idle", "exited", "killed"}
=============================================================================
