---------------------------- MODULE GroupCycle -----------------------------
(***************************************************************************)
(* The head of SyncService.run_once for one group, over ip_detection.py    *)
(* and interface_service.py: what is read of the interface, which families *)
(* are looked up, in which order and over which time, and what is then     *)
(* decided to do with the records of each family. DnsSync takes it from    *)
(* there.                                                                  *)
(*                                                                         *)
(* The group is unbound (Source = Default) or bound to one interface.      *)
(***************************************************************************)
EXTENDS IpDetection

CONSTANTS
  Source,  \* where the group's lookups go out
  Order    \* the families, in the order in which they are detected

ASSUME GroupAssumption ==
  /\ Order \in Seq(Families) /\ Len(Order) = 2
  /\ ToSet(Order) = Families /\ IsInjective(Order)
  /\ \A f \in Families : [family |-> f, source |-> Source] \in Keys

VARIABLES
  nic,      \* the interface: its state, and the families it has an address of
  cycle,    \* the local variables of run_once
  verdict,  \* what the last step decided of each family
  gone,     \* gone[f]: the ticks since f was missing               (history)
  alone     \* alone[f]: the same, but missing while the link lived (history)

surroundings == <<nic, gone, alone>>
groupVars == <<vars, surroundings, cycle, verdict>>

KeyOf(f) == [family |-> f, source |-> Source]
Bound == Source # Default

NoCycle == [pc |-> "idle", up |-> FALSE, has |-> {}, todo |-> <<>>,
            found |-> [f \in Families |-> None]]
NoVerdict == [f \in Families |-> None]

---------------------------------------------------------------------------
(* A cycle. *)

\* The group's turn. For a bound one list_interfaces reads the state of the
\* interfaces first; an interface that psutil has no statistics of counts as up.
\* An unbound one has nothing to look up first.
Begin ==
  /\ cycle.pc = "idle"
  /\ cycle' = IF Bound
              THEN [NoCycle EXCEPT !.pc = "addresses", !.up = nic.state # "down"]
              ELSE [NoCycle EXCEPT !.pc = "detect", !.todo = Order]
  /\ verdict' = NoVerdict
  /\ UNCHANGED <<vars, surroundings>>

Usable == nic.state # "gone" /\ cycle.up

\* Bug: the group waits for its interface.
BugSkip == cycle
\* A missing or down interface skips the group.
Skip == NoCycle

\* Then it reads their addresses.
ReadAddresses ==
  /\ cycle.pc = "addresses"
  /\ cycle' = IF Usable
              THEN [cycle EXCEPT !.pc = "detect", !.has = nic.has, !.todo = Order]
              ELSE Skip
  /\ verdict' = NoVerdict
  /\ UNCHANGED <<vars, surroundings>>

\* The next family's turn.
Note(f, value) ==
  cycle' = [cycle EXCEPT !.todo = Tail(@), !.found[f] = value]

\* The bound interface has no address of the family.
Missing(f) == Bound /\ f \notin cycle.has

\* _detect_family: an answer at once, or a lookup that takes its time.
Detect ==
  /\ cycle.pc = "detect" /\ cycle.todo # <<>>
  /\ LET f == Head(cycle.todo)
     IN  \/ /\ Missing(f)
            /\ Note(f, Absent)
            /\ UNCHANGED vars
         \/ /\ ~Missing(f)
            /\ Start(KeyOf(f)) \/ (lookup.pc # "idle" /\ Step)
            /\ IF answer' = NoAnswer THEN UNCHANGED cycle ELSE Note(f, answer'.value)
  /\ verdict' = NoVerdict
  /\ UNCHANGED surroundings

\* Bug: a family whose detection failed is taken for gone.
BugDeletes(found) == {f \in Families : found[f] \in {Absent, Failed}}
Deletes(found) == {f \in Families : found[f] = Absent}
Asserts(found) == {f \in Families : found[f] \in Addrs}

\* The two guards of run_once that leave a group alone.
Leaves(found) ==
  \/ \A f \in Families : found[f] = Failed
  \/ \A f \in Families : found[f] = Absent

Decide ==
  /\ cycle.pc = "detect" /\ cycle.todo = <<>>
  /\ verdict' = IF Leaves(cycle.found) THEN NoVerdict
                ELSE [f \in Families |-> IF f \in Asserts(cycle.found) THEN cycle.found[f]
                                         ELSE IF f \in Deletes(cycle.found) THEN Absent ELSE None]
  /\ cycle' = NoCycle
  /\ UNCHANGED <<vars, surroundings>>

CycleStep == ReadAddresses \/ Detect \/ Decide

---------------------------------------------------------------------------
(* Time, and the uplinks. *)

Nics == {n \in [state : {"up", "down", "gone"}, has : SUBSET Families] :
           n.state = "gone" => n.has = {}}

\* Only an interface that is up, and has an address of the family, is a link.
Carries(n, r) ==
  Bound => \A f \in Families : r[KeyOf(f)] # None => n.state = "up" /\ f \in n.has

NotThere(f, n, on) == IF Bound THEN f \notin n.has ELSE ~on[f]
Lives(n, on) == IF Bound THEN n.state = "up" ELSE \E f \in Families : on[f]

\* A lookup takes time, and so does the pause between cycles. Nothing else does.
TimePasses ==
  /\ cycle.pc = "idle" \/ lookup.pc # "idle"
  /\ Tick
  /\ gone' = [f \in Families |-> IF NotThere(f, nic, routed) THEN 0 ELSE Later(gone[f], Window)]
  /\ alone' = [f \in Families |-> IF NotThere(f, nic, routed) /\ Lives(nic, routed) THEN 0
                                  ELSE Later(alone[f], Window)]
  /\ verdict' = NoVerdict
  /\ UNCHANGED <<nic, cycle>>

\* The uplinks change as IpDetection says, or the interface does.
LinkChanges ==
  /\ \/ UNCHANGED nic /\ Change
     \/ /\ nic' \in Nics \ {nic} /\ Bound
        /\ reach' = [k \in Keys |-> IF k.source = Source /\ (nic'.state # "up" \/ k.family \notin nic'.has)
                                    THEN None ELSE reach[k]]
        /\ routed' = routed /\ Moved
  /\ Carries(nic', reach')
  /\ gone' = [f \in Families |-> IF NotThere(f, nic', routed') THEN 0 ELSE gone[f]]
  /\ alone' = [f \in Families |-> IF NotThere(f, nic', routed') /\ Lives(nic', routed') THEN 0
                                  ELSE alone[f]]
  /\ verdict' = NoVerdict
  /\ UNCHANGED cycle

GroupInit ==
  /\ Init
  /\ nic \in Nics /\ Carries(nic, reach)
  /\ ~Bound => nic = [state |-> "gone", has |-> {}]
  /\ cycle = NoCycle /\ verdict = NoVerdict
  /\ gone = [f \in Families |-> IF NotThere(f, nic, routed) THEN 0 ELSE Window + 1]
  /\ alone = [f \in Families |-> IF NotThere(f, nic, routed) /\ Lives(nic, routed) THEN 0 ELSE Window + 1]

GroupNext == Begin \/ CycleStep \/ TimePasses \/ LinkChanges

\* The event loop runs what is ready: a cycle that has begun goes on.
GroupSpec == GroupInit /\ [][GroupNext]_groupVars /\ WF_groupVars(CycleStep)

---------------------------------------------------------------------------
(* Properties. *)

\* A family's records are deleted only if the family was really missing, on
\* the interface of the group or in the routing table, within a cache time and
\* a lookup; an address is asserted only if it was the link's own within a
\* cache time and two lookups. Both families are detected one after the other,
\* each perhaps from the cache, and neither grows older than that meanwhile.
VerdictsAreRecent ==
  \A f \in Families :
    /\ verdict[f] = Absent => gone[f] <= Window
    /\ verdict[f] \in Addrs => since[KeyOf(f)][verdict[f]] <= Horizon

\* Every cycle comes to its decision, or skips the group.
CyclesDecide == cycle.pc # "idle" ~> cycle.pc = "idle"

\* README.md:255: "a transient failure never deletes DNS records"; README.md:38-39:
\* "Sync runs per group, with health-checks before applying". A family's
\* records are deleted only if the family was missing while the link lived, and
\* not because the whole link was down (the guard of run_once is there because
\* that "would take the names out of DNS over a local outage").
OutagesDeleteNothing == \A f \in Families : verdict[f] = Absent => alone[f] <= Window
=============================================================================
