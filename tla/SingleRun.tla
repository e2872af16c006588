----------------------------- MODULE SingleRun -----------------------------
(***************************************************************************)
(* A single `sync --once`, with no other syncer beside it, and how it      *)
(* keeps what SyncPromise says of a run.                                   *)
(***************************************************************************)
EXTENDS DnsSync

\* The one run there is.
Runner == CHOOSE s \in OneShots : TRUE

Listing(j) == j.calls # <<>> /\ Head(j.calls).op = "list"

\* The hosts of a cycle that are still to be listed, those that have been or
\* that never will be, and of these the ones that are not reported.
ToDo(j) == j.pending \cup j.members \cup (IF Listing(j) THEN {j.host} ELSE {})
Seen(j) == j.asked \ ToDo(j)
Settled(j) == Seen(j) \ j.failed

\* What the link of a host answers, and which of its records are as it says.
Wanted(h, f) == link[LinkOf[GroupOf[h]]][f]
Want(h, f) ==
  CASE Wanted(h, f) = Unknown -> "unknown"
    [] Wanted(h, f) = Absent  -> "none"
    [] OTHER                  -> "one"
Held(h, f) ==
  {[id |-> r.id, right |-> Want(h, f) = "one" /\ ~Drifted(h, r, Wanted(h, f))] :
     r \in Matching(h, f)}

\* How far a job is with a host, and with all of them.
StageOf(j, h) ==
  IF j.pc = "killed" THEN "lost"
  ELSE IF h \notin j.asked THEN "out"
  ELSE IF h \in j.failed THEN "reported"
  ELSE IF h \in ToDo(j) THEN "waiting"
  ELSE IF h = j.host THEN "working" ELSE "done"
ProgressOf(j) ==
  CASE j.pc = "idle"   -> "new"
    [] j.pc = "exited" -> "over"
    [] j.pc = "killed" -> "killed"
    [] OTHER           -> "going"

Wants    == [h \in Hosts |-> [f \in Families |-> Want(h, f)]]
Holdings == [h \in Hosts |-> [f \in Families |-> Held(h, f)]]
Stages   == [h \in Hosts |-> StageOf(job[Runner], h)]
Promise ==
  INSTANCE SyncPromise WITH
    want <- Wants, held <- Holdings, stage <- Stages, run <- ProgressOf(job[Runner])

\* A run keeps its promise, whatever requests fail, are repeated or land late: a
\* host is worked on only when all its addresses are known and its link is not
\* offline, each write brings it closer to what the link answers without taking
\* the last record of a wanted family or adding a second one, no late request
\* undoes a host that is done, and a run that ends has done or reported each.
RunPromised == Promise!Spec
=============================================================================
