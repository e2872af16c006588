---------------------------- MODULE SyncPromise ----------------------------
(***************************************************************************)
(* What one run of the sync engine promises of the hosts it is asked to    *)
(* sync, with no requests, groups or failures in sight. A host is decided  *)
(* on once, when all its addresses are known; its records then come        *)
(* closer to what is wanted with each write; once it is done they are left *)
(* alone. A run that ends has every host done or reported.                 *)
(***************************************************************************)
CONSTANTS
  Hosts,
  Families,
  Ids        \* what tells the records of one name apart

VARIABLES
  want,    \* want[h][f]: "one" record, "none", or "unknown"
  held,    \* held[h][f]: the records h has, each with an id and whether it is right
  stage,   \* stage[h]: how far the run is with h
  run      \* "new", "going", "over" or "killed"

vars == <<want, held, stage, run>>

Right(i) == [id |-> i, right |-> TRUE]

\* A link that answers for all families, and does not say that it is offline.
Connected(h) == \E f \in Families : want[h][f] # "none"
Known(h) == \A f \in Families : want[h][f] # "unknown"

\* The records of h are what is wanted.
Fits(h) ==
  \A f \in Families :
    \/ want[h][f] = "one" /\ \E i \in Ids : held[h][f] = {Right(i)}
    \/ want[h][f] = "none" /\ held[h][f] = {}

Init ==
  /\ want \in [Hosts -> [Families -> {"one", "none", "unknown"}]]
  /\ held \in [Hosts -> [Families -> SUBSET [id : Ids, right : BOOLEAN]]]
  /\ stage = [h \in Hosts |-> "out"] /\ run = "new"

\* With nothing to do the run is over at once.
Start ==
  /\ run = "new"
  /\ \E S \in SUBSET Hosts :
       /\ stage' = [h \in Hosts |-> IF h \in S THEN "waiting" ELSE "out"]
       /\ run' = IF S = {} THEN "over" ELSE "going"
  /\ UNCHANGED <<want, held>>

\* A host is done when its records fit.
Done(h) == Fits(h)' /\ stage' = [stage EXCEPT ![h] = "done"]

Decide(h) ==
  /\ stage[h] = "waiting" /\ Connected(h) /\ Known(h)
  /\ stage' = [stage EXCEPT ![h] = "working"] \/ Done(h)
  /\ UNCHANGED <<want, held, run>>

Create(h, f) ==
  /\ want[h][f] = "one" /\ held[h][f] = {}
  /\ \E i \in Ids : held' = [held EXCEPT ![h][f] = {Right(i)}]

Update(h, f) ==
  /\ want[h][f] = "one"
  /\ \E e \in held[h][f] : held' = [held EXCEPT ![h][f] = (@ \ {e}) \cup {Right(e.id)}]

\* The last record goes only when none is wanted.
Delete(h, f) ==
  \E e \in held[h][f] :
    /\ want[h][f] = "none" \/ (want[h][f] = "one" /\ held[h][f] # {e})
    /\ held' = [held EXCEPT ![h][f] = @ \ {e}]

\* A write reaches the records, in time or late: of a host that is being worked
\* on, that was reported, or whose run was killed, and never of one that is done.
Write(h) ==
  /\ stage[h] \in {"working", "reported", "lost"} /\ Connected(h)
  /\ \E f \in Families : Create(h, f) \/ Update(h, f) \/ Delete(h, f)
  /\ UNCHANGED stage \/ (stage[h] = "working" /\ Done(h))
  /\ UNCHANGED <<want, run>>

\* The last answer only confirms what was written already.
Finish(h) == stage[h] = "working" /\ Done(h) /\ UNCHANGED <<want, held, run>>

Report(S) ==
  /\ \A h \in S : stage[h] \in {"waiting", "working"}
  /\ stage' = [h \in Hosts |-> IF h \in S THEN "reported" ELSE stage[h]]
  /\ UNCHANGED <<want, held, run>>

End ==
  /\ run = "going" /\ \A h \in Hosts : stage[h] \in {"out", "done", "reported"}
  /\ run' = "over" /\ UNCHANGED <<want, held, stage>>

\* Nobody knows any more how far it got.
Kill ==
  /\ run = "going" /\ run' = "killed" /\ stage' = [h \in Hosts |-> "lost"]
  /\ UNCHANGED <<want, held>>

Next ==
  \/ Start \/ End \/ Kill
  \/ \E h \in Hosts : Decide(h) \/ Write(h) \/ Finish(h)
  \/ \E S \in SUBSET Hosts : Report(S)

Spec == Init /\ [][Next]_vars
=============================================================================
