------------------------------ MODULE Registry ------------------------------
(***************************************************************************)
(* What the store promises its callers: every edit happens at once, on the *)
(* table everybody sees, or not at all; a power cut leaves the table as it *)
(* is or as it last was on disk, never anything else; and if the file      *)
(* system can sync directories, a caller that is told "ok" has its edit on *)
(* disk.                                                                   *)
(***************************************************************************)
EXTENDS RegistryEdits

CONSTANTS
  Callers,
  Durable   \* whether "ok" is only said of an edit that is on disk

VARIABLES
  table,   \* what a read returns
  safe,    \* what a power cut may fall back to
  asked,   \* asked[c]: the edit caller c asked for last
  state    \* state[c]: how far it has come

vars == <<table, safe, asked, state>>

Waiting == {"asked", "applied"}
Settled == {"idle", "ok", "refused", "failed"}

Init ==
  /\ table = {} /\ safe = {}
  /\ asked = [c \in Callers |-> Reading]
  /\ state = [c \in Callers |-> "idle"]

Ask(c) ==
  /\ state[c] \in Settled
  /\ \E e \in Edits : asked' = [asked EXCEPT ![c] = e]
  /\ state' = [state EXCEPT ![c] = "asked"]
  /\ UNCHANGED <<table, safe>>

Apply(c) ==
  /\ state[c] = "asked" /\ Saves(asked[c], table)
  /\ table' = Edited(asked[c], table)
  /\ state' = [state EXCEPT ![c] = "applied"]
  /\ UNCHANGED <<safe, asked>>

Persist == safe' = table /\ UNCHANGED <<table, asked, state>>

Confirm(c) ==
  /\ state[c] = "applied" /\ (Durable => safe = table)
  /\ state' = [state EXCEPT ![c] = "ok"]
  /\ UNCHANGED <<table, safe, asked>>

Refuse(c) ==
  /\ state[c] = "asked" /\ ~Saves(asked[c], table)
  /\ state' = [state EXCEPT ![c] = "refused"]
  /\ UNCHANGED <<table, safe, asked>>

Fail(c) ==
  /\ state[c] = "asked"
  /\ state' = [state EXCEPT ![c] = "failed"]
  /\ UNCHANGED <<table, safe, asked>>

\* A process dies: its caller never learns what became of the edit.
Die(c) ==
  /\ state' = [state EXCEPT ![c] = "idle"]
  /\ UNCHANGED <<table, safe, asked>>

PowerCut ==
  /\ table' \in {table, safe} /\ safe' = table'
  /\ state' = [c \in Callers |-> "idle"]
  /\ UNCHANGED asked

Next ==
  \/ \E c \in Callers : Ask(c) \/ Apply(c) \/ Confirm(c) \/ Refuse(c) \/ Fail(c) \/ Die(c)
  \/ Persist \/ PowerCut

Spec == Init /\ [][Next]_vars
=============================================================================
