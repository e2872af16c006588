----------------------------- MODULE JsonStore -----------------------------
(***************************************************************************)
(* persistence.py under the use cases of HostService: a JSON file that     *)
(* several processes (service, web, tui, cron sync) load, edit and replace *)
(* under an flock on a file beside it. The lock is re-entrant within its   *)
(* process: hosts_mutation_lock is held across load, edit and save, and    *)
(* load_hosts_config and _write_json_atomic enter it again.                *)
(*                                                                         *)
(* A process runs one edit at a time: no use case awaits anything inside   *)
(* one, and nothing in the program starts a thread. A read takes the lock  *)
(* as an edit does and saves nothing. A file that is missing, as on a      *)
(* first run, reads as the empty table.                                    *)
(***************************************************************************)
EXTENDS RegistryEdits, Integers

CONSTANTS
  Procs,      \* processes
  Requests,   \* the edits they ask for
  Faults,     \* which of AllFaults may happen, any number of times
  Torn        \* a file of which only a part reached the disk

\* A failing system call (read, mkstemp, write or fsync, replace, fsync of the
\* directory), a killed process, a power cut.
CallFaults == {"load", "temp", "write", "replace"}
AllFaults == CallFaults \cup {"directory", "crash", "power"}

ASSUME StoreAssumption ==
  /\ Requests \subseteq Edits /\ Faults \subseteq AllFaults
  /\ (\A t \in Tables : t # Torn) /\ None \notin Procs

VARIABLES
  file,     \* what the path names now
  synced,   \* whether its data was fsynced
  disk,     \* what the path named when the directory last reached the disk
  lock,     \* the process that holds the flock, and _LOCK_STATE of each
  call      \* call[p]: the use case process p is in

vars == <<file, synced, disk, lock, call>>
storage == <<file, synced, disk>>

Pcs == {"idle", "lock", "load", "temp", "write", "replace", "directory", "return"}
Results == {"idle", "asked", "applied", "ok", "refused", "failed"}
Contents == {Torn} \cup Tables

NoCall == [pc |-> "idle", edit |-> Reading, copy |-> {}, temp |-> None, result |-> "idle"]
NoLock == [owner |-> None, depth |-> [p \in Procs |-> 0]]

Init ==
  /\ file = {} /\ synced = TRUE /\ disk = {}
  /\ lock = NoLock
  /\ call = [p \in Procs |-> NoCall]

---------------------------------------------------------------------------
(* The re-entrant lock. *)

MayEnter(p) == lock.depth[p] > 0 \/ lock.owner = None

Entered(p, l) ==
  [owner |-> IF l.depth[p] > 0 THEN l.owner ELSE p,
   depth |-> [l.depth EXCEPT ![p] = @ + 1]]

\* Bug: leaving a nested use of the lock gives it up.
BugLeft(p, l) == [owner |-> None, depth |-> [l.depth EXCEPT ![p] = @ - 1]]
\* Bug: the entry of _LOCK_STATE stays when the flock is given up.
BugLeftEntry(p, l) ==
  IF l.depth[p] > 1 THEN [l EXCEPT !.depth[p] = @ - 1] ELSE [l EXCEPT !.owner = None]
\* Bug: the descriptor is left open, and with it the flock.
BugLeftOpen(p, l) == [l EXCEPT !.depth[p] = @ - 1]
Left(p, l) ==
  [owner |-> IF l.depth[p] > 1 THEN l.owner ELSE None,
   depth |-> [l.depth EXCEPT ![p] = @ - 1]]

---------------------------------------------------------------------------
(* One use case. *)

At(p, pc) == call[p].pc = pc
Update(p, new) == call' = [call EXCEPT ![p] = new]
Goto(p, pc) == Update(p, [call[p] EXCEPT !.pc = pc])
Finish(p, result) ==
  Update(p, [call[p] EXCEPT !.pc = "return", !.temp = None, !.result = result])

Ask(p) ==
  /\ At(p, "idle")
  /\ \E e \in Requests :
       Update(p, [NoCall EXCEPT !.pc = "lock", !.edit = e, !.result = "asked"])
  /\ UNCHANGED <<storage, lock>>

\* fcntl.flock returns.
Lock(p) ==
  /\ At(p, "lock") /\ MayEnter(p)
  /\ lock' = Entered(p, lock)
  /\ Goto(p, "load")
  /\ UNCHANGED storage

\* The table is loaded under the lock once more; a file that does not parse is
\* an error, and an edit with nothing to save ends here.
Load(p) ==
  /\ At(p, "load")
  /\ lock' = Left(p, Entered(p, lock))
  /\ \/ /\ file = Torn \/ ~Saves(call[p].edit, file)
        /\ Finish(p, IF file = Torn THEN "failed" ELSE "refused")
     \/ /\ file # Torn /\ Saves(call[p].edit, file)
        /\ Update(p, [call[p] EXCEPT !.pc = "temp",
                                     !.copy = Edited(call[p].edit, file)])
  /\ UNCHANGED storage

\* _write_json_atomic enters the lock and creates its temporary file,
MakeTemp(p) ==
  /\ At(p, "temp")
  /\ lock' = Entered(p, lock)
  /\ Update(p, [call[p] EXCEPT !.pc = "write", !.temp = "unsynced"])
  /\ UNCHANGED storage

\* writes and fsyncs it,
WriteTemp(p) ==
  /\ At(p, "write")
  /\ Update(p, [call[p] EXCEPT !.pc = "replace", !.temp = "synced"])
  /\ UNCHANGED <<storage, lock>>

\* puts it in the place of the old one,
Replace(p) ==
  /\ At(p, "replace")
  /\ file' = call[p].copy /\ synced' = (call[p].temp = "synced")
  /\ Update(p, [call[p] EXCEPT !.pc = "directory", !.temp = None, !.result = "applied"])
  /\ UNCHANGED <<disk, lock>>

\* and fsyncs the directory, which may fail without a word.
SyncDirectory(p) ==
  /\ At(p, "directory")
  /\ disk' \in {file} \cup (IF "directory" \in Faults THEN {disk} ELSE {})
  /\ lock' = Left(p, lock)
  /\ Goto(p, "return")
  /\ UNCHANGED <<file, synced>>

\* Bug: an error leaves the temporary file behind.
BugFail(p) ==
  /\ call[p].pc \in CallFaults \cap Faults
  /\ lock' = IF call[p].pc \in {"write", "replace"} THEN Left(p, lock) ELSE lock
  /\ Update(p, [call[p] EXCEPT !.pc = "return", !.result = "failed"])
  /\ UNCHANGED storage
\* A system call fails: the inner lock is left, the temporary file unlinked.
Fail(p) ==
  /\ call[p].pc \in CallFaults \cap Faults
  /\ lock' = IF call[p].pc \in {"write", "replace"} THEN Left(p, lock) ELSE lock
  /\ Finish(p, "failed")
  /\ UNCHANGED storage

\* The use case returns, or raises, out of the outermost lock.
Return(p) ==
  /\ At(p, "return")
  /\ lock' = Left(p, lock)
  /\ Update(p, [call[p] EXCEPT !.pc = "idle",
                               !.result = IF @ = "applied" THEN "ok" ELSE @])
  /\ UNCHANGED storage

Step(p) ==
  \/ Load(p) \/ MakeTemp(p) \/ WriteTemp(p) \/ Replace(p) \/ SyncDirectory(p)
  \/ Fail(p) \/ Return(p)

---------------------------------------------------------------------------
(* Deaths. *)

\* The kernel closes the descriptors of a dead process, and its flock goes.
Freed(p) ==
  [owner |-> IF lock.owner = p THEN None ELSE lock.owner,
   depth |-> [lock.depth EXCEPT ![p] = 0]]

Crash(p) ==
  /\ "crash" \in Faults
  /\ lock' = Freed(p)
  /\ Update(p, [NoCall EXCEPT !.edit = call[p].edit])
  /\ UNCHANGED storage

\* What the path names after a power cut: what it named when the directory last
\* reached the disk, or now; data that was never fsynced may be there in part.
PowerCut ==
  /\ "power" \in Faults
  /\ file' \in {disk, IF synced THEN file ELSE Torn}
  /\ disk' = file' /\ synced' = TRUE
  /\ lock' = NoLock
  /\ call' = [p \in Procs |-> [NoCall EXCEPT !.edit = call[p].edit]]

\* The kernel writes data and directory to the disk when it likes.
WriteBack ==
  /\ "power" \in Faults
  /\ disk' = file /\ synced' = TRUE
  /\ UNCHANGED <<file, lock, call>>

Next ==
  \/ \E p \in Procs : Ask(p) \/ Lock(p) \/ Step(p) \/ Crash(p)
  \/ PowerCut \/ WriteBack

\* A call that was begun goes on, and a process that waits for the flock gets
\* it if it is free again and again: the use cases are rare and short, and the
\* kernel wakes whoever waits when the lock is given up.
Fairness == \A p \in Procs : WF_vars(Step(p)) /\ SF_vars(Lock(p))

Spec == Init /\ [][Next]_vars /\ Fairness

---------------------------------------------------------------------------
(* What the store promises. *)

TypeOK ==
  /\ file \in Contents /\ disk \in Contents /\ synced \in BOOLEAN
  /\ lock \in [owner : Procs \cup {None}, depth : [Procs -> 0 .. 2]]
  /\ call \in [Procs -> [pc : Pcs, edit : Edits, copy : Tables,
                         temp : {None, "unsynced", "synced"}, result : Results]]

\* The file is a table that every edit changes at once, as Registry says: no
\* lost update between two processes, no half-done edit after an error, a crash
\* or a power cut, and "ok" only for what was saved, and is on disk if no
\* directory fsync fails.
Store ==
  INSTANCE Registry WITH
    Callers <- Procs, Durable <- "directory" \notin Faults,
    table <- file, safe <- disk,
    asked <- [p \in Procs |-> call[p].edit],
    state <- [p \in Procs |-> call[p].result]
Promised == Store!Spec

\* However a use case ended, by returning or raising out of any step, it left
\* neither the flock nor an entry of _LOCK_STATE nor a temporary file.
LeavesNothingBehind ==
  \A p \in Procs : call[p].pc \in {"idle", "lock"} =>
    lock.owner # p /\ lock.depth[p] = 0 /\ call[p].temp = None

\* Every use case ends, whatever the other processes do and wherever they die.
EditsEnd == \A p \in Procs : ~At(p, "idle") ~> At(p, "idle")
=============================================================================
