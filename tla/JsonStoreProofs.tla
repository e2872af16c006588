-------------------------- MODULE JsonStoreProofs --------------------------
(***************************************************************************)
(* The store keeps its promise for any number of processes, any tables and *)
(* any of the faults: JsonStore implements Registry. The argument is that  *)
(* a process past fcntl.flock is alone there, so that the table it loaded  *)
(* is still the one it replaces.                                           *)
(***************************************************************************)
EXTENDS JsonStore, TLAPS

\* An edit of a table is a table.
LEMMA EditedIsTable ==
  ASSUME NEW e \in Edits, NEW table \in Tables
  PROVE  Edited(e, table) \in Tables
<1>1. ASSUME NEW keys \in SUBSET Keys, e.to \in Values
      PROVE  Added(e, keys) \in Tables
  BY <1>1 DEF Added, Tables, Entries
<1>2. Others(e, table) \in Tables
  BY DEF Others, Tables
<1>3. e.keys \in SUBSET Keys
  BY DEF Edits, Reading
<1>4. CASE e.kind \in {"add", "bulk"}
  <2>1. e.to \in Values
    BY <1>4 DEF Edits, Reading
  <2> QED
    BY <1>1, <1>3, <1>4, <2>1 DEF Edited, Tables
<1>5. CASE e.kind = "remove"
  BY <1>2, <1>5 DEF Edited
<1>6. CASE e.kind = "register"
  <2>1. e.to \in Values
    BY <1>6 DEF Edits, Reading
  <2> QED
    BY <1>1, <1>2, <1>3, <1>6, <2>1 DEF Edited, Tables
<1>7. CASE e.kind = "reassign"
  <2>1. e.to \in Values
    BY <1>7 DEF Edits, Reading
  <2>2. \A r \in table : [r EXCEPT !.value = IF @ = e.from THEN e.to ELSE @] \in Entries
    BY <2>1 DEF Tables, Entries
  <2> QED
    BY <1>7, <2>2 DEF Edited, Tables
<1>8. CASE e.kind = "read"
  BY <1>8 DEF Edited
<1>9. e.kind \in {"add", "register", "bulk", "remove", "reassign", "read"}
  BY DEF Edits, Reading
<1> QED
  BY <1>4, <1>5, <1>6, <1>7, <1>8, <1>9

\* How often a process holds the lock when it is at pc.
Inner == {"write", "replace", "directory"}
Outer == {"load", "temp", "return"}
Inside == Inner \cup Outer
DepthAt(pc) == IF pc \in Inner THEN 2 ELSE IF pc \in Outer THEN 1 ELSE 0

\* What the caller has been promised when its process is at pc.
ResultsAt(pc) ==
  CASE pc = "idle"      -> {"idle", "ok", "refused", "failed"}
    [] pc = "directory" -> {"applied"}
    [] pc = "return"    -> {"applied", "refused", "failed"}
    [] OTHER            -> {"asked"}

\* The process that holds the flock is the one that is inside, as deep as its
\* place in the code says.
LockInv ==
  \A p \in Procs :
    /\ lock.owner = p <=> call[p].pc \in Inside
    /\ lock.depth[p] = DepthAt(call[p].pc)

\* The file was fsynced before it got its name.
FileInv == file \in Tables /\ disk \in Tables /\ synced = TRUE

\* What a process is about to save is its edit of the table as it is now.
Fits(c, table, onDisk) ==
  /\ c.result \in ResultsAt(c.pc)
  /\ c.pc \in {"temp", "write", "replace"} =>
       Saves(c.edit, table) /\ c.copy = Edited(c.edit, table)
  /\ c.temp = CASE c.pc = "write" -> "unsynced"
                [] c.pc = "replace" -> "synced"
                [] OTHER -> None
  /\ c.pc = "return" /\ c.result = "applied" /\ "directory" \notin Faults => onDisk = table
CallInv == \A p \in Procs : Fits(call[p], file, disk)

IInv == TypeOK /\ LockInv /\ FileInv /\ CallInv

---------------------------------------------------------------------------
(* The lock. *)

Locks == [owner : Procs \cup {None}, depth : [Procs -> Nat]]

\* A process that may enter owns the flock then, one level deeper.
LEMMA EnteredAfter ==
  ASSUME NEW p \in Procs, NEW l \in Locks
  PROVE  /\ Entered(p, l) \in Locks
         /\ Entered(p, l).depth[p] = l.depth[p] + 1
         /\ \A q \in Procs \ {p} : Entered(p, l).depth[q] = l.depth[q]
         /\ Entered(p, l).owner = IF l.depth[p] > 0 THEN l.owner ELSE p
  BY DEF Entered, Locks

\* Leaving gives the flock up at the outermost level only.
LEMMA LeftAfter ==
  ASSUME NEW p \in Procs, NEW l \in Locks, l.depth[p] > 0
  PROVE  /\ Left(p, l) \in Locks
         /\ Left(p, l).depth[p] = l.depth[p] - 1
         /\ \A q \in Procs \ {p} : Left(p, l).depth[q] = l.depth[q]
         /\ Left(p, l).owner = IF l.depth[p] > 1 THEN l.owner ELSE None
  BY DEF Left, Locks

\* A nested use of the lock changes nothing.
LEMMA NestedUse ==
  ASSUME NEW p \in Procs, NEW l \in Locks, l.depth[p] > 0
  PROVE  Left(p, Entered(p, l)) = l
<1>1. [l.depth EXCEPT ![p] = l.depth[p]] = l.depth /\ l.depth[p] \in Nat
  BY DEF Locks
<1>2. Left(p, Entered(p, l)) = [owner |-> l.owner, depth |-> l.depth]
  BY <1>1 DEF Left, Entered, Locks
<1> QED
  BY <1>2 DEF Locks

---------------------------------------------------------------------------
(* The inductive invariant. *)

Calls == [pc : Pcs, edit : Edits, copy : Tables,
          temp : {None, "unsynced", "synced"}, result : Results]

USE DEF At

\* What an action of process p does to the invariant is settled by what becomes
\* of p: the others are outside the lock, and a step that changes the file or
\* the disk is taken inside it.
LEMMA StepKeeps ==
  ASSUME IInv, NEW p \in Procs, NEW new \in Calls, call' = [call EXCEPT ![p] = new],
         lock' \in Locks,
         \A q \in Procs \ {p} : /\ lock'.depth[q] = lock.depth[q]
                                /\ lock'.owner = q <=> lock.owner = q,
         lock'.depth[p] = DepthAt(new.pc),
         lock'.owner = p <=> new.pc \in Inside,
         Fits(new, file', disk'),
         FileInv', <<file, disk>>' # <<file, disk>> => lock.owner = p
  PROVE  IInv'
<1>1. call'[p] = new /\ \A q \in Procs \ {p} : call'[q] = call[q]
  BY DEF IInv, TypeOK
<1>2. call' \in [Procs -> Calls]
  BY <1>1 DEF IInv, TypeOK, Calls
<1>3. LockInv'
  <2>1. ASSUME NEW q \in Procs
        PROVE  /\ lock'.owner = q <=> call'[q].pc \in Inside
               /\ lock'.depth[q] = DepthAt(call'[q].pc)
    <3>1. CASE q = p
      BY <1>1, <3>1
    <3>2. CASE q # p
      BY <1>1, <3>2 DEF IInv, LockInv
    <3> QED
      BY <3>1, <3>2
  <2> QED
    BY <2>1 DEF LockInv
<1>4. \A q \in Procs : DepthAt(call'[q].pc) \in 0 .. 2
  BY DEF DepthAt
<1>5. lock' \in [owner : Procs \cup {None}, depth : [Procs -> 0 .. 2]]
  <2>1. \A q \in Procs : lock'.depth[q] \in 0 .. 2
    BY <1>3, <1>4 DEF LockInv
  <2> QED
    BY <2>1 DEF Locks
<1>6. TypeOK'
  BY <1>2, <1>5 DEF TypeOK, Calls, FileInv, Contents
<1>7. ASSUME NEW q \in Procs PROVE Fits(call'[q], file', disk')
  <2>1. CASE q = p
    BY <1>1, <2>1
  <2>2. CASE q # p /\ <<file, disk>>' = <<file, disk>>
    BY <1>1, <2>2 DEF IInv, CallInv
  <2>3. CASE q # p /\ lock.owner = p
    <3>1. call[q].pc \notin Inside
      BY <2>3 DEF IInv, LockInv
    <3>2. Fits(call[q], file, disk)
      BY DEF IInv, CallInv
    <3> QED
      BY <1>1, <2>3, <3>1, <3>2 DEF Fits, Inside, Inner, Outer
  <2> QED
    BY <2>1, <2>2, <2>3
<1> QED
  BY <1>3, <1>6, <1>7 DEF IInv, CallInv

\* What the invariant says of one process,
LEMMA Facts ==
  ASSUME IInv, NEW p \in Procs
  PROVE  /\ call[p] \in Calls /\ Fits(call[p], file, disk)
         /\ file \in Tables /\ file # Torn /\ disk \in Tables /\ synced = TRUE
  BY StoreAssumption DEF IInv, TypeOK, Calls, FileInv, CallInv

\* and of the lock.
LEMMA LockFacts ==
  ASSUME IInv, NEW p \in Procs
  PROVE  /\ lock \in Locks
         /\ call[p].pc \in Inner => lock.depth[p] = 2 /\ lock.owner = p
         /\ call[p].pc \in Outer => lock.depth[p] = 1 /\ lock.owner = p
         /\ call[p].pc \in {"idle", "lock"} => lock.depth[p] = 0 /\ lock.owner # p
<1>1. lock \in Locks
  BY DEF IInv, TypeOK, Locks
<1>2. lock.depth[p] = DepthAt(call[p].pc) /\ (lock.owner = p <=> call[p].pc \in Inside)
  BY DEF IInv, LockInv
<1> QED
  BY <1>1, <1>2 DEF DepthAt, Inside, Inner, Outer

USE DEF Inside, Inner, Outer, DepthAt

\* One lemma per action.
LEMMA AskKeeps ==
  ASSUME IInv, NEW p \in Procs, Ask(p) PROVE IInv'
<1>1. PICK e \in Requests :
        call' = [call EXCEPT ![p] = [NoCall EXCEPT !.pc = "lock", !.edit = e, !.result = "asked"]]
  BY DEF Ask, Update
<1> DEFINE new == [NoCall EXCEPT !.pc = "lock", !.edit = e, !.result = "asked"]
<1>2. /\ new \in Calls
      /\ new.pc = "lock" /\ new.temp = None /\ new.result = "asked"
  <2>1. NoCall \in Calls /\ NoCall.temp = None
    BY DEF NoCall, Calls, Pcs, Results, Tables, Edits
  <2>2. e \in Edits
    BY StoreAssumption
  <2> QED
    BY <2>1, <2>2 DEF Calls, Pcs, Results
<1>3. call[p].pc = "idle" /\ lock' = lock /\ storage' = storage
  BY DEF Ask
<1> HIDE DEF new
<1>4. Fits(new, file', disk') /\ FileInv'
  BY <1>2, <1>3, Facts DEF Fits, FileInv, ResultsAt, storage
<1> QED
  BY <1>1, <1>2, <1>3, <1>4, LockFacts, StepKeeps DEF storage, new

\* Lock takes the flock nobody holds.
LEMMA LockKeeps ==
  ASSUME IInv, NEW p \in Procs, Lock(p) PROVE IInv'
<1> DEFINE new == [call[p] EXCEPT !.pc = "load"]
<1>1. call[p] \in Calls
  BY Facts
<1>2. call' = [call EXCEPT ![p] = new] /\ call[p].pc = "lock"
  BY DEF Lock, Update, Goto, Finish, CallFaults
<1>3. new \in Calls /\ new.pc = "load" /\ new.temp = call[p].temp /\ new.result = call[p].result
  BY <1>1 DEF Calls, Pcs, Results, Tables
<1>4. /\ lock' \in Locks /\ lock'.depth[p] = 1 /\ lock'.owner = p
      /\ \A q \in Procs \ {p} : lock'.depth[q] = lock.depth[q] /\ (lock'.owner = q <=> lock.owner = q)
  <2>1. \A q \in Procs : q # None
    BY StoreAssumption
  <2>2. lock.depth[p] = 0 /\ lock.owner = None /\ lock' = Entered(p, lock)
    BY <1>2, LockFacts DEF Lock, MayEnter
  <2> QED
    BY <2>1, <2>2, LockFacts, EnteredAfter
<1> HIDE DEF new
<1>5. Fits(new, file', disk') /\ FileInv'
  BY <1>2, <1>3, Facts DEF Lock, Fits, FileInv, ResultsAt, storage
<1> QED
  BY <1>2, <1>3, <1>4, <1>5, LockFacts, StepKeeps DEF Lock, storage

\* Load enters the lock and leaves it; what it loaded is what the file is.
LEMMA LoadKeeps ==
  ASSUME IInv, NEW p \in Procs, Load(p) PROVE IInv'
<1>1. call[p] \in Calls /\ call[p].pc = "load"
  BY Facts DEF Load
<1>2. call[p].temp = None /\ call[p].result = "asked"
  BY <1>1, Facts DEF Fits, ResultsAt
<1>3. lock' = lock /\ storage' = storage
  BY <1>1, LockFacts, NestedUse DEF Load
<1>4. CASE Finish(p, "refused")
  <2> DEFINE new == [call[p] EXCEPT !.pc = "return", !.temp = None, !.result = "refused"]
  <2>1. new \in Calls /\ new.pc = "return" /\ new.temp = None /\ new.result = "refused"
    BY <1>1 DEF Calls, Pcs, Results
  <2>2. call' = [call EXCEPT ![p] = new]
    BY <1>4 DEF Finish, Update
  <2> HIDE DEF new
  <2>3. Fits(new, file', disk') /\ FileInv'
    BY <1>3, <2>1, Facts DEF Fits, FileInv, ResultsAt, storage
  <2> QED
    BY <1>1, <1>3, <2>1, <2>2, <2>3, LockFacts, StepKeeps DEF storage
<1>5. CASE /\ Saves(call[p].edit, file)
           /\ Update(p, [call[p] EXCEPT !.pc = "temp", !.copy = Edited(call[p].edit, file)])
  <2> DEFINE new == [call[p] EXCEPT !.pc = "temp", !.copy = Edited(call[p].edit, file)]
  <2>1. Edited(call[p].edit, file) \in Tables
    BY <1>1, Facts, EditedIsTable DEF Calls
  <2>2. /\ new \in Calls /\ new.pc = "temp" /\ new.temp = None /\ new.result = "asked"
        /\ new.edit = call[p].edit /\ new.copy = Edited(call[p].edit, file)
    BY <1>1, <1>2, <2>1 DEF Calls, Pcs
  <2>3. call' = [call EXCEPT ![p] = new]
    BY <1>5 DEF Update
  <2> HIDE DEF new
  <2>4. Fits(new, file', disk') /\ FileInv'
    BY <1>3, <1>5, <2>2, Facts DEF Fits, FileInv, ResultsAt, storage
  <2> QED
    BY <1>1, <1>3, <2>2, <2>3, <2>4, LockFacts, StepKeeps DEF storage
<1> QED
  BY <1>4, <1>5, Facts DEF Load

\* MakeTemp enters the lock a second time.
LEMMA MakeTempKeeps ==
  ASSUME IInv, NEW p \in Procs, MakeTemp(p) PROVE IInv'
<1> DEFINE new == [call[p] EXCEPT !.pc = "write", !.temp = "unsynced"]
<1>1. call[p] \in Calls
  BY Facts
<1>2. call' = [call EXCEPT ![p] = new] /\ call[p].pc = "temp"
  BY DEF MakeTemp, Update, Goto, Finish, CallFaults
<1>3. new \in Calls /\ new.pc = "write" /\ new.temp = "unsynced" /\ new.result = call[p].result
      /\ new.edit = call[p].edit /\ new.copy = call[p].copy
  BY <1>1 DEF Calls, Pcs, Results, Tables
<1>4. /\ lock' \in Locks /\ lock'.depth[p] = 2 /\ lock'.owner = p
      /\ \A q \in Procs \ {p} : lock'.depth[q] = lock.depth[q] /\ (lock'.owner = q <=> lock.owner = q)
  BY <1>2, LockFacts, EnteredAfter DEF MakeTemp
<1> HIDE DEF new
<1>5. Fits(new, file', disk') /\ FileInv'
  BY <1>2, <1>3, Facts DEF MakeTemp, Fits, FileInv, ResultsAt, storage
<1> QED
  BY <1>2, <1>3, <1>4, <1>5, LockFacts, StepKeeps DEF MakeTemp, storage

\* WriteTemp changes the temporary file only.
LEMMA WriteTempKeeps ==
  ASSUME IInv, NEW p \in Procs, WriteTemp(p) PROVE IInv'
<1> DEFINE new == [call[p] EXCEPT !.pc = "replace", !.temp = "synced"]
<1>1. call[p] \in Calls
  BY Facts
<1>2. call' = [call EXCEPT ![p] = new] /\ call[p].pc = "write"
  BY DEF WriteTemp, Update, Goto, Finish, CallFaults
<1>3. new \in Calls /\ new.pc = "replace" /\ new.temp = "synced" /\ new.result = call[p].result
      /\ new.edit = call[p].edit /\ new.copy = call[p].copy
  BY <1>1 DEF Calls, Pcs, Results, Tables
<1>4. /\ lock' \in Locks /\ lock'.depth[p] = 2 /\ lock'.owner = p
      /\ \A q \in Procs \ {p} : lock'.depth[q] = lock.depth[q] /\ (lock'.owner = q <=> lock.owner = q)
  BY <1>2, LockFacts DEF WriteTemp
<1> HIDE DEF new
<1>5. Fits(new, file', disk') /\ FileInv'
  BY <1>2, <1>3, Facts DEF WriteTemp, Fits, FileInv, ResultsAt, storage
<1> QED
  BY <1>2, <1>3, <1>4, <1>5, LockFacts, StepKeeps DEF WriteTemp, storage

\* Replace puts a synced table in the place of the old one.
LEMMA ReplaceKeeps ==
  ASSUME IInv, NEW p \in Procs, Replace(p) PROVE IInv'
<1> DEFINE new == [call[p] EXCEPT !.pc = "directory", !.temp = None, !.result = "applied"]
<1>1. call[p] \in Calls
  BY Facts
<1>2. call' = [call EXCEPT ![p] = new] /\ call[p].pc = "replace"
  BY DEF Replace, Update, Goto, Finish, CallFaults
<1>3. new \in Calls /\ new.pc = "directory" /\ new.temp = None /\ new.result = "applied"
  BY <1>1 DEF Calls, Pcs, Results, Tables
<1>4. /\ lock' \in Locks /\ lock'.depth[p] = 2 /\ lock'.owner = p
      /\ \A q \in Procs \ {p} : lock'.depth[q] = lock.depth[q] /\ (lock'.owner = q <=> lock.owner = q)
  BY <1>2, LockFacts DEF Replace
<1> HIDE DEF new
<1>5. Fits(new, file', disk') /\ FileInv'
  BY <1>2, <1>3, Facts DEF Replace, Fits, FileInv, ResultsAt, storage, Calls
<1> QED
  BY <1>2, <1>3, <1>4, <1>5, LockFacts, StepKeeps DEF Replace, storage

\* SyncDirectory leaves the inner lock.
LEMMA SyncDirectoryKeeps ==
  ASSUME IInv, NEW p \in Procs, SyncDirectory(p) PROVE IInv'
<1> DEFINE new == [call[p] EXCEPT !.pc = "return"]
<1>1. call[p] \in Calls
  BY Facts
<1>2. call' = [call EXCEPT ![p] = new] /\ call[p].pc = "directory"
  BY DEF SyncDirectory, Update, Goto, Finish, CallFaults
<1>3. new \in Calls /\ new.pc = "return" /\ new.temp = call[p].temp /\ new.result = call[p].result
  BY <1>1 DEF Calls, Pcs, Results, Tables
<1>4. /\ lock' \in Locks /\ lock'.depth[p] = 1 /\ lock'.owner = p
      /\ \A q \in Procs \ {p} : lock'.depth[q] = lock.depth[q] /\ (lock'.owner = q <=> lock.owner = q)
  BY <1>2, LockFacts, LeftAfter DEF SyncDirectory
<1> HIDE DEF new
<1>5. Fits(new, file', disk') /\ FileInv'
  BY <1>2, <1>3, Facts DEF SyncDirectory, Fits, FileInv, ResultsAt, storage
<1> QED
  BY <1>2, <1>3, <1>4, <1>5, LockFacts, StepKeeps DEF SyncDirectory, storage

\* An error leaves the inner lock if it was entered.
LEMMA FailKeeps ==
  ASSUME IInv, NEW p \in Procs, Fail(p) PROVE IInv'
<1> DEFINE new == [call[p] EXCEPT !.pc = "return", !.temp = None, !.result = "failed"]
<1>1. call[p] \in Calls
  BY Facts
<1>2. call' = [call EXCEPT ![p] = new] /\ call[p].pc \in CallFaults
  BY DEF Fail, Update, Goto, Finish, CallFaults
<1>3. new \in Calls /\ new.pc = "return" /\ new.temp = None /\ new.result = "failed"
  BY <1>1 DEF Calls, Pcs, Results, Tables
<1>4. /\ lock' \in Locks /\ lock'.depth[p] = 1 /\ lock'.owner = p
      /\ \A q \in Procs \ {p} : lock'.depth[q] = lock.depth[q] /\ (lock'.owner = q <=> lock.owner = q)
  BY <1>2, LockFacts, LeftAfter DEF Fail, CallFaults
<1> HIDE DEF new
<1>5. Fits(new, file', disk') /\ FileInv'
  BY <1>2, <1>3, Facts DEF Fail, Fits, FileInv, ResultsAt, storage
<1> QED
  BY <1>2, <1>3, <1>4, <1>5, LockFacts, StepKeeps DEF Fail, storage

\* Return gives the flock up.
LEMMA ReturnKeeps ==
  ASSUME IInv, NEW p \in Procs, Return(p) PROVE IInv'
<1> DEFINE new == [call[p] EXCEPT !.pc = "idle", !.result = IF @ = "applied" THEN "ok" ELSE @]
<1>1. call[p] \in Calls
  BY Facts
<1>2. call' = [call EXCEPT ![p] = new] /\ call[p].pc = "return"
  BY DEF Return, Update, Goto, Finish, CallFaults
<1>3. new \in Calls /\ new.pc = "idle" /\ new.temp = call[p].temp
      /\ new.result = IF call[p].result = "applied" THEN "ok" ELSE call[p].result
  BY <1>1 DEF Calls, Pcs, Results, Tables
<1>4. /\ lock' \in Locks /\ lock'.depth[p] = 0 /\ lock'.owner # p
      /\ \A q \in Procs \ {p} : lock'.depth[q] = lock.depth[q] /\ (lock'.owner = q <=> lock.owner = q)
  <2>1. \A q \in Procs : q # None
    BY StoreAssumption
  <2> QED
    BY <1>2, <2>1, LockFacts, LeftAfter DEF Return
<1> HIDE DEF new
<1>5. Fits(new, file', disk') /\ FileInv'
  BY <1>2, <1>3, Facts DEF Return, Fits, FileInv, ResultsAt, storage
<1> QED
  BY <1>2, <1>3, <1>4, <1>5, LockFacts, StepKeeps DEF Return, storage

\* A dead process gives it up whatever its depth,
LEMMA CrashKeeps ==
  ASSUME IInv, NEW p \in Procs, Crash(p) PROVE IInv'
<1> DEFINE new == [NoCall EXCEPT !.edit = call[p].edit]
<1>1. new \in Calls /\ new.pc = "idle" /\ new.temp = None /\ new.result = "idle"
  <2>1. NoCall \in Calls /\ NoCall.pc = "idle" /\ NoCall.temp = None /\ NoCall.result = "idle"
    BY DEF NoCall, Calls, Pcs, Results, Tables, Edits
  <2>2. call[p].edit \in Edits
    BY Facts DEF Calls
  <2> QED
    BY <2>1, <2>2 DEF Calls
<1>2. call' = [call EXCEPT ![p] = new] /\ storage' = storage
  BY DEF Crash, Update
<1>3. \A q \in Procs : q # None
  BY StoreAssumption
<1>4. /\ lock' \in Locks /\ lock'.depth[p] = 0 /\ lock'.owner # p
      /\ \A q \in Procs \ {p} : lock'.depth[q] = lock.depth[q] /\ (lock'.owner = q <=> lock.owner = q)
  BY <1>3, LockFacts DEF Crash, Freed, Locks
<1> HIDE DEF new
<1>5. Fits(new, file', disk') /\ FileInv'
  BY <1>1, <1>2, Facts DEF Fits, FileInv, ResultsAt, storage
<1> QED
  BY <1>1, <1>2, <1>4, <1>5, LockFacts, StepKeeps DEF storage

\* and so does everybody in a power cut, which leaves a table behind.
LEMMA PowerCutKeeps ==
  ASSUME IInv, PowerCut PROVE IInv'
<1>1. file' \in {file, disk} /\ disk' = file' /\ synced' = TRUE /\ lock' = NoLock
  BY DEF PowerCut, IInv, FileInv
<1>2. ASSUME NEW p \in Procs
      PROVE  /\ call'[p] \in Calls
             /\ call'[p].pc = "idle" /\ call'[p].temp = None /\ call'[p].result = "idle"
  <2>1. NoCall \in Calls /\ NoCall.pc = "idle" /\ NoCall.temp = None /\ NoCall.result = "idle"
    BY DEF NoCall, Calls, Pcs, Results, Tables, Edits
  <2>2. call[p].edit \in Edits
    BY Facts DEF Calls
  <2>3. call'[p] = [NoCall EXCEPT !.edit = call[p].edit]
    BY DEF PowerCut
  <2> QED
    BY <2>1, <2>2, <2>3 DEF Calls
<1>3. call' \in [Procs -> Calls]
  <2>1. call' = [p \in Procs |-> [NoCall EXCEPT !.edit = call[p].edit]]
    BY DEF PowerCut
  <2> QED
    BY <1>2, <2>1
<1>4. \A q \in Procs : q # None
  BY StoreAssumption
<1>5. FileInv' /\ TypeOK'
  BY <1>1, <1>3 DEF IInv, TypeOK, FileInv, NoLock, Calls, Contents
<1>6. LockInv'
  BY <1>1, <1>2, <1>4 DEF LockInv, NoLock
<1>7. CallInv'
  BY <1>1, <1>2 DEF CallInv, Fits, ResultsAt
<1> QED
  BY <1>5, <1>6, <1>7 DEF IInv

\* What the kernel writes back is what the path names.
LEMMA WriteBackKeeps ==
  ASSUME IInv, WriteBack PROVE IInv'
<1>1. /\ file' = file /\ lock' = lock /\ call' = call
      /\ disk' = file /\ synced' = TRUE
  BY DEF WriteBack
<1> QED
  BY <1>1 DEF IInv, TypeOK, FileInv, LockInv, CallInv, Fits, ResultsAt

\* The invariant holds at first.
LEMMA InitInvariant == Init => IInv
<1> SUFFICES ASSUME Init PROVE IInv
  OBVIOUS
<1>1. NoCall \in Calls /\ NoCall.pc = "idle" /\ NoCall.temp = None /\ NoCall.result = "idle"
  BY DEF NoCall, Calls, Pcs, Results, Tables, Edits
<1>2. \A p \in Procs : call[p] = NoCall /\ lock.depth[p] = 0 /\ lock.owner # p
  BY StoreAssumption DEF Init, NoLock
<1>3. FileInv /\ TypeOK
  BY <1>1 DEF Init, TypeOK, FileInv, NoLock, Calls, Contents, Tables
<1>4. LockInv /\ CallInv
  BY <1>1, <1>2 DEF LockInv, CallInv, Fits, ResultsAt
<1> QED
  BY <1>3, <1>4 DEF IInv

\* The invariant holds of every reachable state.
THEOREM Invariance == Spec => []IInv
<1>1. ASSUME IInv, [Next]_vars PROVE IInv'
  <2>1. ASSUME NEW p \in Procs, Ask(p) \/ Lock(p) \/ Step(p) \/ Crash(p) PROVE IInv'
    BY <1>1, <2>1, AskKeeps, LockKeeps, LoadKeeps, MakeTempKeeps, WriteTempKeeps,
       ReplaceKeeps, SyncDirectoryKeeps, FailKeeps, ReturnKeeps, CrashKeeps DEF Step
  <2>2. CASE UNCHANGED vars
    BY <1>1, <2>2 DEF vars, IInv, TypeOK, LockInv, FileInv, CallInv
  <2> QED
    BY <1>1, <2>1, <2>2, PowerCutKeeps, WriteBackKeeps DEF Next
<1> QED
  BY <1>1, InitInvariant, PTL DEF Spec

---------------------------------------------------------------------------
(* What follows. *)

\* Every variable keeps its type; in particular no process enters the lock more
\* than twice.
THEOREM TypeCorrect == Spec => []TypeOK
  BY Invariance, PTL DEF IInv

\* A use case that is over holds no lock and has no temporary file, however it
\* ended.
THEOREM NothingLeft == Spec => []LeavesNothingBehind
<1>1. IInv => LeavesNothingBehind
  BY LockFacts, Facts DEF LeavesNothingBehind, Fits
<1> QED
  BY <1>1, Invariance, PTL

---------------------------------------------------------------------------
(* The store implements the registry. *)

Asked == [p \in Procs |-> call[p].edit]
State == [p \in Procs |-> call[p].result]

\* The registry speaks of the same edits.
LEMMA SameEdits ==
  /\ Store!Edits = Edits /\ Store!Reading = Reading
  /\ \A e, table : /\ Store!Saves(e, table) = Saves(e, table)
                   /\ Store!Edited(e, table) = Edited(e, table)
<1>1. Store!Edits = Edits /\ Store!Reading = Reading
  BY DEF Store!Edits, Edits, Store!Reading, Reading
<1>2. ASSUME NEW e, NEW table
      PROVE  /\ Store!Saves(e, table) = Saves(e, table)
             /\ Store!Edited(e, table) = Edited(e, table)
  BY Zenon DEF Store!Saves, Saves, Store!Edited, Edited, Store!Others, Others, Store!Added, Added,
               Store!KeysOf, KeysOf
<1> QED
  BY <1>1, <1>2

\* A step of one process changes what that process asked for and was told.
LEMMA OneCaller ==
  ASSUME IInv, NEW p \in Procs, NEW new, call' = [call EXCEPT ![p] = new]
  PROVE  /\ Asked' = [Asked EXCEPT ![p] = new.edit]
         /\ State' = [State EXCEPT ![p] = new.result]
         /\ Asked[p] = call[p].edit /\ State[p] = call[p].result
         /\ new.edit = call[p].edit => Asked' = Asked
         /\ new.result = call[p].result => State' = State
<1>1. call \in [Procs -> Calls]
  BY DEF IInv, TypeOK, Calls
<1>2. \A q \in Procs : call'[q] = IF q = p THEN new ELSE call[q]
  BY <1>1
<1>3. Asked' = [q \in Procs |-> call'[q].edit] /\ State' = [q \in Procs |-> call'[q].result]
  BY DEF Asked, State
<1>4. /\ [Asked EXCEPT ![p] = new.edit] =
            [q \in Procs |-> IF q = p THEN new.edit ELSE call[q].edit]
      /\ [State EXCEPT ![p] = new.result] =
            [q \in Procs |-> IF q = p THEN new.result ELSE call[q].result]
  BY DEF Asked, State
<1>5. /\ Asked' = [Asked EXCEPT ![p] = new.edit]
      /\ State' = [State EXCEPT ![p] = new.result]
  BY <1>2, <1>3, <1>4
<1>6. Asked[p] = call[p].edit /\ State[p] = call[p].result
  BY DEF Asked, State
<1>7. new.edit = call[p].edit => Asked' = Asked
  BY <1>2, <1>3 DEF Asked
<1>8. new.result = call[p].result => State' = State
  BY <1>2, <1>3 DEF State
<1> QED
  BY <1>5, <1>6, <1>7, <1>8

\* A step that leaves the storage and what was asked and told alone is none of
\* the registry's.
LEMMA Silent ==
  ASSUME IInv, NEW p \in Procs, NEW new, call' = [call EXCEPT ![p] = new],
         new.edit = call[p].edit, new.result = call[p].result, file' = file, disk' = disk
  PROVE  UNCHANGED Store!vars
<1>1. Asked' = Asked /\ State' = State
  BY OneCaller
<1> QED
  BY <1>1 DEF Store!vars, Asked, State

\* Ask is the registry's Ask,
LEMMA AskAsks ==
  ASSUME IInv, NEW p \in Procs, Ask(p) PROVE Store!Ask(p)
<1>1. PICK e \in Requests :
        call' = [call EXCEPT ![p] = [NoCall EXCEPT !.pc = "lock", !.edit = e, !.result = "asked"]]
  BY DEF Ask, Update
<1> DEFINE new == [NoCall EXCEPT !.pc = "lock", !.edit = e, !.result = "asked"]
<1>2. /\ Asked' = [Asked EXCEPT ![p] = e]
      /\ State' = [State EXCEPT ![p] = "asked"]
  <2>1. new.edit = e /\ new.result = "asked"
    BY DEF NoCall
  <2> HIDE DEF new
  <2>2. Asked' = [Asked EXCEPT ![p] = new.edit]
    BY <1>1, OneCaller DEF new
  <2>3. State' = [State EXCEPT ![p] = new.result]
    BY <1>1, OneCaller DEF new
  <2> QED
    BY <2>1, <2>2, <2>3
<1>3. State[p] \in Store!Settled /\ e \in Edits
  BY Facts, StoreAssumption DEF Ask, Fits, ResultsAt, State, Store!Settled
<1> QED
  BY <1>2, <1>3, SameEdits DEF Ask, Store!Ask, Asked, State, storage

\* Lock is silent,
LEMMA LockSilent ==
  ASSUME IInv, NEW p \in Procs, Lock(p) PROVE UNCHANGED Store!vars
<1> DEFINE new == [call[p] EXCEPT !.pc = "load"]
<1>1. call[p] \in Calls
  BY Facts
<1>2. new.edit = call[p].edit /\ new.result = call[p].result
  BY <1>1 DEF Calls
<1>3. call' = [call EXCEPT ![p] = new]
  BY DEF Lock, Goto, Update
<1> QED
  BY <1>2, <1>3, Silent DEF Lock, storage

\* Load refuses an edit or is silent,
LEMMA LoadRefuses ==
  ASSUME IInv, NEW p \in Procs, Load(p) PROVE Store!Refuse(p) \/ UNCHANGED Store!vars
<1>1. call[p] \in Calls /\ call[p].pc = "load" /\ call[p].result = "asked"
  BY Facts DEF Load, Fits, ResultsAt
<1>2. CASE /\ ~Saves(call[p].edit, file)
           /\ Finish(p, "refused")
  <2> DEFINE new == [call[p] EXCEPT !.pc = "return", !.temp = None, !.result = "refused"]
  <2>1. new.edit = call[p].edit /\ new.result = "refused"
    BY <1>1 DEF Calls
  <2>2. call' = [call EXCEPT ![p] = new]
    BY <1>2 DEF Finish, Update
  <2> HIDE DEF new
  <2>3. Asked' = Asked /\ State' = [State EXCEPT ![p] = "refused"] /\ State[p] = "asked"
        /\ Asked[p] = call[p].edit
    <3>1. State' = [State EXCEPT ![p] = new.result]
      BY <2>2, OneCaller
    <3>2. State' = [State EXCEPT ![p] = "refused"]
      BY <2>1, <3>1
    <3>3. Asked' = Asked /\ State[p] = "asked" /\ Asked[p] = call[p].edit
      BY <1>1, <2>1, <2>2, OneCaller
    <3> QED
      BY <3>2, <3>3
  <2> QED
    BY <1>2, <2>3, SameEdits DEF Store!Refuse, Asked, State, Load, storage
<1>3. CASE Update(p, [call[p] EXCEPT !.pc = "temp", !.copy = Edited(call[p].edit, file)])
  <2> DEFINE new == [call[p] EXCEPT !.pc = "temp", !.copy = Edited(call[p].edit, file)]
  <2>1. new.edit = call[p].edit /\ new.result = call[p].result
    BY <1>1 DEF Calls
  <2>2. call' = [call EXCEPT ![p] = new]
    BY <1>3 DEF Update
  <2> QED
    BY <2>1, <2>2, Silent DEF Load, storage
<1> QED
  BY <1>2, <1>3, Facts DEF Load

\* MakeTemp is silent,
LEMMA MakeTempSilent ==
  ASSUME IInv, NEW p \in Procs, MakeTemp(p) PROVE UNCHANGED Store!vars
<1> DEFINE new == [call[p] EXCEPT !.pc = "write", !.temp = "unsynced"]
<1>1. call[p] \in Calls
  BY Facts
<1>2. new.edit = call[p].edit /\ new.result = call[p].result
  BY <1>1 DEF Calls
<1>3. call' = [call EXCEPT ![p] = new]
  BY DEF MakeTemp, Goto, Update
<1> QED
  BY <1>2, <1>3, Silent DEF MakeTemp, storage

\* WriteTemp is silent,
LEMMA WriteTempSilent ==
  ASSUME IInv, NEW p \in Procs, WriteTemp(p) PROVE UNCHANGED Store!vars
<1> DEFINE new == [call[p] EXCEPT !.pc = "replace", !.temp = "synced"]
<1>1. call[p] \in Calls
  BY Facts
<1>2. new.edit = call[p].edit /\ new.result = call[p].result
  BY <1>1 DEF Calls
<1>3. call' = [call EXCEPT ![p] = new]
  BY DEF WriteTemp, Goto, Update
<1> QED
  BY <1>2, <1>3, Silent DEF WriteTemp, storage

\* Replace applies it: the table is the one the process loaded,
LEMMA ReplaceApplies ==
  ASSUME IInv, NEW p \in Procs, Replace(p) PROVE Store!Apply(p)
<1> DEFINE new == [call[p] EXCEPT !.pc = "directory", !.temp = None, !.result = "applied"]
<1>1. call[p] \in Calls /\ call[p].pc = "replace" /\ call[p].result = "asked"
      /\ Saves(call[p].edit, file) /\ call[p].copy = Edited(call[p].edit, file)
  BY Facts DEF Replace, Fits, ResultsAt
<1>2. new.edit = call[p].edit /\ new.result = "applied"
  BY <1>1 DEF Calls
<1>3. call' = [call EXCEPT ![p] = new]
  BY DEF Replace, Update
<1> HIDE DEF new
<1>4. Asked' = Asked /\ State' = [State EXCEPT ![p] = "applied"] /\ State[p] = "asked"
      /\ Asked[p] = call[p].edit
  <2>1. State' = [State EXCEPT ![p] = new.result]
    BY <1>3, OneCaller
  <2>2. State' = [State EXCEPT ![p] = "applied"]
    BY <1>2, <2>1
  <2>3. Asked' = Asked /\ State[p] = "asked" /\ Asked[p] = call[p].edit
    BY <1>1, <1>2, <1>3, OneCaller
  <2> QED
    BY <2>2, <2>3
<1> QED
  BY <1>1, <1>4, SameEdits DEF Replace, Store!Apply, Asked, State

\* SyncDirectory persists it or is silent,
LEMMA SyncPersists ==
  ASSUME IInv, NEW p \in Procs, SyncDirectory(p)
  PROVE  Store!Persist \/ UNCHANGED Store!vars
<1> DEFINE new == [call[p] EXCEPT !.pc = "return"]
<1>1. call[p] \in Calls
  BY Facts
<1>2. new.edit = call[p].edit /\ new.result = call[p].result
  BY <1>1 DEF Calls
<1>3. call' = [call EXCEPT ![p] = new] /\ file' = file /\ disk' \in {file, disk}
  BY DEF SyncDirectory, Goto, Update
<1> HIDE DEF new
<1>4. Asked' = Asked /\ State' = State
  BY <1>2, <1>3, OneCaller
<1> QED
  BY <1>3, <1>4 DEF Store!Persist, Store!vars, Asked, State

\* an error is a failure of the edit, never after it was applied,
LEMMA FailFails ==
  ASSUME IInv, NEW p \in Procs, Fail(p) PROVE Store!Fail(p)
<1> DEFINE new == [call[p] EXCEPT !.pc = "return", !.temp = None, !.result = "failed"]
<1>1. call[p] \in Calls /\ call[p].result = "asked"
  BY Facts DEF Fail, Fits, ResultsAt, CallFaults
<1>2. new.edit = call[p].edit /\ new.result = "failed"
  BY <1>1 DEF Calls
<1>3. call' = [call EXCEPT ![p] = new]
  BY DEF Fail, Finish, Update
<1> HIDE DEF new
<1>4. Asked' = Asked /\ State' = [State EXCEPT ![p] = "failed"] /\ State[p] = "asked"
  <2>1. State' = [State EXCEPT ![p] = new.result]
    BY <1>3, OneCaller
  <2>2. State' = [State EXCEPT ![p] = "failed"]
    BY <1>2, <2>1
  <2>3. Asked' = Asked /\ State[p] = "asked" /\ Asked[p] = call[p].edit
    BY <1>1, <1>2, <1>3, OneCaller
  <2> QED
    BY <2>2, <2>3
<1> QED
  BY <1>4 DEF Fail, Store!Fail, Asked, State, storage

\* Return confirms what was applied and is silent otherwise,
LEMMA ReturnConfirms ==
  ASSUME IInv, NEW p \in Procs, Return(p) PROVE Store!Confirm(p) \/ UNCHANGED Store!vars
<1> DEFINE said == IF call[p].result = "applied" THEN "ok" ELSE call[p].result
           new  == [call[p] EXCEPT !.pc = "idle", !.result = said]
<1>1. call[p] \in Calls
  BY Facts
<1>2. new.edit = call[p].edit /\ new.result = said
  BY <1>1 DEF Calls
<1>3. call' = [call EXCEPT ![p] = new] /\ file' = file /\ disk' = disk
  BY DEF Return, Update, storage
<1>4. call[p].result = "applied" /\ "directory" \notin Faults => disk = file
  BY Facts DEF Return, Fits
<1> HIDE DEF new
<1>5. CASE call[p].result = "applied"
  <2>1. State' = [State EXCEPT ![p] = new.result] /\ State[p] = "applied"
    BY <1>3, <1>5, OneCaller
  <2>2. new.result = "ok"
    BY <1>2, <1>5 DEF said
  <2>3. State' = [State EXCEPT ![p] = "ok"]
    BY <2>1, <2>2
  <2>4. Asked' = Asked
    BY <1>2, <1>3, OneCaller
  <2> QED
    BY <1>3, <1>4, <1>5, <2>1, <2>3, <2>4 DEF Store!Confirm, Asked, State
<1>6. CASE call[p].result # "applied"
  BY <1>2, <1>3, <1>6, Silent DEF said
<1> QED
  BY <1>5, <1>6

\* and the deaths are the registry's.
LEMMA CrashDies ==
  ASSUME IInv, NEW p \in Procs, Crash(p) PROVE Store!Die(p)
<1> DEFINE new == [NoCall EXCEPT !.edit = call[p].edit]
<1>1. new.edit = call[p].edit /\ new.result = "idle"
  BY DEF NoCall
<1>2. call' = [call EXCEPT ![p] = new]
  BY DEF Crash, Update
<1> HIDE DEF new
<1>3. Asked' = Asked /\ State' = [State EXCEPT ![p] = "idle"]
  <2>1. State' = [State EXCEPT ![p] = new.result]
    BY <1>2, OneCaller
  <2>2. State' = [State EXCEPT ![p] = "idle"]
    BY <1>1, <2>1
  <2>3. Asked' = Asked
    BY <1>1, <1>2, OneCaller
  <2> QED
    BY <2>2, <2>3
<1> QED
  BY <1>3 DEF Crash, Store!Die, Asked, State, storage

\* A power cut is the registry's.
LEMMA PowerCutCuts ==
  ASSUME IInv, PowerCut PROVE Store!PowerCut
<1>1. \A p \in Procs : call'[p].edit = call[p].edit /\ call'[p].result = "idle"
  BY DEF PowerCut, NoCall
<1>2. Asked' = Asked /\ State' = [p \in Procs |-> "idle"]
  BY <1>1 DEF Asked, State
<1>3. file' \in {file, disk} /\ disk' = file'
  BY DEF PowerCut, IInv, FileInv
<1> QED
  BY <1>2, <1>3 DEF Store!PowerCut, Asked, State

\* What the kernel writes back is persisted.
LEMMA WriteBackPersists ==
  ASSUME WriteBack PROVE Store!Persist
<1>1. call' = call /\ file' = file /\ disk' = file
  BY DEF WriteBack
<1> QED
  BY <1>1 DEF Store!Persist

\* For every set of processes, requests and faults, the store keeps its promise:
\* edits are atomic and none is lost, whatever interleaves, fails, is killed or
\* loses power, and "ok" is said of what is saved (on disk, if no directory
\* fsync fails).
THEOREM Refinement == Spec => Promised
<1>1. Init => Store!Init
  BY SameEdits DEF Init, Store!Init, NoCall
<1>2. ASSUME IInv, [Next]_vars PROVE [Store!Next]_(Store!vars)
  <2>1. ASSUME NEW p \in Procs, Ask(p) \/ Step(p) \/ Crash(p)
        PROVE  [Store!Next]_(Store!vars)
    BY <1>2, <2>1, AskAsks, LoadRefuses, ReplaceApplies, SyncPersists, FailFails,
       ReturnConfirms, CrashDies, MakeTempSilent, WriteTempSilent DEF Step, Store!Next
  <2>2. ASSUME NEW p \in Procs, Lock(p) PROVE UNCHANGED Store!vars
    BY <1>2, <2>2, LockSilent
  <2>3. CASE UNCHANGED vars
    BY <2>3 DEF vars, Store!vars
  <2> QED
    BY <1>2, <2>1, <2>2, <2>3, PowerCutCuts, WriteBackPersists DEF Next, Store!Next
<1> QED
  BY <1>1, <1>2, Invariance, PTL DEF Spec, Promised, Store!Spec
=============================================================================
