------------------------ MODULE ConfigurationProofs ------------------------
(***************************************************************************)
(* For any number of starting processes and runs of init, and any edits:   *)
(* what a process has checked is all it uses, because the first settings   *)
(* it got are cached; what check-config said of the files it has read stays*)
(* true until it runs, the provider apart; and the secret of init lies open*)
(* only in a file that was there before, until the chmod, or after a kill. *)
(***************************************************************************)
EXTENDS Configuration, TLAPS, FiniteSetTheorems

Resolvable == [Fields -> Values]

FileTypeOK == files \in [Paths -> Files \cup {None}] /\ environ \in Contents
InitTypeOK == init \in [Inits -> {"idle", "open", "write", "chmod"}]

\* Nobody removes the file under the hands of init.
InPlace == \A i \in Inits : init[i] \in {"write", "chmod"} => Own(i) # None

\* A file keeps the mode it was created with by init, or gets it from a chmod; what
\* sudo installs is such a file.
CreatedPrivate == \A path \in Paths : files[path] # None /\ files[path].by = "init" => files[path].private
Installed == \A i \in Inits : init[i] = "write" /\ ~Direct(i) => Own(i) # None /\ Own(i).private

\* A process has nothing, or one checked configuration that is cached and used.
Fresh(q) == q.stage = 1 /\ q.cached = None /\ q.used = {}
Holding(q) ==
  /\ q.command = "service" /\ q.stage \in 2 .. 4
  /\ q.cached \in Resolvable /\ Safe(q.cached) /\ q.used = {q.cached}
  /\ q.judged = "bad" => Allowed
Commands == {"none", "service", "check"}
Verdicts == {"none", "good", "bad"}
ProcRecord ==
  [command : Commands, stage : 1 .. 4, cached : Resolvable \cup {None}, used : SUBSET Resolvable,
   judged : Verdicts]
ProcInv == proc \in [Procs -> ProcRecord] /\ \A p \in Procs : Fresh(proc[p]) \/ Holding(proc[p])

\* The verdict is that on the files as they are.
VerdictInv ==
  /\ verdict \in Verdicts
  /\ verdict = "good" => Blessed(Resolved)
  /\ verdict = "bad" => ~Blessed(Resolved)

FileInv == FileTypeOK /\ InitTypeOK /\ InPlace /\ CreatedPrivate /\ Installed /\ SecretsAreSealed

IInv == FileInv /\ ProcInv /\ VerdictInv

---------------------------------------------------------------------------
(* Settings. *)

\* Settings are resolved to a value of every field, or not at all.
LEMMA ResolvedTypes ==
  ASSUME FileTypeOK
  PROVE  Resolved \in Resolvable \cup {Broken} /\ None \notin Resolvable \cup {Broken}
<1>1. Contents \subseteq [Fields -> Values \cup {"unset"}]
  BY ConfigAssumption
<1>2. ASSUME NEW said \in [Fields -> Values \cup {"unset"}]
      PROVE  Settled(said) \in Resolvable
  <2>1. \A f \in Fields : (IF said[f] = "unset" THEN Default(f) ELSE said[f]) \in Values
    BY DEF Default, Values
  <2> QED
    BY <2>1 DEF Settled, Resolvable
<1>3. ASSUME NEW content \in Contents
      PROVE  Merged(content) \in [Fields -> Values \cup {"unset"}]
  <2>1. \A f \in Fields : content[f] \in Values \cup {"unset"} /\ environ[f] \in Values \cup {"unset"}
    BY <1>1 DEF FileTypeOK
  <2> QED
    BY <2>1 DEF Merged
<1>4. Source \in Paths \cup {None} /\ (Source # None => Source \in Paths /\ files[Source] # None)
  <2>1. Override \in {"system", "user", None}
    BY ConfigAssumption DEF Paths
  <2> QED
    BY <2>1 DEF Source, Readable, Paths
<1>5. None \notin Resolvable \cup {Broken}
  BY ConfigAssumption DEF Resolvable
<1>6. CASE Source = None
  BY <1>1, <1>2, <1>5, <1>6 DEF Resolved, FileTypeOK
<1>7. CASE Source # None
  <2>1. files[Source].content \in Contents \cup {Torn}
    BY <1>4, <1>7 DEF FileTypeOK, Files
  <2> QED
    BY <2>1, <1>2, <1>3, <1>5, <1>7 DEF Resolved
<1> QED
  BY <1>6, <1>7

\* What is resolved depends on the files and the environment alone.
LEMMA ResolvedStays ==
  ASSUME UNCHANGED <<files, environ>>
  PROVE  Resolved' = Resolved
BY DEF Resolved, Source, Readable, Merged, Settled

---------------------------------------------------------------------------
(* Processes. *)

\* A step of the daemon's start goes on with checked settings, or ends it.
LEMMA ProceedSteps ==
  ASSUME FileTypeOK, ProcInv, VerdictInv, NEW p \in Procs, Proceed(p)
  PROVE  /\ proc' = [proc EXCEPT ![p] = proc'[p]]
         /\ proc'[p] \in ProcRecord /\ (Fresh(proc'[p]) \/ Holding(proc'[p]))
         /\ Verdict(p) = "bad" /\ ~Allowed => proc'[p] = NoProc
         /\ Verdict(p) = "good" /\ proc'[p] = NoProc =>
              Stages[proc[p].stage] = "sync" /\ ~Buildable(proc[p].cached)
<1> DEFINE q == proc[p]
           s == Settings(p)
           goes == Accepts(Stages[q.stage], s)
           said == IF q.stage = 1 THEN verdict ELSE q.judged
<1>1. q \in ProcRecord /\ (Fresh(q) \/ Holding(q)) /\ q.command = "service" /\ q.stage \in 1 .. 3
  <2>1. q \in ProcRecord /\ (Fresh(q) \/ Holding(q)) /\ q.command = "service" /\ Stages[q.stage] # "running"
    BY DEF ProcInv, Proceed
  <2>2. q.stage \in 1 .. 4 /\ q.stage # 4
    BY <2>1 DEF ProcRecord, Stages
  <2> QED
    BY <2>1, <2>2
<1>2. proc' = [proc EXCEPT ![p] = Advanced(q, s)]
  BY DEF Proceed
<1>3. proc'[p] = IF goes THEN [q EXCEPT !.stage = q.stage + 1, !.cached = s, !.used = q.used \cup {s},
                                         !.judged = said]
                 ELSE NoProc
  <2>1. proc'[p] = Advanced(q, s)
    BY <1>2 DEF ProcInv
  <2> QED
    BY <2>1 DEF Advanced
<1>4. proc' = [proc EXCEPT ![p] = proc'[p]]
  BY <1>2, <1>3
<1>5. NoProc \in ProcRecord /\ Fresh(NoProc)
  BY DEF NoProc, ProcRecord, Commands, Verdicts, Fresh
<1>6. /\ q.stage = 1 => s = Resolved
      /\ q.stage # 1 => s = q.cached /\ s \in Resolvable /\ Safe(s) /\ q.used = {s}
                          /\ (q.judged = "bad" => Allowed)
  BY <1>1, ResolvedTypes DEF Fresh, Holding, Settings
<1>7. Safe(s) => s # Broken
  BY DEF Safe
<1>8. /\ q.stage \in {1, 2} => (goes <=> Safe(s))
      /\ q.stage = 3 => (goes <=> Buildable(s)) /\ Stages[q.stage] = "sync"
  <2>1. q.stage \in {1, 2} => Stages[q.stage] \in {"start", "web"}
    BY DEF Stages
  <2>2. q.stage = 3 => Stages[q.stage] = "sync" /\ Safe(s)
    BY <1>6 DEF Stages
  <2> QED
    BY <2>1, <2>2, <1>7 DEF Accepts
<1>12. Verdict(p) = said /\ said \in Verdicts /\ NoProc.judged # "bad"
  BY <1>1 DEF Verdict, VerdictInv, ProcRecord, NoProc
<1>13. /\ said = "bad" /\ ~Allowed => q.stage = 1 /\ ~Safe(s)
       /\ said = "good" /\ q.stage = 1 => Safe(s)
  BY <1>6 DEF VerdictInv, Blessed, Safe
<1> HIDE DEF q, s, goes, said
<1>9. ASSUME goes
      PROVE  proc'[p] \in ProcRecord /\ Holding(proc'[p]) /\ proc'[p].stage = q.stage + 1
  <2>1. s \in Resolvable /\ Safe(s) /\ q.used \cup {s} = {s}
    <3>1. CASE q.stage = 1
      <4>1. Safe(s) /\ s = Resolved /\ q.used = {}
        BY <3>1, <1>1, <1>6, <1>8, <1>9 DEF Fresh, Holding
      <4> QED
        BY <4>1, <1>7, ResolvedTypes
    <3>2. CASE q.stage # 1
      BY <3>2, <1>6
    <3> QED
      BY <3>1, <3>2
  <2>2. proc'[p] = [q EXCEPT !.stage = q.stage + 1, !.cached = s, !.used = {s}, !.judged = said]
    BY <1>3, <1>9, <2>1
  <2>3. /\ proc'[p].command = "service" /\ proc'[p].stage = q.stage + 1
        /\ proc'[p].cached = s /\ proc'[p].used = {s} /\ proc'[p].judged = said
    BY <2>2, <1>1 DEF ProcRecord
  <2>4. q.stage + 1 \in 2 .. 4
    BY <1>1
  <2>5. {s} \in SUBSET Resolvable /\ q.stage + 1 \in 1 .. 4
    BY <2>1, <2>4
  <2>6. proc'[p] \in ProcRecord
    BY <2>1, <2>2, <2>5, <1>1, <1>12 DEF ProcRecord
  <2>7. said = "bad" => Allowed
    BY <2>1, <1>13
  <2> QED
    BY <2>1, <2>3, <2>4, <2>6, <2>7 DEF Holding
<1>10. CASE goes
  <2>1. proc'[p].stage # NoProc.stage /\ ~(said = "bad" /\ ~Allowed)
    BY <1>1, <1>8, <1>9, <1>10, <1>13 DEF NoProc
  <2> QED
    BY <1>4, <1>9, <1>10, <1>12, <2>1
<1>11. CASE ~goes
  <2>1. proc'[p] = NoProc
    BY <1>3, <1>11
  <2>2. said = "good" => q.stage = 3 /\ ~Buildable(s)
    BY <1>1, <1>6, <1>8, <1>11, <1>13
  <2>3. q.stage = 3 => s = q.cached /\ Stages[q.stage] = "sync"
    BY <1>6, <1>8
  <2> QED
    BY <1>4, <1>5, <1>12, <2>1, <2>2, <2>3 DEF q
<1> QED
  BY <1>10, <1>11

\* A process goes on to use what it has checked.
LEMMA ProcStep ==
  ASSUME FileTypeOK, ProcInv, VerdictInv, Next
  PROVE  ProcInv'
<1>1. CASE UNCHANGED proc
  BY <1>1 DEF ProcInv, Fresh, Holding, Safe, Problems
<1>2. ASSUME NEW p \in Procs, NEW new \in ProcRecord, Fresh(new) \/ Holding(new), proc' = [proc EXCEPT ![p] = new]
      PROVE  ProcInv'
  BY <1>2 DEF ProcInv
<1>3. NoProc \in ProcRecord /\ Fresh(NoProc)
  BY DEF NoProc, ProcRecord, Commands, Verdicts, Fresh
<1>4. ASSUME NEW p \in Procs, Launch(p)
      PROVE  ProcInv'
  <2>1. PICK c \in {"service", "check"} : proc' = [proc EXCEPT ![p].command = c]
    BY <1>4 DEF Launch
  <2>2. proc[p] = NoProc
    BY <1>4 DEF Launch
  <2>3. proc' = [proc EXCEPT ![p] = [NoProc EXCEPT !.command = c]]
    BY <2>1, <2>2
  <2>4. [NoProc EXCEPT !.command = c] \in ProcRecord /\ Fresh([NoProc EXCEPT !.command = c])
    BY DEF NoProc, ProcRecord, Commands, Verdicts, Fresh
  <2> QED
    BY <1>2, <2>3, <2>4
<1>5. ASSUME NEW p \in Procs, Proceed(p)
      PROVE  ProcInv'
  BY <1>2, <1>5, ProceedSteps
<1>6. ASSUME NEW p \in Procs, Check(p) \/ Stop(p)
      PROVE  ProcInv'
  BY <1>2, <1>3, <1>6 DEF Check, Stop
<1>7. ASSUME Edit \/ \E i \in Inits : Begin(i) \/ Open(i) \/ Write(i) \/ Chmod(i) \/ Abandon(i)
      PROVE  UNCHANGED proc
  BY <1>7 DEF Edit, Begin, Open, Write, Chmod, Abandon, procVars
<1> QED
  BY <1>1, <1>4, <1>5, <1>6, <1>7 DEF Next

\* What check-config said stays true until a file is touched.
LEMMA VerdictStep ==
  ASSUME FileTypeOK, ProcInv, VerdictInv, Next
  PROVE  VerdictInv'
<1>1. CASE verdict' = "none"
  BY <1>1 DEF VerdictInv, Verdicts
<1>2. CASE UNCHANGED <<files, environ, verdict>>
  <2>1. Resolved' = Resolved
    BY <1>2, ResolvedStays
  <2> QED
    BY <1>2, <2>1 DEF VerdictInv, Blessed, Problems
<1>3. ASSUME NEW p \in Procs, Check(p)
      PROVE  VerdictInv'
  <2>1. Settings(p) = Resolved
    <3>1. proc[p].cached = None
      BY <1>3 DEF Check, ProcInv, Fresh, Holding
    <3> QED
      BY <3>1 DEF Settings
  <2>2. Resolved' = Resolved
    BY <1>3, ResolvedStays DEF Check
  <2>3. verdict' = IF Blessed(Resolved) THEN "good" ELSE "bad"
    BY <1>3, <2>1 DEF Check
  <2> QED
    BY <2>2, <2>3 DEF VerdictInv, Verdicts, Blessed, Problems
<1>4. ASSUME NEW p \in Procs, Launch(p) \/ Proceed(p) \/ Stop(p)
      PROVE  UNCHANGED <<files, environ, verdict>>
  BY <1>4 DEF Launch, Proceed, Stop
<1>5. ASSUME NEW i \in Inits, Begin(i) \/ Abandon(i)
      PROVE  UNCHANGED <<files, environ, verdict>>
  BY <1>5 DEF Begin, Abandon, procVars
<1>6. ASSUME Edit \/ \E i \in Inits : Open(i) \/ Write(i) \/ Chmod(i)
      PROVE  verdict' = "none"
  BY <1>6 DEF Edit, Open, Write, Chmod, Put
<1> QED
  BY <1>1, <1>2, <1>3, <1>4, <1>5, <1>6 DEF Next

---------------------------------------------------------------------------
(* init and its file. *)

\* The invariant of the files outlives what init puts in the place of its file, if
\* that is private when init or install created it, and its secret is open to others
\* only in an earlier file that is about to be restricted.
LEMMA PutKeeps ==
  ASSUME FileInv, NEW file \in Files, file.by = "init" => file.private, UNCHANGED environ,
         NEW i \in Inits, Put(i, file), NEW step \in {"idle", "write", "chmod"}, Goto(i, step),
         ~Direct(i) => file.private,
         file.content = Generated /\ ~file.private => step = "chmod"
  PROVE  FileInv'
<1>1. /\ files' = [files EXCEPT ![Target[i]] = file] /\ Target[i] \in Paths /\ file # None
      /\ cut' = cut \ {Target[i]}
  BY ConfigAssumption DEF Put
<1>2. files' \in [Paths -> Files \cup {None}] /\ files'[Target[i]] = file
  BY <1>1 DEF FileInv, FileTypeOK
<1>3. FileTypeOK'
  BY <1>2 DEF FileInv, FileTypeOK
<1>4. InitTypeOK'
  BY DEF Goto, FileInv, InitTypeOK
<1>5. InPlace'
  BY <1>1, <1>2 DEF InPlace, Own, FileInv, FileTypeOK, InitTypeOK, Goto
<1>6. \A path \in Paths : files'[path] = IF path = Target[i] THEN file ELSE files[path]
  BY <1>1 DEF FileInv, FileTypeOK
<1>7. CreatedPrivate'
  BY <1>6 DEF FileInv, CreatedPrivate
<1>8. init'[i] = step /\ \A j \in Inits : j # i => init'[j] = init[j]
  BY DEF Goto, FileInv, InitTypeOK
<1>9. Installed'
  <2> SUFFICES ASSUME NEW j \in Inits, init'[j] = "write", ~Direct(j)
               PROVE  files'[Target[j]] # None /\ files'[Target[j]].private
    BY DEF Installed, Own, Direct
  <2>1. CASE Target[j] = Target[i]
    BY <1>1, <1>2, <2>1 DEF Direct
  <2>2. CASE Target[j] # Target[i]
    <3>1. init[j] = "write" /\ Target[j] \in Paths
      BY <1>8, <2>2, ConfigAssumption
    <3> QED
      BY <1>6, <2>2, <3>1 DEF FileInv, Installed, Own
  <2> QED
    BY <2>1, <2>2
<1>10. SecretsAreSealed'
  <2> SUFFICES ASSUME NEW path \in Paths, files'[path] # None, files'[path].content = Generated,
                      ~files'[path].private
               PROVE  /\ files'[path].by = "hand"
                      /\ path \in cut' \/ \E j \in Inits : Target[j] = path /\ init'[j] = "chmod"
    BY DEF SecretsAreSealed, Exposed
  <2>1. CASE path = Target[i]
    <3>1. file.by \in {"init", "hand"}
      BY DEF Files
    <3> QED
      BY <1>2, <1>8, <2>1, <3>1
  <2>2. CASE path # Target[i]
    <3>1. Exposed(path) /\ files'[path] = files[path]
      BY <1>6, <2>2 DEF Exposed
    <3>2. files[path].by = "hand" /\ (path \in cut \/ \E j \in Inits : Target[j] = path /\ init[j] = "chmod")
      BY <3>1 DEF FileInv, SecretsAreSealed
    <3> QED
      BY <1>1, <1>8, <2>2, <3>1, <3>2
  <2> QED
    BY <2>1, <2>2
<1> QED
  BY <1>3, <1>4, <1>5, <1>7, <1>9, <1>10 DEF FileInv

\* init opens or creates its file: what is there afterwards holds no secret, and is
\* private if init made it.
LEMMA OpenKeeps ==
  ASSUME FileInv, NEW i \in Inits, Open(i)
  PROVE  FileInv'
<1> DEFINE file == IF Direct(i) /\ Own(i) # None
                   THEN [Own(i) EXCEPT !.content = Torn]
                   ELSE [content |-> Torn, private |-> TRUE, readable |-> Direct(i), by |-> "init"]
<1>1. Put(i, file) /\ Goto(i, "write") /\ UNCHANGED environ
  BY DEF Open
<1>2. Torn # Generated
  BY ConfigAssumption
<1>3. CASE Direct(i) /\ Own(i) # None
  <2>1. Own(i) \in Files /\ (Own(i).by = "init" => Own(i).private)
    BY <1>3, ConfigAssumption DEF FileInv, FileTypeOK, CreatedPrivate, Own
  <2>2. file = [Own(i) EXCEPT !.content = Torn]
    BY <1>3
  <2> HIDE DEF file
  <2>3. file \in Files /\ (file.by = "init" => file.private) /\ file.content = Torn
    BY <2>1, <2>2 DEF Files
  <2> QED
    BY <1>1, <1>2, <1>3, <2>3, PutKeeps
<1>4. CASE ~(Direct(i) /\ Own(i) # None)
  <2>1. file = [content |-> Torn, private |-> TRUE, readable |-> Direct(i), by |-> "init"]
    BY <1>4
  <2> HIDE DEF file
  <2>2. file \in Files /\ file.private
    BY <2>1, ConfigAssumption DEF Files, Direct
  <2> QED
    BY <1>1, <2>2, PutKeeps
<1> QED
  BY <1>3, <1>4

\* init writes, and tightens the mode of, a file that is in its place.
LEMMA WorkKeeps ==
  ASSUME FileInv, NEW i \in Inits, Write(i) \/ Chmod(i)
  PROVE  FileInv'
<1>1. Own(i) \in Files /\ (Own(i).by = "init" => Own(i).private)
  BY ConfigAssumption DEF Write, Chmod, FileInv, FileTypeOK, InPlace, CreatedPrivate, Own
<1>2. CASE Write(i)
  <2> DEFINE file == [Own(i) EXCEPT !.content = Generated]
             step == IF Direct(i) THEN "chmod" ELSE "idle"
  <2>1. Put(i, file) /\ Goto(i, step) /\ UNCHANGED environ
    BY <1>2 DEF Write
  <2>2. file \in Files /\ (file.by = "init" => file.private) /\ file.private = Own(i).private
    BY <1>1, ConfigAssumption DEF Files
  <2>3. ~Direct(i) => Own(i).private
    BY <1>2 DEF Write, FileInv, Installed
  <2>4. step \in {"idle", "write", "chmod"} /\ (Direct(i) => step = "chmod")
    OBVIOUS
  <2> HIDE DEF file, step
  <2> QED
    BY <2>1, <2>2, <2>3, <2>4, PutKeeps
<1>3. CASE Chmod(i)
  <2> DEFINE file == Tightened(Own(i))
  <2>1. Put(i, file) /\ Goto(i, "idle") /\ UNCHANGED environ
    BY <1>3 DEF Chmod
  <2>2. file \in Files /\ file.private
    BY <1>1 DEF Files, Tightened
  <2> HIDE DEF file
  <2> QED
    BY <2>1, <2>2, PutKeeps
<1> QED
  BY <1>2, <1>3

\* An operator leaves the file alone while init writes it, and what he puts in its
\* place is not the secret of init.
LEMMA EditKeeps ==
  ASSUME FileInv, Edit
  PROVE  FileInv'
<1>1. PICK path \in Paths, file \in {f \in Files : f.by = "hand" /\ f.content \notin {Torn, Generated}} \cup {None} :
        /\ \A i \in Inits : path = Target[i] => init[i] \in {"idle", "open"}
        /\ files' = [files EXCEPT ![path] = file] /\ cut' = cut \ {path}
  BY DEF Edit
<1>2. UNCHANGED <<environ, init>>
  BY DEF Edit
<1>3. files' \in [Paths -> Files \cup {None}]
      /\ \A other \in Paths : files'[other] = IF other = path THEN file ELSE files[other]
  BY <1>1 DEF FileInv, FileTypeOK
<1>4. \A i \in Inits : init[i] \in {"write", "chmod"} => Target[i] \in Paths /\ files'[Target[i]] = files[Target[i]]
  BY <1>1, <1>3, ConfigAssumption
<1>5. InPlace' /\ Installed'
  BY <1>2, <1>4 DEF FileInv, InPlace, Installed, Own, Direct
<1>6. CreatedPrivate'
  BY <1>1, <1>3 DEF FileInv, CreatedPrivate
<1>7. \A other \in Paths : Exposed(other)' => other # path /\ Exposed(other) /\ files'[other] = files[other]
  BY <1>1, <1>3 DEF Exposed
<1>8. SecretsAreSealed'
  <2> SUFFICES ASSUME NEW other \in Paths, Exposed(other)'
               PROVE  /\ files'[other].by = "hand"
                      /\ other \in cut' \/ \E i \in Inits : Target[i] = other /\ init'[i] = "chmod"
    BY DEF SecretsAreSealed
  <2> QED
    BY <1>1, <1>2, <1>7 DEF FileInv, SecretsAreSealed
<1> QED
  BY <1>2, <1>3, <1>5, <1>6, <1>8 DEF FileInv, FileTypeOK, InitTypeOK

\* A run of init that begins, or is killed: then a secret that was about to be
\* restricted is left open.
LEMMA TurnKeeps ==
  ASSUME FileInv, NEW i \in Inits, Begin(i) \/ Abandon(i)
  PROVE  FileInv'
<1>1. UNCHANGED <<files, environ>>
  BY DEF Begin, Abandon
<1>2. InitTypeOK' /\ \A j \in Inits : init'[j] \in {"idle", "open", init[j]} /\ (j # i => init'[j] = init[j])
  BY DEF Begin, Abandon, Goto, FileInv, InitTypeOK
<1>3. cut \subseteq cut' /\ (init[i] = "chmod" => Target[i] \in cut')
  BY DEF Begin, Abandon
<1>4. InPlace' /\ Installed' /\ CreatedPrivate'
  BY <1>1, <1>2 DEF FileInv, InPlace, Installed, CreatedPrivate, Own, Direct
<1>5. SecretsAreSealed'
  <2> SUFFICES ASSUME NEW path \in Paths, Exposed(path)'
               PROVE  /\ files'[path].by = "hand"
                      /\ path \in cut' \/ \E j \in Inits : Target[j] = path /\ init'[j] = "chmod"
    BY DEF SecretsAreSealed
  <2>1. /\ files[path].by = "hand"
        /\ path \in cut \/ \E j \in Inits : Target[j] = path /\ init[j] = "chmod"
    BY <1>1 DEF FileInv, SecretsAreSealed, Exposed
  <2> QED
    BY <1>1, <1>2, <1>3, <2>1
<1> QED
  BY <1>1, <1>2, <1>4, <1>5 DEF FileInv, FileTypeOK

\* The part of the invariant about the files and those who write them.
LEMMA FileStep ==
  ASSUME FileInv, Next
  PROVE  FileInv'
<1>1. ASSUME UNCHANGED <<files, environ, init, cut>>
      PROVE  FileInv'
  BY <1>1 DEF FileInv, FileTypeOK, InitTypeOK, InPlace, CreatedPrivate, Installed, SecretsAreSealed,
              Exposed, Own, Direct
<1>2. ASSUME NEW p \in Procs, Launch(p) \/ Proceed(p) \/ Check(p) \/ Stop(p)
      PROVE  UNCHANGED <<files, environ, init, cut>>
  BY <1>2 DEF Launch, Proceed, Check, Stop
<1> QED
  BY <1>1, <1>2, OpenKeeps, WorkKeeps, EditKeeps, TurnKeeps DEF Next

---------------------------------------------------------------------------
(* The theorems. *)

\* No process has read anything yet, and no init has begun.
LEMMA InitEstablishes ==
  ASSUME Init
  PROVE  IInv
<1>1. FileTypeOK /\ InitTypeOK
  BY DEF Init, FileTypeOK, InitTypeOK
<1>2. InPlace /\ CreatedPrivate /\ Installed /\ SecretsAreSealed /\ VerdictInv
  BY DEF Init, InPlace, CreatedPrivate, Installed, SecretsAreSealed, Exposed, VerdictInv, Verdicts
<1>3. NoProc \in ProcRecord /\ Fresh(NoProc)
  BY DEF NoProc, ProcRecord, Commands, Verdicts, Fresh
<1>4. ProcInv
  BY <1>3 DEF Init, ProcInv
<1> QED
  BY <1>1, <1>2, <1>4 DEF IInv, FileInv

\* The invariant holds of every reachable state.
THEOREM Inductive == Spec => []IInv
<1>1. Init => IInv
  BY InitEstablishes
<1>2. IInv /\ [Next]_vars => IInv'
  <2>1. CASE Next
    BY <2>1, FileStep, ProcStep, VerdictStep DEF IInv, FileInv
  <2>2. ASSUME IInv, UNCHANGED vars
        PROVE  IInv'
    <3>1. Resolved' = Resolved
      BY <2>2, ResolvedStays DEF vars
    <3> QED
      BY <2>2, <3>1 DEF vars, procVars, IInv, FileInv, FileTypeOK, InitTypeOK, InPlace, CreatedPrivate,
                        Installed, SecretsAreSealed, Exposed, Own, Direct,
                        ProcInv, Fresh, Holding, Safe, Problems, VerdictInv, Blessed
  <2> QED
    BY <2>1, <2>2
<1> QED
  BY <1>1, <1>2, PTL DEF Spec

\* A running process uses one configuration, which it has checked.
THEOREM CheckedIsAllThatIsUsed == Spec => []CheckedIsUsed
<1>1. IInv => CheckedIsUsed
  <2> SUFFICES ASSUME IInv, NEW p \in Procs, Stages[proc[p].stage] = "running"
               PROVE  Cardinality(proc[p].used) = 1 /\ \A s \in proc[p].used : Safe(s)
    BY DEF CheckedIsUsed
  <2>1. Holding(proc[p])
    BY DEF IInv, ProcInv, Fresh, Stages
  <2>2. Cardinality({proc[p].cached}) = 1
    BY FS_Singleton
  <2> QED
    BY <2>1, <2>2 DEF Holding
<1> QED
  BY <1>1, Inductive, PTL

\* The secret of init lies open only in an earlier file, until a chmod or after a kill.
THEOREM Sealed == Spec => []SecretsAreSealed
BY Inductive, PTL DEF IInv, FileInv

\* What check-config said of the files that a start has read stays true to its end.
THEOREM VerdictsTrusted == Spec => VerdictsHold
<1> DEFINE Holds(p) ==
      proc[p].command = "service" /\ Stages[proc[p].stage] # "running" /\ proc'[p] # proc[p] =>
        /\ Verdict(p) = "bad" /\ ~Allowed => proc'[p] = NoProc
        /\ Verdict(p) = "good" /\ proc'[p] = NoProc =>
             Stages[proc[p].stage] = "sync" /\ ~Buildable(proc[p].cached)
<1>1. ASSUME IInv, [Next]_vars, NEW p \in Procs
      PROVE  Holds(p)
  <2>1. CASE Proceed(p)
    BY <2>1, <1>1, ProceedSteps DEF IInv, FileInv
  <2>2. ASSUME proc[p].command = "service", Stages[proc[p].stage] # "running", proc'[p] # proc[p]
        PROVE  Proceed(p)
    <3>1. \A q \in Procs : Launch(q) \/ Check(q) \/ Stop(q) => q # p
      BY <2>2 DEF Launch, NoProc, Check, Stop
    <3>2. ASSUME NEW q \in Procs, Launch(q) \/ Proceed(q) \/ Check(q) \/ Stop(q), q # p
          PROVE  proc'[p] = proc[p]
      BY <1>1, <3>2 DEF IInv, ProcInv, Launch, Proceed, Check, Stop
    <3>3. ASSUME Edit \/ (\E i \in Inits : Begin(i) \/ Open(i) \/ Write(i) \/ Chmod(i) \/ Abandon(i))
                 \/ UNCHANGED vars
          PROVE  proc' = proc
      BY <3>3 DEF Edit, Begin, Open, Write, Chmod, Abandon, procVars, vars
    <3> QED
      BY <1>1, <2>2, <3>1, <3>2, <3>3 DEF Next
  <2> QED
    BY <2>1, <2>2
<1>2. IInv /\ [Next]_vars => [\A p \in Procs : Holds(p)]_vars
  BY <1>1
<1> QED
  BY <1>2, Inductive, PTL DEF Spec, VerdictsHold
=============================================================================
