--------------------------- MODULE Configuration ---------------------------
(***************************************************************************)
(* config.py, and the commands of cli.py around it: where settings come    *)
(* from, what a starting process checks and what it then uses, `init`      *)
(* writing a file step by step, `check-config` judging it, and an operator *)
(* who edits files at any time.                                            *)
(*                                                                         *)
(* Settings are a value for each of the secrets that must be changed and   *)
(* for the name of the provider; the other fields have defaults that serve.*)
(* A value is one's own, the shipped one, the placeholder of init, one that*)
(* only the provider refuses (an empty token, a name that is not known), or*)
(* is not given. A password hash counts as a password of one's own.        *)
(***************************************************************************)
EXTENDS Integers, FiniteSets

CONSTANTS
  Fields,     \* SECRET_KEY, ADMIN_PASSWORD, CLOUDFLARE_API_TOKEN, DNS_PROVIDER
  Contents,   \* what files and environment may say: [Fields -> Values \cup {"unset"}]
  Generated,  \* the content that init writes
  Override,   \* the path in CLOUDFLARE_REGISTER_CONFIG, or None
  Allowed,    \* CLOUDFLARE_REGISTER_ALLOW_INSECURE_DEFAULTS=1
  Procs, Inits, \* starting processes, and runs of init
  Target,     \* Target[i]: the path that a run of init writes
  Root,       \* whether init may write the system's file, or needs sudo
  MaxEdits,   \* bound: edits by hand
  Torn,       \* a file that is empty or half written
  Broken,     \* ConfigError
  None

Paths == {"system", "user"}
Values == {"own", "shipped", "placeholder", "refused"}
\* by: who created it.
Files == [content : Contents \cup {Torn}, private : BOOLEAN, readable : BOOLEAN, by : {"init", "hand"}]

ASSUME ConfigAssumption ==
  /\ Contents \subseteq [Fields -> Values \cup {"unset"}] /\ Generated \in Contents
  /\ Override \in Paths \cup {None} /\ Target \in [Inits -> Paths]
  /\ Root \in BOOLEAN
  /\ Allowed \in BOOLEAN /\ MaxEdits \in Nat
  /\ {Torn, Broken, None} \cap (Contents \cup [Fields -> Values]) = {}
  /\ Torn # None /\ Broken # None /\ None \notin Files

VARIABLES
  environ,  \* what the environment says
  files,    \* files[path]: a file, or None
  proc,     \* a starting process: command, stage, cached settings, settings used,
            \* and what check-config said of what it read first   (history)
  init,     \* the step of a run of init
  cut,      \* paths on which init was last killed just before its chmod  (history)
  verdict,  \* what check-config said of the files as they are     (history)
  edits     \* edits left

procVars == <<proc, verdict>>
vars == <<environ, files, procVars, init, cut, edits>>

---------------------------------------------------------------------------
(* Where settings come from. *)

Readable(path) == files[path] # None /\ files[path].readable

\* _resolve_settings_source. Of the user's file only its existence is asked.
Source ==
  IF Override # None /\ Readable(Override) THEN Override
  ELSE IF Readable("system") THEN "system"
  ELSE IF files["user"] # None THEN "user" ELSE None

\* A value that is given nowhere is the shipped one, which for the provider serves.
Default(f) == IF f = "DNS_PROVIDER" THEN "own" ELSE "shipped"
Settled(said) == [f \in Fields |-> IF said[f] = "unset" THEN Default(f) ELSE said[f]]

\* The constructor's arguments, from the file, go before the environment.
Merged(content) == [f \in Fields |-> IF content[f] = "unset" THEN environ[f] ELSE content[f]]

Resolved ==
  IF Source = None THEN Settled(environ)
  ELSE IF ~files[Source].readable \/ files[Source].content = Torn THEN Broken
  ELSE Settled(Merged(files[Source].content))

\* Bug: nothing is cached.
BugSettings(p) == Resolved
\* get_settings.
Settings(p) == IF proc[p].cached # None THEN proc[p].cached ELSE Resolved

\* unsafe_defaults_in_use.
Problems(s) == {f \in Fields : s[f] \in {"shipped", "placeholder"}}

\* require_safe_settings.
Safe(s) == s # Broken /\ (Allowed \/ Problems(s) = {})

---------------------------------------------------------------------------
(* A process that starts: `service` asks for the settings three times, for *)
(* itself, for the web application and for the sync service.               *)

Stages == <<"start", "web", "sync", "running">>
NoProc == [command |-> "none", stage |-> 1, cached |-> None, used |-> {}, judged |-> "none"]

Launch(p) ==
  /\ proc[p] = NoProc
  /\ \E c \in {"service", "check"} : proc' = [proc EXCEPT ![p].command = c]
  /\ UNCHANGED <<environ, files, init, cut, verdict, edits>>

\* The factory knows the provider, and the provider takes the token.
Buildable(s) == \A f \in Fields : s[f] \notin {"placeholder", "refused"}

\* cmd_service: the sync service builds the provider, the others check the settings.
Accepts(stage, s) == s # Broken /\ IF stage = "sync" THEN Buildable(s) ELSE Safe(s)

Advanced(q, s) ==
  IF Accepts(Stages[q.stage], s)
  THEN [q EXCEPT !.stage = @ + 1, !.cached = s, !.used = @ \cup {s},
                 !.judged = IF q.stage = 1 THEN verdict ELSE @]
  ELSE NoProc

Proceed(p) ==
  /\ proc[p].command = "service" /\ Stages[proc[p].stage] # "running"
  /\ proc' = [proc EXCEPT ![p] = Advanced(@, Settings(p))]
  /\ UNCHANGED <<environ, files, init, cut, verdict, edits>>

\* Bug: shipped secrets are only warned of.
BugBlessed(s) == s # Broken
\* cmd_check_config: exit codes 2, 3 and 4, or 0.
Blessed(s) == s # Broken /\ Problems(s) = {}

Check(p) ==
  /\ proc[p].command = "check"
  /\ verdict' = IF Blessed(Settings(p)) THEN "good" ELSE "bad"
  /\ proc' = [proc EXCEPT ![p] = NoProc]
  /\ UNCHANGED <<environ, files, init, cut, edits>>

Stop(p) ==
  /\ Stages[proc[p].stage] = "running"
  /\ proc' = [proc EXCEPT ![p] = NoProc]
  /\ UNCHANGED <<environ, files, init, cut, verdict, edits>>

---------------------------------------------------------------------------
(* init *)

Goto(i, step) == init' = [init EXCEPT ![i] = step]
Put(i, file) ==
  files' = [files EXCEPT ![Target[i]] = file] /\ verdict' = "none" /\ cut' = cut \ {Target[i]}
Own(i) == files[Target[i]]
Direct(i) == Target[i] = "user" \/ Root

\* cmd_init, with --force if there is a file already. What is there when the
\* file is opened, after passwords were made and hashed, is not asked again.
Begin(i) ==
  /\ init[i] = "idle" /\ Goto(i, "open")
  /\ UNCHANGED <<environ, files, procVars, cut, edits>>

\* os.open truncates a file that is there, whose mode stays until the end, and
\* creates any other with mode 0600; what init has no right to write it creates
\* anew, by install, under sudo.
Open(i) ==
  /\ init[i] = "open"
  /\ Put(i, IF Direct(i) /\ Own(i) # None
            THEN [Own(i) EXCEPT !.content = Torn]
            ELSE [content |-> Torn, private |-> TRUE, readable |-> Direct(i), by |-> "init"])
  /\ Goto(i, "write")
  /\ UNCHANGED <<environ, proc, edits>>

\* The file object, or tee.
Write(i) ==
  /\ init[i] = "write"
  /\ Put(i, [Own(i) EXCEPT !.content = Generated])
  /\ Goto(i, IF Direct(i) THEN "chmod" ELSE "idle")
  /\ UNCHANGED <<environ, proc, edits>>

\* Bug: only a file of init's own making is tightened.
BugTightened(file) == [file EXCEPT !.private = @ \/ file.by = "init"]
\* _chmod_0600.
Tightened(file) == [file EXCEPT !.private = TRUE]

Chmod(i) ==
  /\ init[i] = "chmod"
  /\ Put(i, Tightened(Own(i)))
  /\ Goto(i, "idle")
  /\ UNCHANGED <<environ, proc, edits>>

\* init is killed, or sudo refuses.
Abandon(i) ==
  /\ init[i] # "idle" /\ Goto(i, "idle")
  /\ cut' = IF init[i] = "chmod" THEN cut \cup {Target[i]} ELSE cut
  /\ UNCHANGED <<environ, files, procVars, edits>>

\* An operator writes, moves or removes a file, but not under the hands of init,
\* and does not choose the secret that init generates.
Edit ==
  /\ edits > 0 /\ edits' = edits - 1
  /\ \E path \in Paths, file \in {f \in Files : f.by = "hand" /\ f.content \notin {Torn, Generated}} \cup {None} :
       /\ \A i \in Inits : path = Target[i] => init[i] \in {"idle", "open"}
       /\ files' = [files EXCEPT ![path] = file] /\ cut' = cut \ {path}
  /\ verdict' = "none"
  /\ UNCHANGED <<environ, proc, init>>

Init ==
  /\ environ \in Contents /\ files = [path \in Paths |-> None]
  /\ proc = [p \in Procs |-> NoProc]
  /\ init = [i \in Inits |-> "idle"] /\ cut = {}
  /\ verdict = "none" /\ edits = MaxEdits

Next ==
  \/ \E p \in Procs : Launch(p) \/ Proceed(p) \/ Check(p) \/ Stop(p)
  \/ \E i \in Inits : Begin(i) \/ Open(i) \/ Write(i) \/ Chmod(i) \/ Abandon(i)
  \/ Edit

Spec == Init /\ [][Next]_vars

---------------------------------------------------------------------------
(* Properties. *)

\* What a running process uses, in all of its parts, is what it has checked:
\* one configuration, with no shipped secret in it, though files change between
\* its checks and may be half written at any of them.
CheckedIsUsed ==
  \A p \in Procs : Stages[proc[p].stage] = "running" =>
    Cardinality(proc[p].used) = 1 /\ \A s \in proc[p].used : Safe(s)

Verdict(p) == IF proc[p].stage = 1 THEN verdict ELSE proc[p].judged

\* What check-config said of the files that a start of `service` read stays true up
\* to its end: what was refused never comes to run, and what was blessed fails only
\* when the provider is built, over a name or a token that check-config lets pass.
VerdictsHold ==
  [][\A p \in Procs :
       proc[p].command = "service" /\ Stages[proc[p].stage] # "running" /\ proc'[p] # proc[p] =>
         /\ Verdict(p) = "bad" /\ ~Allowed => proc'[p] = NoProc
         /\ Verdict(p) = "good" /\ proc'[p] = NoProc =>
              Stages[proc[p].stage] = "sync" /\ ~Buildable(proc[p].cached)]_vars

Exposed(path) == files[path] # None /\ files[path].content = Generated /\ ~files[path].private

\* The secret that init generates is to be private "from the very first byte" and
\* for the "whole lifetime" of its file (cli.py:192, cli.py:202-204). It lies open to
\* others only in a file that was there before: until the chmod of an init that is at
\* work on that file, and for longer only if one was killed just before its chmod.
SecretsAreSealed ==
  \A path \in Paths : Exposed(path) =>
    /\ files[path].by = "hand"
    /\ path \in cut \/ \E i \in Inits : Target[i] = path /\ init[i] = "chmod"
=============================================================================
