---------------------------- MODULE ServiceLife ----------------------------
(***************************************************************************)
(* The commands of cli.py that sync, from start to end: `service` with the *)
(* web server and the loop in one process, `sync --loop` and `sync --once`.*)
(* The loop is a task that waits in a cycle (for a lookup, with a client   *)
(* of its own, or for a request of the provider's client) or between two.  *)
(* The command ends it and then closes the provider's client.              *)
(*                                                                         *)
(* Of uvicorn and asyncio: the server drains on the first signal, is forced*)
(* by the second, and raises the first again when it has stopped; SIGTERM  *)
(* then kills, SIGINT cancels the main task, a further SIGINT breaks off.  *)
(***************************************************************************)
EXTENDS Integers

CONSTANTS
  MaxWork,     \* bound: the awaits of a cycle
  MaxHandlers  \* bound: web requests at a time

ASSUME LifeAssumption == MaxWork \in Nat /\ MaxHandlers \in Nat

VARIABLES
  command,   \* service, loop or once
  main,      \* where the main task is
  signals,   \* the first signal that asked it to stop (or none), and how many came
  handlers,  \* web requests being handled
  loop,      \* where the sync task is
  cancelled, \* whether it is to be cancelled: no, asked, done
  client,    \* the provider's HTTP client
  work       \* the awaits left to this cycle

taskVars == <<loop, work>>
vars == <<command, main, signals, handlers, taskVars, cancelled, client>>

Ended == {"exited", "killed", "interrupted"}
Waiting == {"detecting", "requesting"}
NoSignal == [first |-> "none", count |-> 0]

---------------------------------------------------------------------------
(* The loop. *)

\* Bug: a cycle that failed is begun again at once.
BugAfterCycle(outcome) ==
  IF command = "once" THEN "ended" ELSE IF outcome = "done" THEN "sleeping" ELSE "new"
\* A cycle ends with a report, a CloudflareRegisterError or any other exception:
\* run_forever catches both kinds, and waits for its interval in each case.
AfterCycle(outcome) == IF command = "once" THEN "ended" ELSE "sleeping"

\* Bug: a request is tried again until it succeeds.
BugMoreWork == TRUE
MoreWork == loop \in Waiting => work > 0

\* run_once goes from await to await, and is over at any of them.
Run ==
  /\ main \notin Ended /\ cancelled # "asked"
  /\ loop \in {"new", "sleeping"} \cup Waiting
  /\ \/ /\ MoreWork
        /\ loop' \in Waiting
        /\ work' = IF loop \in Waiting THEN work - 1 ELSE MaxWork
     \/ /\ \E outcome \in {"done", "known", "unexpected"} : loop' = AfterCycle(outcome)
        /\ work' = MaxWork
  /\ UNCHANGED <<command, main, signals, handlers, cancelled, client>>

\* Bug: a cancelled cycle is taken for a failed one.
BugUnwound == IF loop \in Waiting THEN "sleeping" ELSE "ended"
\* CancelledError is no Exception: it leaves run_once and run_forever.
Unwound == "ended"

\* The cancelled task is resumed at its await.
Unwind ==
  /\ main \notin Ended /\ cancelled = "asked" /\ loop # "ended"
  /\ loop' = Unwound /\ cancelled' = "done"
  /\ UNCHANGED <<command, main, signals, handlers, client, work>>

Task == Run \/ Unwind

---------------------------------------------------------------------------
(* The main task. *)

Die(how) ==
  /\ main' = how
  /\ UNCHANGED <<command, signals, handlers, taskVars, cancelled, client>>

Accept ==
  /\ main = "serving" /\ command = "service" /\ handlers < MaxHandlers
  /\ handlers' = handlers + 1
  /\ UNCHANGED <<command, main, signals, taskVars, cancelled, client>>

Answer ==
  /\ main \in {"serving", "draining", "joining", "closing"} /\ handlers > 0
  /\ handlers' = handlers - 1
  /\ UNCHANGED <<command, main, signals, taskVars, cancelled, client>>

\* A signal: to the server as long as it runs, else to asyncio, whose second
\* SIGINT breaks off, or to the kernel.
Signal(sig) ==
  /\ main \notin Ended /\ signals.count < 2
  /\ signals' = [first |-> IF signals.count = 0 THEN sig ELSE signals.first, count |-> signals.count + 1]
  /\ main' = CASE command = "service" /\ main \in {"serving", "draining"} -> "draining"
               [] sig = "TERM" -> "killed"
               [] main = "serving" -> "joining"
               [] OTHER -> "interrupted"
  /\ cancelled' = IF main = "serving" /\ main' = "joining" THEN "asked" ELSE cancelled
  /\ UNCHANGED <<command, handlers, taskVars, client>>

\* The server could not start (SystemExit).
StartFails ==
  /\ command = "service" /\ main = "serving" /\ handlers = 0
  /\ main' = "stopped"
  /\ UNCHANGED <<command, signals, handlers, taskVars, cancelled, client>>

\* serve returns when the handlers are done, or was forced, and the signal is
\* raised again.
ServeReturns ==
  /\ main = "draining" /\ (handlers = 0 \/ signals.count = 2)
  /\ main' = IF signals.first = "TERM" THEN "killed" ELSE "stopped"
  /\ UNCHANGED <<command, signals, handlers, taskVars, cancelled, client>>

\* The finally of cmd_service: the loop is cancelled and waited for ...
CancelLoop ==
  /\ main = "stopped"
  /\ cancelled' = "asked" /\ main' = "joining"
  /\ UNCHANGED <<command, signals, handlers, taskVars, client>>

\* Bug: nobody waits for the loop.
BugMayClose == main = "joining"
MayClose == loop = "ended" /\ (main = "joining" \/ (main = "serving" /\ command # "service"))

\* ... and the client is closed; a one-shot gets there when its cycle is over.
Join ==
  /\ MayClose
  /\ main' = "closing" /\ client' = "closed"
  /\ UNCHANGED <<command, signals, handlers, taskVars, cancelled>>

Exit == main = "closing" /\ Die("exited")

Main == Answer \/ ServeReturns \/ CancelLoop \/ Join \/ Exit

\* kill -9, or the power.
Kill == main \notin Ended /\ Die("killed")

Init ==
  /\ command \in {"service", "loop", "once"}
  /\ main = "serving" /\ signals = NoSignal /\ handlers = 0
  /\ loop = "new" /\ cancelled = "no" /\ client = "open" /\ work = MaxWork

Next ==
  \/ Task \/ Main \/ Accept \/ StartFails \/ Kill
  \/ \E sig \in {"TERM", "INT"} : Signal(sig)

\* Each await of the program has a time-out, and the event loop resumes what
\* is ready; a handler is a few such awaits.
Spec == Init /\ [][Next]_vars /\ WF_vars(Task) /\ WF_vars(Main)

---------------------------------------------------------------------------
(* Properties. *)

\* Every variable keeps its type.
TypeOK ==
  /\ command \in {"service", "loop", "once"}
  /\ main \in {"serving", "draining", "stopped", "joining", "closing"} \cup Ended
  /\ signals \in [first : {"none", "TERM", "INT"}, count : 0 .. 2]
  /\ handlers \in 0 .. MaxHandlers /\ work \in 0 .. MaxWork
  /\ loop \in {"new", "sleeping", "ended"} \cup Waiting
  /\ cancelled \in {"no", "asked", "done"} /\ client \in {"open", "closed"}

\* The loop never waits for a request, or is about to begin one, on a client
\* that is closed, on any way in which the process can come to its end.
NoUseAfterClose == client = "closed" => loop = "ended"

\* As long as nobody stops it, the loop completes one cycle after the other,
\* whatever they end with, and waits for its interval after each.
CyclesRecur ==
  command # "once" /\ loop # "sleeping" ~> loop = "sleeping" \/ cancelled # "no" \/ main \in Ended

\* A process that is asked to stop does, and so does a one-shot unasked.
StopEnds == signals.count > 0 \/ command = "once" ~> main \in Ended
=============================================================================
