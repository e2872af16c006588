------------------------- MODULE ServiceLifeProofs -------------------------
(***************************************************************************)
(* For cycles of any length and any number of handlers: the loop is over   *)
(* before the client it uses is closed.                                    *)
(* The invariant says besides that a process which exits by itself has     *)
(* closed its client.                                                      *)
(***************************************************************************)
EXTENDS ServiceLife, TLAPS

ExitInv == main \in {"closing", "exited"} => client = "closed"

IInv == TypeOK /\ NoUseAfterClose /\ ExitInv

\* What the loop does keeps the types; a loop that is over does nothing.
LEMMA TaskSteps ==
  ASSUME TypeOK, Task
  PROVE  /\ loop' \in {"new", "sleeping", "ended"} \cup Waiting /\ work' \in 0 .. MaxWork
         /\ cancelled' \in {"no", "asked", "done"}
         /\ UNCHANGED <<command, main, signals, handlers, client>>
         /\ loop # "ended"
<1>1. MaxWork \in Nat /\ work \in 0 .. MaxWork
  BY LifeAssumption DEF TypeOK
<1>2. CASE Run
  <2>1. loop # "ended" /\ cancelled' = cancelled /\ UNCHANGED <<command, main, signals, handlers, client>>
    BY <1>2 DEF Run, Waiting
  <2>2. CASE /\ MoreWork /\ loop' \in Waiting
             /\ work' = IF loop \in Waiting THEN work - 1 ELSE MaxWork
    <3>1. work' \in 0 .. MaxWork
      BY <1>1, <2>2 DEF MoreWork
    <3> QED
      BY <2>1, <2>2, <3>1 DEF TypeOK, Waiting
  <2>3. ASSUME NEW outcome \in {"done", "known", "unexpected"}, loop' = AfterCycle(outcome), work' = MaxWork
        PROVE  loop' \in {"sleeping", "ended"} /\ work' \in 0 .. MaxWork
    BY <1>1, <2>3 DEF AfterCycle
  <2> QED
    BY <1>2, <2>1, <2>2, <2>3 DEF Run, TypeOK
<1>3. CASE Unwind
  BY <1>1, <1>3 DEF Unwind, Unwound, TypeOK
<1> QED
  BY <1>2, <1>3 DEF Task

\* A signal, the first or the second, keeps the invariant.
LEMMA SignalKeeps ==
  ASSUME IInv, NEW sig \in {"TERM", "INT"}, Signal(sig)
  PROVE  IInv'
<1>1. signals' \in [first : {"none", "TERM", "INT"}, count : 0 .. 2]
  <2>1. signals.first \in {"none", "TERM", "INT"} /\ signals.count \in 0 .. 2 /\ signals.count < 2
    BY DEF IInv, TypeOK, Signal
  <2>2. signals' = [first |-> IF signals.count = 0 THEN sig ELSE signals.first, count |-> signals.count + 1]
    BY DEF Signal
  <2> QED
    BY <2>1, <2>2
<1>2. main' \in {"draining", "killed", "joining", "interrupted"} /\ cancelled' \in {"asked", cancelled}
  BY DEF Signal
<1>3. UNCHANGED <<command, handlers, loop, work, client>>
  BY DEF Signal, taskVars
<1> QED
  BY <1>1, <1>2, <1>3 DEF IInv, TypeOK, NoUseAfterClose, ExitInv, Ended

\* So does every step of the main task and of the handlers,
LEMMA MainKeeps ==
  ASSUME IInv, Main \/ Accept \/ StartFails \/ Kill
  PROVE  IInv'
<1> USE LifeAssumption DEF IInv, TypeOK, NoUseAfterClose, ExitInv, Ended, taskVars
<1>1. CASE Accept
  BY <1>1 DEF Accept
<1>2. CASE Answer
  BY <1>2 DEF Answer
<1>3. CASE StartFails \/ ServeReturns \/ CancelLoop
  BY <1>3 DEF StartFails, ServeReturns, CancelLoop
<1>4. CASE Join
  BY <1>4 DEF Join, MayClose
<1>5. CASE Exit \/ Kill
  BY <1>5 DEF Exit, Kill, Die
<1> QED
  BY <1>1, <1>2, <1>3, <1>4, <1>5 DEF Main

\* and every step of the loop's task, whose client is open while it runs.
LEMMA TaskKeeps ==
  ASSUME IInv, Task
  PROVE  IInv'
<1>1. client = "open"
  BY TaskSteps DEF IInv, TypeOK, NoUseAfterClose
<1> QED
  BY <1>1, TaskSteps DEF IInv, TypeOK, NoUseAfterClose, ExitInv

\* The invariant holds of every reachable state.
THEOREM Inductive == Spec => []IInv
<1>1. Init => IInv
  BY LifeAssumption DEF Init, NoSignal, IInv, TypeOK, NoUseAfterClose, ExitInv
<1>2. IInv /\ [Next]_vars => IInv'
  <2>1. CASE Next
    BY <2>1, TaskKeeps, MainKeeps, SignalKeeps DEF Next
  <2>2. CASE UNCHANGED vars
    BY <2>2 DEF vars, taskVars, IInv, TypeOK, NoUseAfterClose, ExitInv
  <2> QED
    BY <2>1, <2>2
<1> QED
  BY <1>1, <1>2, PTL DEF Spec

\* Every variable keeps its type; the awaits of a cycle are bounded.
THEOREM TypeCorrect == Spec => []TypeOK
BY Inductive, PTL DEF IInv

\* No request is made, or waited for, on a closed client.
THEOREM ClosedLast == Spec => []NoUseAfterClose
BY Inductive, PTL DEF IInv
=============================================================================
