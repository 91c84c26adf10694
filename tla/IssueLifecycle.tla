--------------------------- MODULE IssueLifecycle ---------------------------
(***************************************************************************)
(* What the orchestrator promises about one issue's way through it, as     *)
(* long as nothing but the tick and the retry queue dispatches: an issue   *)
(* has one owner at a time, its attempt number only falls when a run ended *)
(* normally or the issue was let go, and a run begins only below the       *)
(* concurrency limit of the moment.                                        *)
(***************************************************************************)
EXTENDS Integers, FiniteSets

CONSTANTS Issues, Limits, AttemptCap

VARIABLES
    phase,   \* "free", "running", "waiting" (for its retry), "polling" (the tracker)
    attempt, \* the attempt number its owner carries, 0 for a first run
    limit    \* runs allowed at this moment

vars == <<phase, attempt, limit>>

In(p)   == {i \in Issues : phase[i] = p}
Bump(a) == IF a < AttemptCap THEN a + 1 ELSE AttemptCap

Init ==
    /\ phase = [i \in Issues |-> "free"]
    /\ attempt = [i \in Issues |-> 0]
    /\ limit \in Limits

Move(i, from, to, a) ==
    /\ phase[i] = from
    /\ phase' = [phase EXCEPT ![i] = to]
    /\ attempt' = [attempt EXCEPT ![i] = a]
    /\ UNCHANGED limit

HasSlot == Cardinality(In("running")) < limit

Start(i)   == HasSlot /\ Move(i, "free", "running", 0)
Succeed(i) == Move(i, "running", "waiting", 1)
Fail(i)    == Move(i, "running", "waiting", Bump(attempt[i]))
Close(i)   == Move(i, "running", "free", 0)
Fire(i)    == Move(i, "waiting", "polling", attempt[i])
Requeue(i) == Move(i, "polling", "waiting", Bump(attempt[i]))
Resume(i)  == HasSlot /\ Move(i, "polling", "running", attempt[i])
LetGo(i)   == Move(i, "polling", "free", 0)

\* Shutdown cancels whatever is waiting.
CancelAll ==
    /\ phase' = [i \in Issues |-> IF phase[i] = "waiting" THEN "free" ELSE phase[i]]
    /\ attempt' = [i \in Issues |-> IF phase[i] = "waiting" THEN 0 ELSE attempt[i]]
    /\ UNCHANGED limit

Reload == limit' \in Limits /\ UNCHANGED <<phase, attempt>>

Next ==
    \/ \E i \in Issues :
          Start(i) \/ Succeed(i) \/ Fail(i) \/ Close(i)
          \/ Fire(i) \/ Requeue(i) \/ Resume(i) \/ LetGo(i)
    \/ CancelAll
    \/ Reload

Spec == Init /\ [][Next]_vars
=============================================================================
