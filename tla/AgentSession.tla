---------------------------- MODULE AgentSession ----------------------------
(***************************************************************************)
(* What a worker may rely on in any AgentSession, whichever agent is       *)
(* behind it: a call of runTurn has one result; after a turn that did not  *)
(* complete the session is only good for stop(); a stopped session has no  *)
(* process left and starts none.  CodexSession and CliAgent implement it.  *)
(***************************************************************************)

VARIABLES
    phase,  \* what the session is doing for its caller
    result, \* how the last runTurn ended
    alive   \* a process of the agent runs

vars == <<phase, result, alive>>

Results == {"completed", "failed", "cancelled", "input_required", "timeout", "error"}

\* An agent for the whole session is started before the session is handed over, one
\* for each turn is not.
Init ==
    /\ result = "none"
    /\ \/ phase = "starting" /\ alive = TRUE
       \/ phase = "ready" /\ alive = FALSE

Open ==
    /\ phase = "starting"
    /\ phase' \in {"ready", "failed"}
    /\ UNCHANGED <<result, alive>>

RunTurn ==
    /\ phase = "ready"
    /\ phase' = "turn" /\ result' = "none"
    /\ alive' \in {alive, TRUE}

\* A turn that timed out may take its process with it.
EndTurn(how) ==
    /\ phase = "turn"
    /\ phase' = IF how = "completed" THEN "ready" ELSE "over"
    /\ result' = how
    /\ alive' \in {alive, alive /\ how # "timeout"}

\* stop(): it may have to wait for the process, and leaves none.
Stop ==
    /\ phase \in {"ready", "over"}
    /\ phase' = "stopping"
    /\ UNCHANGED <<result, alive>>

Stopped ==
    /\ phase = "stopping" \/ (phase \in {"ready", "over"} /\ ~alive)
    /\ phase' = "stopped" /\ alive' = FALSE
    /\ UNCHANGED result

\* The process of the agent ends, at any time and for any reason.
AgentDies ==
    /\ alive
    /\ alive' = FALSE
    /\ UNCHANGED <<phase, result>>

\* The agent cannot be spawned, or cannot be written to: an error nobody listens for
\* takes the caller's process down.
Crash ==
    /\ phase # "crashed"
    /\ phase' = "crashed"
    /\ UNCHANGED <<result, alive>>

Next ==
    \/ Open
    \/ RunTurn
    \/ \E how \in Results : EndTurn(how)
    \/ Stop
    \/ Stopped
    \/ AgentDies
    \/ Crash

Spec == Init /\ [][Next]_vars
=============================================================================
