------------------------------ MODULE CliAgent ------------------------------
(***************************************************************************)
(* One session of an agent that is a process per turn: CodexCliSession     *)
(* (`codex exec`) or ClaudeCodeSession (`claude --print`), the children it *)
(* spawns, and the worker that calls it.                                   *)
(*                                                                         *)
(* Nothing orders the events of one child (its lines, its exit, the timer  *)
(* of its turn), and a turn may have ended while events of its child are   *)
(* still to come: each turn keeps its own child, reader and timer, and     *)
(* only stop() looks at the last child alone.                              *)
(***************************************************************************)
EXTENDS Integers, Sequences

CONSTANTS
    MaxTurns, \* BOUND: turns asked of one session
    MaxLines  \* BOUND: lines a child has written and the session not read

ASSUME BoundsAssumption == MaxTurns \in Nat /\ MaxLines \in Nat

VARIABLES
    kind,  \* the agent: "codex" or "claude"
    pc,    \* what the session does for its caller
    turns  \* the turns begun, each with what its closures hold

vars == <<kind, pc, turns>>

Line == {"done", "note"}  \* turn.completed (codex), result or message_stop (claude); others

Turn == [child     : {"up", "dead", "gone"},  \* "gone" once its exit has been seen
         clean     : BOOLEAN,                 \* it exited by itself with code 0
         pipe      : Seq(Line),               \* lines readline has not delivered
         open      : BOOLEAN,                 \* rl has not been closed
         completed : BOOLEAN,
         timer     : BOOLEAN,                 \* the timeout of the turn is pending
         settling  : BOOLEAN,                 \* readOutputFile is awaited
         result    : {"none", "completed", "failed", "timeout"}]

TypeOK ==
    /\ kind \in {"codex", "claude"}
    /\ pc \in {"ready", "turn", "over", "stopping", "stopped", "crashed"}
    /\ turns \in Seq(Turn) /\ Len(turns) <= MaxTurns

Init == kind \in {"codex", "claude"} /\ pc = "ready" /\ turns = << >>

NewTurn == [child |-> "up", clean |-> FALSE, pipe |-> << >>, open |-> TRUE, completed |-> FALSE,
            timer |-> TRUE, settling |-> FALSE, result |-> "none"]

\* The promise of turn t, now `turn`, is resolved, which has no effect if it was
\* before; the caller goes on.
Settle(t, turn, status) ==
    IF turns[t].result = "none"
    THEN /\ turns' = [turns EXCEPT ![t] = [turn EXCEPT !.result = status]]
         /\ pc' = IF status = "completed" THEN "ready" ELSE "over"
    ELSE turns' = [turns EXCEPT ![t] = turn] /\ UNCHANGED pc

-----------------------------------------------------------------------------
(* The children *)

\* The child says something, in its turn or while it is being stopped.
ChildWrites(t, line) ==
    /\ turns[t].child = "up" /\ Len(turns[t].pipe) < MaxLines
    /\ turns' = [turns EXCEPT ![t].pipe = Append(@, line)]
    /\ UNCHANGED <<kind, pc>>

ChildExits(t, clean) ==
    /\ turns[t].child = "up"
    /\ turns' = [turns EXCEPT ![t].child = "dead", ![t].clean = clean]
    /\ UNCHANGED <<kind, pc>>

-----------------------------------------------------------------------------
(* What a turn hears of its child *)

\* MUTANT: the agent's own word ends the turn.
LineArrives_Settles(t) ==
    /\ turns[t].pipe # << >>
    /\ LET heard == [turns[t] EXCEPT !.pipe = Tail(@)]
       IN  IF Head(turns[t].pipe) = "done" THEN Settle(t, heard, "completed")
           ELSE turns' = [turns EXCEPT ![t] = heard] /\ UNCHANGED pc
    /\ UNCHANGED kind

\* MUTANT: the type of the agent's last line is the status of the turn.
LineArrives_TypeAsStatus(t) ==
    /\ turns[t].pipe # << >>
    /\ Settle(t, [turns[t] EXCEPT !.pipe = Tail(@)], Head(turns[t].pipe))
    /\ UNCHANGED kind

\* readline's `line` event; the events it passes on are left out.  A closed
\* interface delivers nothing.
LineArrives(t) ==
    /\ turns[t].pipe # << >>
    /\ turns' = [turns EXCEPT ![t].pipe = Tail(@),
                              ![t].completed = @ \/ (turns[t].open /\ kind = "codex"
                                                       /\ Head(turns[t].pipe) = "done")]
    /\ UNCHANGED <<kind, pc>>

\* MUTANT: the timer is cleared and the turn left to the exit code alone.
ExitEvent_OnlyClean(t) ==
    /\ turns[t].child = "dead"
    /\ LET seen == [turns[t] EXCEPT !.child = "gone", !.timer = FALSE]
       IN  IF turns[t].clean THEN Settle(t, seen, "completed")
           ELSE turns' = [turns EXCEPT ![t] = seen] /\ UNCHANGED pc
    /\ UNCHANGED kind

\* The `exit` event, before or after the last lines.  A turn of claude ends with
\* it; one of codex closes its reader and reads the file of the last message first.
\* It also ends a stop() that waits for this child.
ExitEvent(t) ==
    /\ turns[t].child = "dead"
    /\ LET seen == [turns[t] EXCEPT !.child = "gone", !.timer = FALSE,
                                    !.open = (kind = "claude"), !.settling = (kind = "codex")]
       IN  CASE pc = "stopping" /\ t = Len(turns) ->
                    turns' = [turns EXCEPT ![t] = seen] /\ pc' = "stopped"
             [] kind = "codex" /\ (pc # "stopping" \/ t # Len(turns)) ->
                    turns' = [turns EXCEPT ![t] = seen] /\ UNCHANGED pc
             [] OTHER -> Settle(t, seen, IF turns[t].clean THEN "completed" ELSE "failed")
    /\ UNCHANGED kind

\* readOutputFile returns, whatever it found.
OutputRead(t) ==
    /\ turns[t].settling
    /\ Settle(t, [turns[t] EXCEPT !.settling = FALSE],
              IF turns[t].clean \/ turns[t].completed THEN "completed" ELSE "failed")
    /\ UNCHANGED kind

\* MUTANT: the turn ends and its process goes on.
TurnTimeout_NoKill(t) ==
    /\ turns[t].timer
    /\ Settle(t, [turns[t] EXCEPT !.timer = FALSE], "timeout")
    /\ UNCHANGED kind

\* turn_timeout_ms have passed: SIGKILL.
TurnTimeout(t) ==
    /\ turns[t].timer
    /\ Settle(t, [turns[t] EXCEPT !.timer = FALSE,
                                  !.child = IF @ = "up" THEN "dead" ELSE @], "timeout")
    /\ UNCHANGED kind

-----------------------------------------------------------------------------
(* The caller *)

RunTurn ==
    /\ pc = "ready" /\ Len(turns) < MaxTurns
    /\ pc' = "turn" /\ turns' = Append(turns, NewTurn)
    /\ UNCHANGED kind

\* The child cannot be spawned.  runTurn throws, but nobody listens for the child's
\* `error` event, and the process dies of it.
SpawnFails ==
    /\ pc = "ready" /\ Len(turns) < MaxTurns
    /\ pc' = "crashed"
    /\ UNCHANGED <<kind, turns>>

\* A child has died without reading the whole prompt: nobody listens for the `error`
\* event of stdin either.  After the exit event stdin is destroyed and keeps quiet.
PromptUnread(t) ==
    /\ turns[t].child = "dead"
    /\ pc' = "crashed"
    /\ UNCHANGED <<kind, turns>>

\* stop(): nothing to do without a child, else SIGTERM and a wait for the exit,
\* even of a child that has exited.
Stop ==
    /\ pc \in {"ready", "over"}
    /\ pc' = IF turns = << >> THEN "stopped" ELSE "stopping"
    /\ UNCHANGED <<kind, turns>>

\* MUTANT: stop() waits for the exit however long it takes.
StopTimeout_AwaitsExit ==
    /\ pc = "stopping"
    /\ turns' = [turns EXCEPT ![Len(turns)].child = IF @ = "up" THEN "dead" ELSE @]
    /\ UNCHANGED <<kind, pc>>

\* No exit within five seconds: SIGKILL.
StopTimeout ==
    /\ pc = "stopping"
    /\ pc' = "stopped"
    /\ turns' = [turns EXCEPT ![Len(turns)].child = IF @ = "up" THEN "dead" ELSE @]
    /\ UNCHANGED kind

-----------------------------------------------------------------------------
ChildStep(t) ==
    \/ \E line \in Line : ChildWrites(t, line)
    \/ \E clean \in BOOLEAN : ChildExits(t, clean)

\* What the event loop will do sooner or later: events and timers that are due.
Event(t) == ExitEvent(t) \/ OutputRead(t) \/ TurnTimeout(t)

Next ==
    /\ pc # "crashed"
    /\ \/ \E t \in 1..Len(turns) : ChildStep(t) \/ LineArrives(t) \/ Event(t) \/ PromptUnread(t)
       \/ RunTurn
       \/ SpawnFails
       \/ Stop
       \/ StopTimeout

Spec == Init /\ [][Next]_vars

Fairness ==
    /\ \A t \in 1..MaxTurns : WF_vars(t <= Len(turns) /\ pc # "crashed" /\ Event(t))
    /\ WF_vars(StopTimeout)

FairSpec == Spec /\ Fairness

-----------------------------------------------------------------------------
(* Properties *)

\* Once a turn has a result its process is dead: the next turn, or the agent that
\* takes over, has the workspace to itself.
EndedTurnHasNoChild ==
    \A t \in 1..Len(turns) : turns[t].result # "none" => turns[t].child # "up"

\* Seen by its caller the session is an AgentSession: late events of a turn that has
\* ended change nothing, and stop(), which knows only the last child, leaves none.
Session == INSTANCE AgentSession
    WITH phase  <- pc,
         result <- IF turns = << >> THEN "none" ELSE turns[Len(turns)].result,
         alive  <- \E t \in 1..Len(turns) : turns[t].child = "up"

ImplementsSession == Session!Spec

\* A turn ends, whatever its child does: at the latest at its timeout.
TurnEnds == (pc = "turn") ~> (pc # "turn")

\* stop() returns, even if the child's exit was seen before or is never seen.
SessionStops == (pc = "stopping") ~> (pc \in {"stopped", "crashed"})
=============================================================================
