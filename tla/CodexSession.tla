---------------------------- MODULE CodexSession ----------------------------
(***************************************************************************)
(* One session of `codex app-server`: class CodexSession, the child        *)
(* process it talks to over pipes, and the worker that calls it.           *)
(*                                                                         *)
(* The session reads the child's lines through nextLine(), a queue with    *)
(* two sides: lineBuffer holds lines nobody has asked for, lineResolvers   *)
(* the readers no line has come for.  A reader that times out means to     *)
(* leave lineResolvers but looks itself up under the wrong function, so it *)
(* stays there, stale, and the next line is handed to it.                  *)
(***************************************************************************)
EXTENDS Integers, Sequences

CONSTANTS
    MaxTurns,  \* BOUND: turns asked of one session
    MaxLines,  \* BOUND: lines the child has written and the session not read
    MaxStale   \* BOUND: readers that time out before the deadline in one wait

ASSUME BoundsAssumption == MaxTurns \in Nat /\ MaxLines \in Nat \ {0} /\ MaxStale \in Nat

VARIABLES
    \* the child
    child,   \* "up"; "dead"; "gone" once the session has seen its exit
    pipe,    \* lines it has written that readline has not delivered
    owes,    \* the request it has not answered, 0 for none
    working, \* the turn it works on, 0 for none
    asking,  \* it waits for the answer to an approval request or a tool call
    \* the session
    lineBuffer, lineResolvers, closed,
    pc,      \* what it is doing
    request, \* id of the last request it sent; the n-th turn/start is n + 2
    turn_id,
    late,    \* the deadline of the loop it is in has passed
    result,  \* how the last runTurn ended
    told     \* the last word of this turn, if it came while the stream waited for it

outside == <<child, pipe, owes, working, asking>>
reading == <<lineBuffer, lineResolvers, closed>>
vars == <<outside, reading, pc, request, turn_id, late, result, told>>

Terminal == {"completed", "failed", "cancelled", "input_required"}
Ids      == 0..(MaxTurns + 2)
Line     == [kind: Terminal \cup {"response", "refusal", "ask", "note"}, id: Ids]

Responding == {"initialize", "threadStart", "turnStart"}
Reading    == Responding \cup {"stream"}
Waiting    == lineResolvers # << >> /\ lineResolvers[Len(lineResolvers)] = "live"

TypeOK ==
    /\ child \in {"up", "dead", "gone"}
    /\ pipe \in Seq(Line) /\ lineBuffer \in Seq(Line)
    /\ owes \in Ids /\ working \in Ids /\ request \in Ids /\ turn_id \in Ids
    /\ asking \in BOOLEAN /\ closed \in BOOLEAN /\ late \in BOOLEAN
    /\ lineResolvers \in Seq({"live", "stale"})
    /\ pc \in Reading \cup {"idle", "failed", "over", "stopping", "stopped", "crashed"}
    /\ result \in Terminal \cup {"none", "timeout", "error"}
    /\ told \in Terminal \cup {"none"}

\* The child is spawned and initialize() has sent its first request.
Init ==
    /\ child = "up" /\ pipe = << >> /\ owes = 1 /\ working = 0 /\ asking = FALSE
    /\ lineBuffer = << >> /\ lineResolvers = << >> /\ closed = FALSE
    /\ pc = "initialize" /\ request = 1 /\ turn_id = 0 /\ late = FALSE
    /\ result = "none" /\ told = "none"

-----------------------------------------------------------------------------
(* The child: it answers each request once, ends each turn once, and says      *)
(* nothing more in a turn while it waits for an answer.                        *)

Write(kind, id) ==
    /\ child = "up"
    /\ Len(pipe) + Len(lineBuffer) < MaxLines
    /\ pipe' = Append(pipe, [kind |-> kind, id |-> id])
    /\ UNCHANGED <<child, reading, pc, request, turn_id, late, result, told>>

ChildAnswers(kind) ==
    /\ owes # 0
    /\ Write(kind, owes)
    /\ owes' = 0
    /\ working' = IF kind = "response" /\ owes > 2 THEN owes ELSE working
    /\ UNCHANGED asking

ChildAsks ==
    /\ working # 0 /\ ~asking
    /\ Write("ask", working)
    /\ asking' = TRUE
    /\ UNCHANGED <<owes, working>>

ChildEndsTurn(kind) ==
    /\ working # 0 /\ ~asking
    /\ Write(kind, working)
    /\ working' = 0
    /\ UNCHANGED <<owes, asking>>

\* A notification, or a line that is no JSON.
ChildNotes == Write("note", 0) /\ UNCHANGED <<owes, working, asking>>

ChildDies ==
    /\ child = "up"
    /\ child' = "dead"
    /\ UNCHANGED <<pipe, owes, working, asking, reading, pc, request, turn_id,
                   late, result, told>>

-----------------------------------------------------------------------------
(* What the session does with a line *)

\* sendRequest.
Send(id) == request' = id /\ owes' = id /\ late' = FALSE

\* An exception leaves initialize() or runTurn().
Throw ==
    IF pc = "turnStart" THEN pc' = "over" /\ result' = "error"
                        ELSE pc' = "failed" /\ UNCHANGED result

\* The response came: the next request, or the stream of the turn.
Advance(id) ==
    CASE pc = "initialize"  -> pc' = "threadStart" /\ Send(request + 1) /\ UNCHANGED turn_id
      [] pc = "threadStart" -> pc' = "idle" /\ UNCHANGED <<request, owes, late, turn_id>>
      [] pc = "turnStart"   -> /\ pc' = "stream" /\ turn_id' = id /\ late' = FALSE
                               /\ UNCHANGED <<request, owes>>

\* MUTANT: the id of the response is not compared.
TakeResponse_AnyId(l) ==
    IF l.kind \in {"response", "note"}
    THEN Advance(l.id) /\ UNCHANGED <<result, asking>>
    ELSE IF l.kind = "refusal"
    THEN Throw /\ UNCHANGED <<request, owes, turn_id, late, asking>>
    ELSE UNCHANGED <<pc, request, owes, turn_id, late, result, asking>>

\* readResponse: anything but the response to the last request is skipped.
TakeResponse(l) ==
    IF l.id = request /\ l.kind = "response"
    THEN Advance(l.id) /\ UNCHANGED <<result, asking>>
    ELSE IF l.id = request /\ l.kind = "refusal"
    THEN Throw /\ UNCHANGED <<request, owes, turn_id, late, asking>>
    ELSE UNCHANGED <<pc, request, owes, turn_id, late, result, asking>>

\* streamTurn: a last word ends the turn, an approval request is granted and a
\* tool call refused, anything else is passed on as an event.
TakeInStream(l) ==
    /\ IF l.kind \in Terminal
       THEN pc' = (IF l.kind = "completed" THEN "idle" ELSE "over") /\ result' = l.kind
       ELSE UNCHANGED <<pc, result>>
    /\ asking' = (asking /\ l.kind # "ask")
    /\ UNCHANGED <<request, owes, turn_id, late>>

Take(l) == IF pc = "stream" THEN TakeInStream(l) ELSE TakeResponse(l)

-----------------------------------------------------------------------------
(* nextLine() and the two loops around it.  `~Waiting` is the moment between    *)
(* two readers; no other callback runs in it but the lines of one same chunk.   *)

\* A buffered line is taken at once.
ReadBuffered ==
    /\ pc \in Reading /\ ~Waiting /\ ~late
    /\ lineBuffer # << >>
    /\ lineBuffer' = Tail(lineBuffer)
    /\ Take(Head(lineBuffer))
    /\ UNCHANGED <<child, pipe, working, lineResolvers, closed, told>>

\* MUTANT: a reader waits even if lines are buffered.
ReaderWaits_IgnoresBuffer ==
    /\ pc \in Reading /\ ~Waiting /\ ~late
    /\ ~closed
    /\ lineResolvers' = Append(lineResolvers, "live")
    /\ UNCHANGED <<outside, lineBuffer, closed, pc, request, turn_id, late, result, told>>

\* Nothing is buffered: a reader joins the queue.
ReaderWaits ==
    /\ pc \in Reading /\ ~Waiting /\ ~late
    /\ lineBuffer = << >> /\ ~closed
    /\ lineResolvers' = Append(lineResolvers, "live")
    /\ UNCHANGED <<outside, lineBuffer, closed, pc, request, turn_id, late, result, told>>

\* MUTANT: the code of the error becomes the status of the turn.
PortExit_CodeAsStatus ==
    /\ pc \in Reading /\ ~Waiting /\ ~late
    /\ lineBuffer = << >> /\ closed
    /\ IF pc = "stream" THEN pc' = "over" /\ result' = "port_exit" ELSE Throw
    /\ UNCHANGED <<outside, reading, request, turn_id, late, told>>

\* Nothing is left to read and nothing will come: port_exit.
PortExit ==
    /\ pc \in Reading /\ ~Waiting /\ ~late
    /\ lineBuffer = << >> /\ closed
    /\ IF pc = "stream" THEN pc' = "over" /\ result' = "failed" ELSE Throw
    /\ UNCHANGED <<outside, reading, request, turn_id, late, told>>

\* MUTANT: the stream waits for one more line instead.
LoopEnds_NotInStream ==
    /\ pc \in Responding /\ ~Waiting /\ late
    /\ Throw
    /\ UNCHANGED <<outside, reading, request, turn_id, late, told>>

\* The deadline has passed when the loop looks at it.
LoopEnds ==
    /\ pc \in Reading /\ ~Waiting /\ late
    /\ IF pc = "stream" THEN pc' = "over" /\ result' = "timeout" ELSE Throw
    /\ UNCHANGED <<outside, reading, request, turn_id, late, told>>

DeadlinePasses ==
    /\ pc \in Reading /\ ~late
    /\ late' = TRUE
    /\ UNCHANGED <<outside, reading, pc, request, turn_id, result, told>>

\* The timer of the waiting reader fires.  In a stream, which looks again, it does
\* so every five seconds; in readResponse, which throws, at the deadline.
ReaderTimesOut ==
    /\ pc \in Reading /\ Waiting
    /\ late \/ (pc = "stream" /\ Len(lineResolvers) <= MaxStale)
    /\ lineResolvers' = [lineResolvers EXCEPT ![Len(lineResolvers)] = "stale"]
    /\ IF pc = "stream" THEN UNCHANGED <<pc, result>> ELSE Throw
    /\ UNCHANGED <<outside, lineBuffer, closed, request, turn_id, late, told>>

\* MUTANT: the last reader gets the line.
LineArrives_LastReader ==
    /\ pipe # << >>
    /\ pipe' = Tail(pipe)
    /\ UNCHANGED told
    /\ IF lineResolvers = << >>
       THEN /\ lineBuffer' = Append(lineBuffer, Head(pipe))
            /\ UNCHANGED <<lineResolvers, asking, owes, pc, request, turn_id, late, result>>
       ELSE /\ lineResolvers' = SubSeq(lineResolvers, 1, Len(lineResolvers) - 1)
            /\ UNCHANGED lineBuffer
            /\ IF Waiting THEN Take(Head(pipe))
               ELSE UNCHANGED <<asking, owes, pc, request, turn_id, late, result>>
    /\ UNCHANGED <<child, working, closed>>

\* readline's `line` event: the first reader in the queue gets the line, and does
\* nothing with it if it is stale; without a reader it is buffered.
LineArrives ==
    /\ pipe # << >>
    /\ pipe' = Tail(pipe)
    /\ told' = IF pc = "stream" /\ Waiting /\ ~late /\ Head(pipe).kind \in Terminal
               THEN Head(pipe).kind ELSE told
    /\ IF lineResolvers = << >>
       THEN /\ lineBuffer' = Append(lineBuffer, Head(pipe))
            /\ UNCHANGED <<lineResolvers, asking, owes, pc, request, turn_id, late, result>>
       ELSE /\ lineResolvers' = Tail(lineResolvers)
            /\ UNCHANGED lineBuffer
            /\ IF Head(lineResolvers) = "live" THEN Take(Head(pipe))
               ELSE UNCHANGED <<asking, owes, pc, request, turn_id, late, result>>
    /\ UNCHANGED <<child, working, closed>>

\* MUTANT: pending readers are not resolved.
ChildExit_LeavesReaders ==
    /\ child = "dead"
    /\ child' = "gone" /\ closed' = TRUE
    /\ pc' = IF pc = "stopping" THEN "stopped" ELSE pc
    /\ UNCHANGED <<pipe, owes, working, asking, lineBuffer, lineResolvers, request, turn_id,
                   late, result, told>>

\* The child's `exit` event, before or after its last lines: pending readers get
\* an empty line, on which the loops read again.
ChildExit ==
    /\ child = "dead"
    /\ child' = "gone" /\ closed' = TRUE
    /\ lineResolvers' = << >>
    /\ pc' = IF pc = "stopping" THEN "stopped" ELSE pc
    /\ UNCHANGED <<pipe, owes, working, asking, lineBuffer, request, turn_id,
                   late, result, told>>

-----------------------------------------------------------------------------
(* The caller *)

\* runTurn, called by the worker after a turn that completed.
RunTurn ==
    /\ pc = "idle" /\ request < MaxTurns + 2
    /\ pc' = "turnStart" /\ Send(request + 1)
    /\ result' = "none" /\ told' = "none"
    /\ UNCHANGED <<child, pipe, working, asking, reading, turn_id>>

\* stop(): nothing to do if the child has exited, else SIGTERM.
Stop ==
    /\ pc \in {"idle", "over"}
    /\ closed' = TRUE
    /\ pc' = IF closed THEN "stopped" ELSE "stopping"
    /\ UNCHANGED <<outside, lineBuffer, lineResolvers, request, turn_id, late, result, told>>

\* MUTANT: stop() gives up without SIGKILL.
StopTimeout_NoKill ==
    /\ pc = "stopping"
    /\ pc' = "stopped"
    /\ UNCHANGED <<outside, reading, request, turn_id, late, result, told>>

\* MUTANT: after SIGKILL stop() waits for the exit.
StopTimeout_AwaitsExit ==
    /\ pc = "stopping"
    /\ child' = IF child = "up" THEN "dead" ELSE child
    /\ UNCHANGED <<pipe, owes, working, asking, reading, pc, request, turn_id, late, result, told>>

\* No exit within five seconds: SIGKILL.
StopTimeout ==
    /\ pc = "stopping"
    /\ pc' = "stopped"
    /\ child' = IF child = "up" THEN "dead" ELSE child
    /\ UNCHANGED <<pipe, owes, working, asking, reading, request, turn_id, late, result, told>>

-----------------------------------------------------------------------------
(* Writing to a child that is dead already *)

\* On line l the session writes: the next request, or the answer to a question.
Answers(l) ==
    \/ pc = "initialize" /\ l.id = request /\ l.kind = "response"
    \/ pc = "stream" /\ l.kind = "ask"

\* What the session does next writes to the child.
AboutToWrite ==
    \/ pc = "idle" /\ request < MaxTurns + 2
    \/ pc \in Reading /\ ~Waiting /\ ~late /\ lineBuffer # << >> /\ Answers(Head(lineBuffer))
    \/ pc \in Reading /\ Waiting /\ Len(lineResolvers) = 1 /\ pipe # << >> /\ Answers(Head(pipe))

\* The child is dead, which the session has not seen: the pipe is broken, nobody
\* listens for the `error` event of stdin, and the process dies of it.
BrokenPipe ==
    /\ child = "dead" /\ AboutToWrite
    /\ pc' = "crashed"
    /\ UNCHANGED <<outside, reading, request, turn_id, late, result, told>>

-----------------------------------------------------------------------------
ChildStep ==
    \/ \E kind \in {"response", "refusal"} : ChildAnswers(kind)
    \/ \E kind \in Terminal : ChildEndsTurn(kind)
    \/ ChildAsks
    \/ ChildNotes
    \/ ChildDies

LoopStep == ReadBuffered \/ ReaderWaits \/ PortExit \/ LoopEnds

SessionStep == LoopStep \/ DeadlinePasses \/ ReaderTimesOut \/ LineArrives \/ ChildExit

CallerStep == RunTurn \/ Stop \/ StopTimeout

Next == pc # "crashed" /\ (ChildStep \/ SessionStep \/ CallerStep \/ BrokenPipe)

Spec == Init /\ [][Next]_vars

\* The session's own code runs on, and its timers fire; nothing is asked of the child.
Fairness == WF_vars(LoopStep) /\ WF_vars(DeadlinePasses)
              /\ WF_vars(ReaderTimesOut) /\ WF_vars(StopTimeout)

FairSpec == Spec /\ Fairness

-----------------------------------------------------------------------------
(* Properties *)

\* No reader, waiting or stale, stands in the queue while a line is buffered: a
\* line is never left in lineBuffer with someone asking for it, although either
\* side is filled by a callback of its own.
NoReaderWhileBuffered == lineBuffer # << >> => lineResolvers = << >>

\* Stale readers exist only inside a stream, and after a wait that ended the
\* session's use: the response to a request is never handed to one.
NoStaleReaderForResponses ==
    pc \in Responding \cup {"idle"} =>
        \A k \in 1..Len(lineResolvers) : lineResolvers[k] = "live"

\* Whatever the child says between turns, and whatever the last turn left in the
\* buffer, the turn being streamed is the one that was asked for last, and the
\* child has opened it.
StreamsTheTurnAskedFor ==
    pc = "stream" => turn_id = request /\ working \in {0, request} /\ owes = 0

\* Nobody waits for a line once the child has exited or stop() was called: the
\* failure of a dead child is not found out by a timeout.
ClosedWakesReaders == closed => ~Waiting

\* Seen by its caller the session is an AgentSession: whatever order lines, timers and
\* the exit come in, a turn has one result, none is begun after one that did not
\* complete, and once stop() has returned the child is dead, whether it minded
\* SIGTERM or not.
Session == INSTANCE AgentSession
    WITH phase  <- CASE pc \in {"initialize", "threadStart"} -> "starting"
                     [] pc \in {"turnStart", "stream"}       -> "turn"
                     [] pc = "idle"                          -> "ready"
                     [] OTHER                                -> pc,
         alive  <- child = "up"

ImplementsSession == Session!Spec

\* A turn ends, whatever the child does: every wait has its deadline.
TurnEnds == (pc \in {"turnStart", "stream"}) ~> (pc \notin Reading)

\* stop() returns.
SessionStops == (pc = "stopping") ~> (pc = "stopped")

\* "Keep waiting until overall deadline": a turn is reported as timed out only if
\* the child did not say how it ended before the deadline, while the stream was
\* waiting to hear it.  A stale reader takes that line away.
TimeoutMeansSilence == result = "timeout" => told = "none"
=============================================================================
