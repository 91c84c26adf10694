------------------------------ MODULE AgentRun ------------------------------
(***************************************************************************)
(* Calls of runWorker for one issue, with the FallbackAgentSession each of *)
(* them drives and the workspace directory they share.                     *)
(*                                                                         *)
(* The directory is named after the issue, so a worker the orchestrator    *)
(* has given up on, its successor, and the removal of a closed issue's     *)
(* workspace all work on the same one.  A step is what happens between two *)
(* awaits; its parameter is how the awaited call ended.                    *)
(***************************************************************************)
EXTENDS Integers, FiniteSets

CONSTANTS
    Workers,    \* calls of runWorker for the issue
    MaxTurns,   \* agent.max_turns
    Fallbacks,  \* what codex.fallback_command may be: "none", of the "other" kind than
                \* codex.command, or of the "same" (detectRunnerKind)
    Failures    \* what may end the process, beside a directory that is gone: "spawn", that the
                \* system refuses an agent; "write", that one dies when it is written to; "kill"

ASSUME ConstantsAssumption ==
    /\ MaxTurns \in Nat /\ Fallbacks \subseteq {"none", "other", "same"}
    /\ Failures \subseteq {"spawn", "write", "kill"}
    /\ Workers \cap {"absent", "file", "ready"} = {}

VARIABLES
    fallback, \* the configured fallback agent
    perTurn,  \* which of the two agents are a process per turn
    dir,      \* the workspace: "absent"; "file", no directory; the worker that created it,
              \* until its after_create has succeeded; then "ready"
    remover,  \* removeWorkspace: "idle", or "hook" while before_remove runs
    pc,       \* worker -> the await it stands at
    sessions, \* worker -> the sessions that started and are not stopped
    strays,   \* worker -> its agents that nobody can stop any more: they are at work until they
              \* end by themselves
    current,  \* worker -> currentSession: "none", "primary" or "fallback"
    turn,     \* worker -> turnNumber
    active,   \* worker -> currentIssue is in an active state
    outcome,  \* worker -> status of its WorkerResult; "lost" if the process died
    runs      \* worker -> calls of an agent's runTurn so far, until it returns

config == <<fallback, perTurn>>
vars == <<config, dir, remover, pc, sessions, strays, current, turn, active,
          outcome, runs>>

Kinds == {"primary", "fallback"}

TypeOK ==
    /\ fallback \in Fallbacks /\ perTurn \subseteq Kinds
    /\ dir \in {"absent", "file", "ready"} \cup Workers
    /\ remover \in {"idle", "hook"}
    /\ pc \in [Workers -> {"idle", "creating", "before", "starting", "fallbackStarting", "turn", "rerun",
                           "switching", "resuming", "refreshing", "stopping", "after", "done"}]
    /\ sessions \in [Workers -> SUBSET Kinds] /\ strays \in [Workers -> SUBSET Kinds]
    /\ current \in [Workers -> Kinds \cup {"none"}]
    /\ turn \in [Workers -> 0..MaxTurns]
    /\ active \in [Workers -> BOOLEAN]
    /\ outcome \in [Workers -> {"none", "normal", "error", "cancelled", "timeout", "blocked", "lost"}]
    /\ runs \in [Workers -> Nat]

Init ==
    /\ fallback \in Fallbacks
    /\ perTurn \in CASE fallback = "none"  -> SUBSET {"primary"}
                     [] fallback = "other" -> (SUBSET Kinds) \ {{}}
                     [] fallback = "same"  -> {{}, Kinds}
    /\ dir \in {"absent", "file", "ready"}
    /\ remover = "idle"
    /\ pc = [w \in Workers |-> "idle"]
    /\ sessions = [w \in Workers |-> {}] /\ strays = [w \in Workers |-> {}]
    /\ current = [w \in Workers |-> "none"]
    /\ turn = [w \in Workers |-> 0]
    /\ active = [w \in Workers |-> FALSE]
    /\ outcome = [w \in Workers |-> "none"]
    /\ runs = [w \in Workers |-> 0]

-----------------------------------------------------------------------------
(* Moves of worker w *)

Goto(w, l) == pc' = [pc EXCEPT ![w] = l]

\* The result is decided; `l` is what is still to be done before it is returned.
Finish(w, result, l) == outcome' = [outcome EXCEPT ![w] = result] /\ Goto(w, l)

\* A process can be spawned in the workspace: see SpawnFails.
CanSpawn == dir # "absent"

\* The agents worker w drives: that of its session, or the app-server it initializes.
Driven(w) == sessions[w] \cup CASE pc[w] = "starting"                          -> {"primary"}
                                [] pc[w] \in {"fallbackStarting", "resuming"} -> {"fallback"}
                                [] OTHER                                      -> {}

\* initialize() throws: the app-server it was called for is not stopped.
Strands(w, k) == strays' = [strays EXCEPT ![w] = @ \cup {k}]

\* The next turn, run by the agent of kind k, or the end if the limit is reached.
\* buildTurnPrompt may throw; an agent of one process per turn is spawned.
BeginTurn(w, k) ==
    IF turn[w] < MaxTurns
    THEN /\ turn' = [turn EXCEPT ![w] = @ + 1]
         /\ \/ (k \in perTurn => CanSpawn) /\ Goto(w, "turn") /\ UNCHANGED outcome
            \/ Finish(w, "error", "stopping")
    ELSE Finish(w, "normal", "stopping") /\ UNCHANGED turn

\* The agent's session of kind k has started and becomes the current one.
Opened(w, k) ==
    /\ sessions' = [sessions EXCEPT ![w] = @ \cup {k}]
    /\ current' = [current EXCEPT ![w] = k]

\* startSession for the agent of kind k, before the first turn: it is spawned and
\* awaited at l, or is one of a process per turn and there at once.
StartAgent(w, k, l) ==
    IF k \in perTurn
    THEN Opened(w, k) /\ BeginTurn(w, k)
    ELSE CanSpawn /\ Goto(w, l) /\ UNCHANGED <<outcome, sessions, current, turn>>

-----------------------------------------------------------------------------
(* The workspace *)

\* createForIssue up to its hook, for an issue in any state: Mission Control dispatches
\* them all.  The path is refused or cannot be made, the directory is there already, or
\* it is new and after_create runs in it.
CreateWorkspace(w) ==
    /\ pc[w] = "idle"
    /\ \/ Finish(w, "error", "done") /\ UNCHANGED <<dir, active>>
       \/ /\ active' \in {[active EXCEPT ![w] = a] : a \in BOOLEAN} /\ UNCHANGED outcome
          /\ \/ dir \in {"ready"} \cup Workers /\ Goto(w, "before") /\ UNCHANGED dir
             \/ dir \in {"absent", "file"} /\ dir' = w /\ Goto(w, "creating")
    /\ UNCHANGED <<config, remover, sessions, strays, current, turn, runs>>

\* MUTANT: a hook that failed is not fatal.
AfterCreate_NotFatal(w, ok) ==
    /\ pc[w] = "creating"
    /\ dir' = IF ok /\ dir = w THEN "ready" ELSE dir
    /\ Goto(w, "before")
    /\ UNCHANGED <<config, remover, sessions, strays, current, turn, active, outcome, runs>>

\* after_create ends; if it failed, whatever is at the path by now is removed, as
\* far as that works.
AfterCreate(w, ok) ==
    /\ pc[w] = "creating"
    /\ IF ok THEN /\ dir' = IF dir = w THEN "ready" ELSE dir
                  /\ Goto(w, "before") /\ UNCHANGED outcome
             ELSE dir' \in {"absent", dir} /\ Finish(w, "error", "done")
    /\ UNCHANGED <<config, remover, sessions, strays, current, turn, active, runs>>

\* before_run ends; a failure ends the worker, without after_run.  startInitialSession
\* begins.
BeforeRun(w, ok) ==
    /\ pc[w] = "before"
    /\ IF ok THEN StartAgent(w, "primary", "starting")
             ELSE Finish(w, "error", "done") /\ UNCHANGED <<sessions, current, turn>>
    /\ UNCHANGED <<config, dir, remover, strays, active, runs>>

\* removeWorkspace, called by the tick for a closed issue or at start-up.
Remove ==
    /\ remover = "idle" /\ dir # "absent"
    /\ remover' = "hook"
    /\ UNCHANGED <<config, dir, pc, sessions, strays, current, turn, active, outcome, runs>>

\* before_remove has ended: the directory goes, unless that fails.
Removed ==
    /\ remover = "hook"
    /\ remover' = "idle" /\ dir' \in {"absent", dir}
    /\ UNCHANGED <<config, pc, sessions, strays, current, turn, active, outcome, runs>>

-----------------------------------------------------------------------------
(* Sessions *)

\* The primary agent has initialized, or the fallback one is started instead.
StartSession(w, ok) ==
    /\ pc[w] = "starting"
    /\ IF ok THEN Opened(w, "primary") /\ BeginTurn(w, "primary") /\ UNCHANGED strays
       ELSE /\ Strands(w, "primary")
            /\ IF fallback # "none" THEN StartAgent(w, "fallback", "fallbackStarting")
               ELSE Finish(w, "error", "after") /\ UNCHANGED <<sessions, current, turn>>
    /\ UNCHANGED <<config, dir, remover, active, runs>>

StartFallback(w, ok) ==
    /\ pc[w] = "fallbackStarting"
    /\ IF ok THEN Opened(w, "fallback") /\ BeginTurn(w, "fallback") /\ UNCHANGED strays
             ELSE /\ Strands(w, "fallback") /\ Finish(w, "error", "after")
                  /\ UNCHANGED <<sessions, current, turn>>
    /\ UNCHANGED <<config, dir, remover, active, runs>>

\* MUTANT: the failed agent is not stopped before the other one starts.
SwitchAgent_LeavesPrimary(w) ==
    /\ pc[w] = "switching"
    /\ Goto(w, "resuming")
    /\ UNCHANGED <<config, dir, remover, sessions, strays, current, turn, active, outcome, runs>>

\* The failed agent's stop() returns; startFallbackSession begins, and for an agent
\* of one process per turn the turn as well.
SwitchAgent(w) ==
    /\ pc[w] = "switching" /\ CanSpawn
    /\ IF "fallback" \in perTurn
       THEN /\ sessions' = [sessions EXCEPT ![w] = (@ \ {current[w]}) \cup {"fallback"}]
            /\ current' = [current EXCEPT ![w] = "fallback"]
            /\ Goto(w, "rerun")
       ELSE /\ sessions' = [sessions EXCEPT ![w] = @ \ {current[w]}]
            /\ Goto(w, "resuming") /\ UNCHANGED current
    /\ UNCHANGED <<config, dir, remover, strays, turn, active, outcome, runs>>

\* MUTANT: an agent that cannot start is tried again.
ResumeTurn_Retries(w, ok) ==
    /\ pc[w] = "resuming"
    /\ IF ok THEN Opened(w, "fallback") /\ Goto(w, "rerun")
             ELSE Goto(w, "switching") /\ UNCHANGED <<sessions, current>>
    /\ UNCHANGED <<config, dir, remover, strays, turn, active, outcome, runs>>

\* The fallback agent gets the same prompt; if it cannot start, the exception goes
\* to the worker, which stops currentSession, the failed agent, once more.
ResumeTurn(w, ok) ==
    /\ pc[w] = "resuming"
    /\ IF ok THEN Opened(w, "fallback") /\ Goto(w, "rerun") /\ UNCHANGED <<strays, outcome>>
             ELSE /\ Strands(w, "fallback") /\ Finish(w, "error", "stopping")
                  /\ UNCHANGED <<sessions, current>>
    /\ UNCHANGED <<config, dir, remover, turn, active, runs>>

-----------------------------------------------------------------------------
(* Turns *)

\* MUTANT: the fallback agent may be replaced as well.
CanFallback_Again(w) == fallback # "none"

\* canFallback.  The active agent is told by its kind: a fallback agent of the same
\* kind as the primary one is taken for it.
CanFallback(w) ==
    fallback # "none" /\ (current[w] = "primary" \/ fallback = "same")

\* MUTANT: the status of the turn is returned as it is.
Status_AsTurn(how) == IF how = "input_required" THEN "blocked" ELSE how

\* The worker's status for a turn that did not complete.
Status(how) == CASE how = "failed"         -> "error"
                 [] how = "cancelled"      -> "cancelled"
                 [] how = "timeout"        -> "timeout"
                 [] how = "input_required" -> "blocked"

\* An agent's runTurn is awaited, for the first or the second time in the turn.
InTurn(w) == pc[w] \in {"turn", "rerun"}

\* MUTANT: after an exception the session is forgotten.
TurnThrows_NoStop(w) ==
    /\ InTurn(w)
    /\ Finish(w, "error", "after")
    /\ runs' = [runs EXCEPT ![w] = @ + 1]
    /\ UNCHANGED <<config, dir, remover, sessions, strays, current, turn, active>>

\* The agent's runTurn throws: no fallback.
TurnThrows(w) ==
    /\ InTurn(w)
    /\ Finish(w, "error", "stopping")
    /\ runs' = [runs EXCEPT ![w] = @ + 1]
    /\ UNCHANGED <<config, dir, remover, sessions, strays, current, turn, active>>

\* It ends without completing: the worker ends, unless there is an agent to run the
\* turn again.
TurnEndsBadly(w, how) ==
    /\ InTurn(w)
    /\ runs' = [runs EXCEPT ![w] = @ + 1]
    /\ IF pc[w] = "turn" /\ CanFallback(w)
       THEN Goto(w, "switching") /\ UNCHANGED outcome
       ELSE Finish(w, Status(how), "stopping")
    /\ UNCHANGED <<config, dir, remover, sessions, strays, current, turn, active>>

\* It completes: unless it was the last turn, the tracker is asked for the issue.
TurnCompletes(w) ==
    /\ InTurn(w)
    /\ runs' = [runs EXCEPT ![w] = @ + 1]
    /\ IF turn[w] < MaxTurns THEN Goto(w, "refreshing") /\ UNCHANGED outcome
                             ELSE Finish(w, "normal", "stopping")
    /\ UNCHANGED <<config, dir, remover, sessions, strays, current, turn, active>>

\* MUTANT: the state the tracker gives is not looked at.
Refreshed_IgnoresState(w, seen) ==
    /\ pc[w] = "refreshing"
    /\ active' = [active EXCEPT ![w] = IF seen = "missing" THEN @ ELSE seen = "active"]
    /\ BeginTurn(w, current[w])
    /\ UNCHANGED <<config, dir, remover, sessions, strays, current, runs>>

\* The tracker answers: the issue is active, is not, or is missing from the answer,
\* in which case what was known before counts.
Refreshed(w, seen) ==
    /\ pc[w] = "refreshing"
    /\ active' = [active EXCEPT ![w] = IF seen = "missing" THEN @ ELSE seen = "active"]
    /\ IF active'[w] THEN BeginTurn(w, current[w]) ELSE Finish(w, "normal", "stopping") /\ UNCHANGED turn
    /\ UNCHANGED <<config, dir, remover, sessions, strays, current, runs>>

RefreshFails(w) ==
    /\ pc[w] = "refreshing"
    /\ Finish(w, "error", "stopping")
    /\ UNCHANGED <<config, dir, remover, sessions, strays, current, turn, active, runs>>

\* session.stop() returns; after_run follows.
StopSession(w) ==
    /\ pc[w] = "stopping"
    /\ sessions' = [sessions EXCEPT ![w] = @ \ {current[w]}]
    /\ Goto(w, "after")
    /\ UNCHANGED <<config, dir, remover, strays, current, turn, active, outcome, runs>>

\* after_run ends, however; the result is returned, and the worker's locals are gone.
AfterRun(w) ==
    /\ pc[w] = "after"
    /\ Goto(w, "done")
    /\ turn' = [turn EXCEPT ![w] = 0] /\ active' = [active EXCEPT ![w] = FALSE]
    /\ runs' = [runs EXCEPT ![w] = 0]
    /\ UNCHANGED <<config, dir, remover, sessions, strays, current, outcome>>

\* The process dies: the directory and the agents stay, and nothing of what the workers
\* knew.
Die ==
    /\ LET lost == {w \in Workers : pc[w] \notin {"idle", "done"}}
           Lose(f, x) == [w \in Workers |-> IF w \in lost THEN x ELSE f[w]]
       IN  /\ pc' = Lose(pc, "done") /\ outcome' = Lose(outcome, "lost")
           /\ current' = Lose(current, "none") /\ turn' = Lose(turn, 0)
           /\ active' = Lose(active, FALSE) /\ runs' = Lose(runs, 0)
    /\ strays' = [w \in Workers |-> strays[w] \cup Driven(w)]
    /\ sessions' = [w \in Workers |-> {}]
    /\ remover' = "idle"
    /\ UNCHANGED <<config, dir>>

\* It is killed.
Crash == "kill" \in Failures /\ Die

\* An agent of kind k is spawned when its session starts or with the first turn.
StartSpawns(k) == k \notin perTurn \/ MaxTurns > 0

\* When the await of worker w returns, an agent may be spawned before the next one.
Spawns(w) ==
    \/ pc[w] = "before" /\ StartSpawns("primary")
    \/ pc[w] = "starting" /\ fallback # "none" /\ StartSpawns("fallback")
    \/ pc[w] = "switching"
    \/ pc[w] = "refreshing" /\ current[w] \in perTurn

\* The spawn fails, because the directory is gone or the system refuses.  The runner
\* throws, but nobody listens for the child's `error` event, and the process dies of it.
SpawnFails(w) ==
    /\ Spawns(w) /\ (CanSpawn => "spawn" \in Failures)
    /\ Die

\* An agent has died, its exit not been seen, and it is written to, be it a request, an
\* answer or a prompt: nobody listens for errors of its stdin either.
WriteFails(w) ==
    /\ "write" \in Failures
    /\ pc[w] \in {"starting", "fallbackStarting", "resuming"} \/ InTurn(w)
    /\ Die

-----------------------------------------------------------------------------
Step(w) ==
    \/ CreateWorkspace(w)
    \/ \E ok \in BOOLEAN : \/ AfterCreate(w, ok)
                           \/ BeforeRun(w, ok)
                           \/ StartSession(w, ok)
                           \/ StartFallback(w, ok)
                           \/ ResumeTurn(w, ok)
    \/ SwitchAgent(w)
    \/ SpawnFails(w)
    \/ WriteFails(w)
    \/ TurnThrows(w)
    \/ \E how \in {"failed", "cancelled", "timeout", "input_required"} : TurnEndsBadly(w, how)
    \/ TurnCompletes(w)
    \/ \E seen \in {"active", "inactive", "missing"} : Refreshed(w, seen)
    \/ RefreshFails(w)
    \/ StopSession(w)
    \/ AfterRun(w)

Next == (\E w \in Workers : Step(w)) \/ Remove \/ Removed \/ Crash

Spec == Init /\ [][Next]_vars

\* Every await of a worker returns: hooks, turns and stop() have their timeouts,
\* requests to the tracker fail sooner or later.
FairSpec == Spec /\ \A w \in Workers : WF_vars(Step(w))

-----------------------------------------------------------------------------
(* Properties *)

\* A worker drives one agent at a time, although the fallback agent is started in the
\* middle of a turn of the first.  The only other one in its workspace is an app-server
\* that could not initialize, beside the fallback agent that replaces it.
OneAgentDriven ==
    \A w \in Workers :
        /\ Cardinality(Driven(w)) <= 1
        /\ Driven(w) # {} => strays[w] \subseteq {"primary"} \ Driven(w)

\* However a worker ends, an agent that has initialized is stopped before after_run
\* touches the workspace and before its promise settles.  What else is left is the primary
\* app-server, where the fallback agent took over; or the worker reports an error.
AgentsStoppedBeforeAfterRun ==
    \A w \in Workers :
        pc[w] \in {"after", "done"} =>
            /\ sessions[w] = {}
            /\ \/ strays[w] = {}
               \/ strays[w] = {"primary"} /\ current[w] = "fallback"
               \/ outcome[w] \in {"error", "lost"}

\* An attempt costs at most one agent run per turn, and one more when a fallback
\* agent takes over: changing agents neither restarts the turns nor happens twice.
\* A fallback agent of the primary's own kind may be replaced in every turn.
RunsAreBounded ==
    \A w \in Workers :
        runs[w] <= MaxTurns + CASE fallback = "none"  -> 0
                                [] fallback = "other" -> 1
                                [] fallback = "same"  -> MaxTurns

\* After the first turn none is begun for an issue last seen in an inactive state.
NoTurnForInactiveIssue ==
    [][\A w \in Workers : turn'[w] > turn[w] /\ turn[w] > 0 => active'[w]]_vars

\* No worker goes on in a directory it created and could not prepare.  A directory
\* whose after_create has not succeeded is there only while that hook runs, or
\* because the process died in it, or because it could not be removed.
PartialWorkspaceHasCause ==
    dir \in Workers =>
        \/ pc[dir] = "creating"
        \/ pc[dir] = "done" /\ outcome[dir] \in {"lost", "error"}

\* A worker that began returns.
WorkerReturns == \A w \in Workers : (pc[w] # "idle") ~> (pc[w] = "done")

\* "The runtime session could not start.": that an agent cannot be spawned is the
\* failure of its worker.  A process that nobody kills, whose agents nobody kills either,
\* loses no worker.
LostOnlyByKill ==
    Failures = {} => \A w \in Workers : outcome[w] # "lost"
=============================================================================
