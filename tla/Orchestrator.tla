---------------------------- MODULE Orchestrator ----------------------------
(***************************************************************************)
(* The scheduling core: class Orchestrator, with the reconciler, the retry *)
(* queue and the dispatch rules it calls.                                  *)
(*                                                                         *)
(* The program is single-threaded.  One action of this module is the code  *)
(* between two points where another callback may run: an `await` of I/O, a *)
(* timer, or a promise that settles later.  The interleavings are those of *)
(* one poll tick, any number of retry polls, the workers, the Mission      *)
(* Control server, the workflow file watcher and stop().                   *)
(***************************************************************************)
EXTENDS Integers, FiniteSets, Sequences, Contract

CONSTANTS
    Issues,         \* issue ids
    WorkerIds,      \* identities of calls of runWorker
    CallIds,        \* identities of retry polls in flight
    RunIds,         \* execution runs Mission Control may dispatch
    ActiveStates,   \* tracker.active_states
    StateLimit,     \* agent.max_concurrent_agents_by_state, total on ActiveStates
    Limits,         \* values agent.max_concurrent_agents takes across reloads
    AttemptCap,     \* BOUND: attempt numbers saturate here
    MaxZombies,     \* BOUND: live workers that no entry owns
    StallDetection, \* codex.stall_timeout_ms > 0
    Closable,       \* issues the tracker may close for good
    MissionControl, \* the Mission Control server is up
    None

ASSUME ConfigAssumption ==
    /\ Limits \subseteq Int /\ Limits # {}
    /\ Closable \subseteq Issues
    /\ StateLimit \in [ActiveStates -> Int]
    /\ AttemptCap \in Nat \ {0}
    /\ MaxZombies \in Nat
    /\ StallDetection \in BOOLEAN /\ MissionControl \in BOOLEAN
    /\ {"terminal", "inactive", "asked"} \cap ActiveStates = {}

ASSUME NoneAssumption ==
    /\ None \notin Issues /\ None \notin WorkerIds /\ None \notin RunIds
    /\ None \notin ActiveStates \cup {"terminal", "inactive", "asked"}
    /\ None \notin [worker: WorkerIds, state: ActiveStates \cup {"inactive"},
                     attempt: 0..AttemptCap]
    /\ None \notin [issue: Issues, attempt: 0..AttemptCap]

ASSUME FiniteAssumption == IsFiniteSet(Issues)

VARIABLES
    \* the process
    life,       \* "up"; "stopping" (configWatcher.stop()); "waiting" (for workers); "exited"
    awaited,    \* workers whose promises stop() still waits for
    max_concurrent_agents,
    \* OrchestratorState and the two maps beside it
    running,    \* issue -> its RunningEntry; `worker` is the call of runWorker it was made for
    claimed,
    retry_attempts,         \* issue -> attempt of its pending RetryEntry, 0 for none
    workerPromises,         \* issue -> the worker whose promise the map holds
    missionControlBindings, \* issue -> execution run
    \* work in flight
    workers,    \* worker -> the issue it works on, None once its promise has settled
    polls,      \* call -> the issue and attempt of a handleRetryFired awaiting candidates
    tickPc,     \* where the tick stands
    answer,     \* what the tracker last told the tick, per issue; "asked" while it waits
    \* outside
    accepted,   \* execution run -> the issue Mission Control dispatched it for
    reports,    \* execution run -> callbacks sent for it, repeats of "running" merged
    settled     \* issues the tracker reports as closed in every answer still to come

core == <<running, claimed, retry_attempts, workerPromises, missionControlBindings, workers>>
vars == <<life, awaited, max_concurrent_agents, core, polls, tickPc, answer,
          accepted, reports, settled>>

-----------------------------------------------------------------------------
(* Views of the state *)

Entry == [worker: WorkerIds, state: ActiveStates \cup {"inactive"}, attempt: 0..AttemptCap]
Call  == [issue: Issues, attempt: 0..AttemptCap]

Running  == {i \in Issues : running[i] # None}
Retrying == {i \in Issues : retry_attempts[i] # 0}
InFlight == {c \in CallIds : polls[c] # None}
Polling  == {polls[c].issue : c \in InFlight}
Owned    == Running \cup Retrying \cup Polling

Live    == {w \in WorkerIds : workers[w] # None}
Owns(w) == running[workers[w]] # None /\ running[workers[w]].worker = w
Zombies == {w \in Live : ~Owns(w)}

Bump(a) == IF a < AttemptCap THEN a + 1 ELSE AttemptCap

\* No synchronous stretch of the tick is under way and the process is there.
Quiet == life # "exited" /\ tickPc # "dispatching"

\* Issues the tick is about to terminate, and the guard that keeps the number of
\* workers that outlive their entry within MaxZombies.
Doomed     == {i \in Issues : answer[i] \in {"terminal", "inactive"}}
HasRoom(S) == Cardinality(Zombies) + Cardinality(S \cup Doomed) <= MaxZombies

-----------------------------------------------------------------------------
TypeOK ==
    /\ life \in {"up", "stopping", "waiting", "exited"}
    /\ awaited \subseteq WorkerIds
    /\ max_concurrent_agents \in Limits
    /\ running \in [Issues -> Entry \cup {None}]
    /\ claimed \subseteq Issues
    /\ retry_attempts \in [Issues -> 0..AttemptCap]
    /\ workerPromises \in [Issues -> WorkerIds \cup {None}]
    /\ missionControlBindings \in [Issues -> RunIds \cup {None}]
    /\ workers \in [WorkerIds -> Issues \cup {None}]
    /\ polls \in [CallIds -> Call \cup {None}]
    /\ tickPc \in {"armed", "off", "refreshing", "closing", "removing",
                   "listing", "syncing", "dispatching"}
    /\ answer \in [Issues -> ActiveStates \cup {"terminal", "inactive", "asked", None}]
    /\ accepted \in [RunIds -> Issues \cup {None}]
    /\ reports \in [RunIds -> Seq({"running", "final"})]
    /\ settled \subseteq Closable

\* start(): the first tick is scheduled once the start-up cleanup is over.
Init ==
    /\ life = "up" /\ awaited = {}
    /\ max_concurrent_agents \in Limits
    /\ running = [i \in Issues |-> None]
    /\ claimed = {}
    /\ retry_attempts = [i \in Issues |-> 0]
    /\ workerPromises = [i \in Issues |-> None]
    /\ missionControlBindings = [i \in Issues |-> None]
    /\ workers = [w \in WorkerIds |-> None]
    /\ polls = [c \in CallIds |-> None]
    /\ tickPc = "armed"
    /\ answer = [i \in Issues |-> None]
    /\ accepted = [r \in RunIds |-> None]
    /\ reports = [r \in RunIds |-> << >>]
    /\ settled = {}

-----------------------------------------------------------------------------
(* Dispatch *)

\* MUTANT: the promise of a worker the issue already has is kept.
Dispatch_KeepsOldPromise(i, state, attempt, w, binding) ==
    /\ workers[w] = None
    /\ claimed' = claimed \cup {i}
    /\ retry_attempts' = [retry_attempts EXCEPT ![i] = 0]
    /\ missionControlBindings' = [missionControlBindings EXCEPT ![i] = binding]
    /\ running' = [running EXCEPT ![i] =
                     [worker |-> w, state |-> state, attempt |-> attempt]]
    /\ workers' = [workers EXCEPT ![w] = i]
    /\ workerPromises' = [workerPromises EXCEPT ![i] = IF @ = None THEN w ELSE @]

\* dispatchIssueWithOptions.  Nothing here looks at an entry, a worker or a
\* poll the issue may already have.
Dispatch(i, state, attempt, w, binding) ==
    /\ workers[w] = None
    /\ claimed' = claimed \cup {i}
    /\ retry_attempts' = [retry_attempts EXCEPT ![i] = 0]
    /\ missionControlBindings' = [missionControlBindings EXCEPT ![i] = binding]
    /\ running' = [running EXCEPT ![i] =
                     [worker |-> w, state |-> state, attempt |-> attempt]]
    /\ workers' = [workers EXCEPT ![w] = i]
    /\ workerPromises' = [workerPromises EXCEPT ![i] = w]

InState(s) == {i \in Running : running[i].state = s}

\* MUTANT: the claim is not looked at.
ShouldDispatch_IgnoresClaim(i, s) ==
    /\ s \in ActiveStates
    /\ i \notin Running
    /\ Cardinality(Running) < max_concurrent_agents
    /\ Cardinality(InState(s)) < StateLimit[s]

\* shouldDispatch, for a candidate the tracker lists in state s.
ShouldDispatch(i, s) ==
    /\ s \in ActiveStates
    /\ i \notin Running
    /\ i \notin claimed
    /\ Cardinality(Running) < max_concurrent_agents
    /\ Cardinality(InState(s)) < StateLimit[s]

-----------------------------------------------------------------------------
(* The tick *)

\* scheduleTick is a no-op once shutdown was requested.
ScheduleTick == tickPc' = IF life = "up" THEN "armed" ELSE "off"
ClearAnswer  == answer' = [i \in Issues |-> None]

\* MUTANTS: terminating a run forgets its binding or its claim.
Terminate_KeepsBinding(S) ==
    /\ running' = [i \in Issues |-> IF i \in S THEN None ELSE running[i]]
    /\ claimed' = claimed \ S
    /\ workerPromises' = [i \in Issues |-> IF i \in S THEN None ELSE workerPromises[i]]
    /\ UNCHANGED <<workers, missionControlBindings>>

Terminate_KeepsClaim(S) ==
    /\ running' = [i \in Issues |-> IF i \in S THEN None ELSE running[i]]
    /\ missionControlBindings' =
         [i \in Issues |-> IF i \in S THEN None ELSE missionControlBindings[i]]
    /\ workerPromises' = [i \in Issues |-> IF i \in S THEN None ELSE workerPromises[i]]
    /\ UNCHANGED <<workers, claimed>>

\* terminateRunningIssue, for runs that have an entry.  Each worker's promise is
\* dropped from the map, the worker itself goes on.
Terminate(S) ==
    /\ running' = [i \in Issues |-> IF i \in S THEN None ELSE running[i]]
    /\ missionControlBindings' =
         [i \in Issues |-> IF i \in S THEN None ELSE missionControlBindings[i]]
    /\ claimed' = claimed \ S
    /\ workerPromises' = [i \in Issues |-> IF i \in S THEN None ELSE workerPromises[i]]
    /\ UNCHANGED workers

\* The timer fires.  Part A of reconcile() terminates the stalled runs and
\* queues a retry for each; it awaits nothing but settled promises, so no other
\* callback runs before Part B has asked the tracker about what is left.
TickStart(stalled) ==
    /\ tickPc = "armed" /\ Quiet
    /\ stalled \subseteq Running
    /\ stalled # {} => StallDetection /\ HasRoom(stalled)
    /\ Terminate(stalled)
    /\ retry_attempts' = [i \in Issues |-> IF i \in stalled THEN 1 ELSE retry_attempts[i]]
    /\ tickPc' = IF Running \subseteq stalled THEN "closing" ELSE "refreshing"
    /\ answer' = [i \in Issues |-> IF i \in Running \ stalled THEN "asked" ELSE None]
    /\ UNCHANGED <<life, awaited, max_concurrent_agents, polls, accepted, reports, settled>>

\* fetchIssueStatesByIds answers: each issue asked for is active, closed, in some
\* other state, or missing from the answer.
RefreshAnswered(verdict) ==
    /\ tickPc = "refreshing" /\ Quiet
    /\ \A i \in Issues : verdict[i] # None => answer[i] = "asked"
    /\ \A i \in settled : answer[i] = "asked" => verdict[i] = "terminal"
    /\ LET doomed == {i \in Issues : verdict[i] \in {"terminal", "inactive"}}
       IN  doomed # {} => HasRoom(doomed)
    /\ answer' = verdict
    /\ tickPc' = "closing"
    /\ UNCHANGED <<life, awaited, max_concurrent_agents, core, polls,
                   accepted, reports, settled>>

\* It fails: the workers are kept.
RefreshFails ==
    /\ tickPc = "refreshing" /\ Quiet
    /\ tickPc' = "closing" /\ ClearAnswer
    /\ UNCHANGED <<life, awaited, max_concurrent_agents, core, polls,
                   accepted, reports, settled>>

\* terminateRunningIssue for the next issue of actions.terminate, a no-op when its
\* entry has gone meanwhile.  A workspace to clean up holds the tick in
\* removeWorkspace.
CloseNext(i) ==
    /\ tickPc = "closing" /\ Quiet
    /\ i \in Doomed
    /\ answer' = [answer EXCEPT ![i] = None]
    /\ IF i \in Running
       THEN /\ Terminate({i})
            /\ retry_attempts' = [retry_attempts EXCEPT ![i] = 0]
            /\ tickPc' = IF answer[i] = "terminal" THEN "removing" ELSE "closing"
       ELSE UNCHANGED <<core, tickPc>>
    /\ UNCHANGED <<life, awaited, max_concurrent_agents, polls, accepted, reports, settled>>

\* removeWorkspace returns.
Removed ==
    /\ tickPc = "removing" /\ Quiet
    /\ tickPc' = "closing"
    /\ UNCHANGED <<life, awaited, max_concurrent_agents, core, polls, answer,
                   accepted, reports, settled>>

\* MUTANT: an issue missing from the answer is updated as well.
CloseDone_UpdatesMissing(valid) ==
    /\ tickPc = "closing" /\ Quiet
    /\ Doomed = {}
    /\ running' = [i \in Issues |-> IF i \in Running
                     THEN [running[i] EXCEPT !.state = answer[i]] ELSE running[i]]
    /\ max_concurrent_agents' \in Limits
    /\ ClearAnswer
    /\ IF valid THEN tickPc' = "listing" ELSE ScheduleTick
    /\ UNCHANGED <<life, awaited, claimed, retry_attempts, workerPromises,
                   missionControlBindings, workers, polls, accepted, reports, settled>>

\* All terminations are done: the entries still there take the state the tracker
\* gave, the workflow is read again (or kept, when it is broken), and the tick
\* asks for candidates unless the configuration is invalid.
CloseDone(valid) ==
    /\ tickPc = "closing" /\ Quiet
    /\ Doomed = {}
    /\ running' = [i \in Issues |->
                     IF i \in Running /\ answer[i] \in ActiveStates
                     THEN [running[i] EXCEPT !.state = answer[i]] ELSE running[i]]
    /\ max_concurrent_agents' \in Limits
    /\ ClearAnswer
    /\ IF valid THEN tickPc' = "listing" ELSE ScheduleTick
    /\ UNCHANGED <<life, awaited, claimed, retry_attempts, workerPromises,
                   missionControlBindings, workers, polls, accepted, reports, settled>>

\* MUTANT: the early return forgets scheduleTick.
ListFails_NoNextTick ==
    /\ tickPc = "listing" /\ Quiet
    /\ tickPc' = "off"
    /\ UNCHANGED <<life, awaited, max_concurrent_agents, core, polls, answer,
                   accepted, reports, settled>>

\* fetchCandidateIssues fails: the tick is over.
ListFails ==
    /\ tickPc = "listing" /\ Quiet
    /\ ScheduleTick
    /\ UNCHANGED <<life, awaited, max_concurrent_agents, core, polls, answer,
                   accepted, reports, settled>>

\* fetchCandidateIssues answers: `listed` gives each candidate's state, an active
\* one, and None for the other issues.  selectCandidates keeps those shouldDispatch accepts now.  Which candidates
\* fail the rules on the issue's own data (missing fields, blockers) is left to
\* the choice of `listed`.
ListAnswered(listed) ==
    /\ tickPc = "listing" /\ Quiet
    /\ \A i \in settled : listed[i] = None
    /\ LET eligible == {i \in Issues : listed[i] # None /\ ShouldDispatch(i, listed[i])}
       IN  /\ answer' = [i \in Issues |-> IF i \in eligible THEN listed[i] ELSE None]
           /\ IF eligible # {} THEN tickPc' = "syncing" ELSE ScheduleTick
    /\ UNCHANGED <<life, awaited, max_concurrent_agents, core, polls,
                   accepted, reports, settled>>

\* syncBeforeDispatch returns; the loop that follows does not await.
SyncDone ==
    /\ tickPc = "syncing" /\ Quiet
    /\ tickPc' = "dispatching"
    /\ UNCHANGED <<life, awaited, max_concurrent_agents, core, polls, answer,
                   accepted, reports, settled>>

\* One turn of the dispatch loop; any order stands for the sort by priority.
DispatchNext(i, w) ==
    /\ tickPc = "dispatching"
    /\ answer[i] # None
    /\ ShouldDispatch(i, answer[i])
    /\ Dispatch(i, answer[i], 0, w, None)
    /\ answer' = [answer EXCEPT ![i] = None]
    /\ UNCHANGED <<life, awaited, max_concurrent_agents, polls, tickPc,
                   accepted, reports, settled>>

\* The loop ends after its last candidate, or at the first one that may no longer
\* be dispatched (`break`), whatever comes after it.
DispatchEnd ==
    /\ tickPc = "dispatching"
    /\ \/ \A i \in Issues : answer[i] = None
       \/ \E i \in Issues : answer[i] # None /\ ~ShouldDispatch(i, answer[i])
    /\ ClearAnswer
    /\ ScheduleTick
    /\ UNCHANGED <<life, awaited, max_concurrent_agents, core, polls,
                   accepted, reports, settled>>

-----------------------------------------------------------------------------
(* Retries *)

\* MUTANT: the entry stays in the queue while the poll is in flight.
RetryFires_KeepsEntry(i, c) ==
    /\ Quiet
    /\ i \in Retrying
    /\ polls[c] = None
    /\ polls' = [polls EXCEPT ![c] = [issue |-> i, attempt |-> retry_attempts[i]]]
    /\ UNCHANGED <<life, awaited, max_concurrent_agents, core, tickPc, answer,
                   accepted, reports, settled>>

\* The timer of a RetryEntry fires: the entry goes, a poll for candidates starts.
RetryFires(i, c) ==
    /\ Quiet
    /\ i \in Retrying
    /\ polls[c] = None
    /\ polls' = [polls EXCEPT ![c] = [issue |-> i, attempt |-> retry_attempts[i]]]
    /\ retry_attempts' = [retry_attempts EXCEPT ![i] = 0]
    /\ UNCHANGED <<life, awaited, max_concurrent_agents, running, claimed, workerPromises,
                   missionControlBindings, workers, tickPc, answer, accepted, reports, settled>>

\* MUTANT: the attempt is not counted.
PollRequeues_SameAttempt(c) ==
    /\ Quiet
    /\ c \in InFlight
    /\ retry_attempts' = [retry_attempts EXCEPT ![polls[c].issue] = polls[c].attempt]
    /\ polls' = [polls EXCEPT ![c] = None]
    /\ UNCHANGED <<life, awaited, max_concurrent_agents, running, claimed, workerPromises,
                   missionControlBindings, workers, tickPc, answer, accepted, reports, settled>>

\* The poll fails, or finds the issue but no slot: back to the queue.
PollRequeues(c) ==
    /\ Quiet
    /\ c \in InFlight
    /\ retry_attempts' = [retry_attempts EXCEPT ![polls[c].issue] = Bump(polls[c].attempt)]
    /\ polls' = [polls EXCEPT ![c] = None]
    /\ UNCHANGED <<life, awaited, max_concurrent_agents, running, claimed, workerPromises,
                   missionControlBindings, workers, tickPc, answer, accepted, reports, settled>>

PollFails(c) == PollRequeues(c)

PollFindsNoSlot(c) ==
    /\ Cardinality(Running) >= max_concurrent_agents
    /\ c \in InFlight /\ polls[c].issue \notin settled
    /\ PollRequeues(c)

\* MUTANT: the claim is not released.
PollGone_KeepsClaim(c) ==
    /\ Quiet
    /\ c \in InFlight
    /\ polls' = [polls EXCEPT ![c] = None]
    /\ UNCHANGED <<life, awaited, max_concurrent_agents, core, tickPc, answer,
                   accepted, reports, settled>>

\* The issue is no longer a candidate: its claim is released.
PollGone(c) ==
    /\ Quiet
    /\ c \in InFlight
    /\ claimed' = claimed \ {polls[c].issue}
    /\ polls' = [polls EXCEPT ![c] = None]
    /\ UNCHANGED <<life, awaited, max_concurrent_agents, running, retry_attempts, workerPromises,
                   missionControlBindings, workers, tickPc, answer, accepted, reports, settled>>

\* MUTANT: the slots are not looked at again.
PollDispatches_NoSlotCheck(c, s, w) ==
    /\ Quiet
    /\ c \in InFlight /\ polls[c].issue \notin settled
    /\ polls[c].issue \in Running => HasRoom({polls[c].issue})
    /\ Dispatch(polls[c].issue, s, polls[c].attempt, w, None)
    /\ polls' = [polls EXCEPT ![c] = None]
    /\ UNCHANGED <<life, awaited, max_concurrent_agents, tickPc, answer,
                   accepted, reports, settled>>

\* It is, and a slot is free: it is dispatched, with no other test.
PollDispatches(c, s, w) ==
    /\ Quiet
    /\ c \in InFlight /\ polls[c].issue \notin settled
    /\ Cardinality(Running) < max_concurrent_agents
    /\ polls[c].issue \in Running => HasRoom({polls[c].issue})
    /\ Dispatch(polls[c].issue, s, polls[c].attempt, w, None)
    /\ polls' = [polls EXCEPT ![c] = None]
    /\ UNCHANGED <<life, awaited, max_concurrent_agents, tickPc, answer,
                   accepted, reports, settled>>

-----------------------------------------------------------------------------
(* Workers *)

\* A callback to Mission Control about run r.
Report(r, what) ==
    reports' = [reports EXCEPT ![r] =
                  IF what = "running" /\ Len(@) > 0 /\ @[Len(@)] = "running"
                  THEN @ ELSE Append(@, what)]

\* The callback about the end of run r, if its payload fits the contract.
FinalCallback(r, outcome) ==
    IF outcome \in Reported THEN Report(r, "final") ELSE UNCHANGED reports

\* MUTANT: the event handler keeps the binding it was dispatched with.
AgentEvent_OwnBinding(w) ==
    /\ Quiet
    /\ w \in Live
    /\ \E r \in RunIds : accepted[r] = workers[w] /\ Report(r, "running")
    /\ UNCHANGED <<life, awaited, max_concurrent_agents, core, polls, tickPc, answer,
                   accepted, settled>>

\* handleAgentEvent, for the events that send a callback.
AgentEvent(w) ==
    /\ Quiet
    /\ w \in Live
    /\ workers[w] \in Running
    /\ missionControlBindings[workers[w]] # None
    /\ RunningReported /\ Report(missionControlBindings[workers[w]], "running")
    /\ UNCHANGED <<life, awaited, max_concurrent_agents, core, polls, tickPc, answer,
                   accepted, settled>>

\* handleWorkerExit: whichever entry the issue has by now is removed.  With a
\* Mission Control binding the run ends there, and the claim stays; otherwise the
\* issue is queued again.
HandleWorkerExit(i, outcome) ==
    IF i \in Running
    THEN /\ running' = [running EXCEPT ![i] = None]
         /\ missionControlBindings' = [missionControlBindings EXCEPT ![i] = None]
         /\ IF missionControlBindings[i] # None
            THEN FinalCallback(missionControlBindings[i], outcome) /\ UNCHANGED retry_attempts
            ELSE /\ retry_attempts' = [retry_attempts EXCEPT ![i] =
                        IF outcome = "normal" THEN 1 ELSE Bump(running[i].attempt)]
                 /\ UNCHANGED reports
    ELSE UNCHANGED <<running, missionControlBindings, retry_attempts, reports>>

\* A worker's promise settles: the map forgets whatever promise it holds for the
\* issue, and the exit is handled under the issue's id.
WorkerExit(w, outcome) ==
    /\ Quiet
    /\ w \in Live
    /\ workers' = [workers EXCEPT ![w] = None]
    /\ awaited' = awaited \ {w}
    /\ workerPromises' = [workerPromises EXCEPT ![workers[w]] = None]
    /\ HandleWorkerExit(workers[w], outcome)
    /\ UNCHANGED <<life, max_concurrent_agents, claimed, polls, tickPc, answer,
                   accepted, settled>>

-----------------------------------------------------------------------------
(* Mission Control, the workflow file, shutdown *)

\* POST /dispatch: only the slots are looked at, and the issue may be in any
\* state.  The server is closed before stop() is called.
DispatchMissionControl(i, r, s, w) ==
    /\ Quiet /\ MissionControl /\ life = "up"
    /\ accepted[r] = None
    /\ max_concurrent_agents - Cardinality(Running) > 0
    /\ i \in Running => HasRoom({i})
    /\ Dispatch(i, s, 0, w, r)
    /\ accepted' = [accepted EXCEPT ![r] = i]
    /\ UNCHANGED <<life, awaited, max_concurrent_agents, polls, tickPc, answer,
                   reports, settled>>

\* handleWorkflowChange, when the file still loads.
WorkflowChange ==
    /\ Quiet /\ life \in {"up", "stopping"}
    /\ max_concurrent_agents' \in Limits
    /\ UNCHANGED <<life, awaited, core, polls, tickPc, answer, accepted, reports, settled>>

\* stop(), up to its first await.
Stop ==
    /\ Quiet /\ life = "up"
    /\ life' = "stopping"
    /\ tickPc' = IF tickPc = "armed" THEN "off" ELSE tickPc
    /\ retry_attempts' = [i \in Issues |-> 0]
    /\ UNCHANGED <<awaited, max_concurrent_agents, running, claimed, workerPromises,
                   missionControlBindings, workers, polls, answer, accepted, reports, settled>>

\* The watcher is stopped: wait for the promises in the map, if there are any.
StopWaits ==
    /\ Quiet /\ life = "stopping"
    /\ awaited' = {workerPromises[i] : i \in Issues} \ {None}
    /\ life' = IF awaited' = {} THEN "exited" ELSE "waiting"
    /\ UNCHANGED <<max_concurrent_agents, core, polls, tickPc, answer,
                   accepted, reports, settled>>

\* MUTANT: stop() waits until no worker at all is at work.
StopReturns_WaitsForAll ==
    /\ Quiet /\ life = "waiting"
    /\ Live = {}
    /\ life' = "exited"
    /\ UNCHANGED <<awaited, max_concurrent_agents, core, polls, tickPc, answer,
                   accepted, reports, settled>>

\* All of them have settled, or the 30 seconds are over; the process exits.
StopReturns ==
    /\ Quiet /\ life = "waiting"
    /\ life' = "exited"
    /\ UNCHANGED <<awaited, max_concurrent_agents, core, polls, tickPc, answer,
                   accepted, reports, settled>>

\* The tracker closes issue i for good.
Settle(i) ==
    /\ Quiet
    /\ i \in Closable \ settled
    /\ settled' = settled \cup {i}
    /\ UNCHANGED <<life, awaited, max_concurrent_agents, core, polls, tickPc, answer,
                   accepted, reports>>

-----------------------------------------------------------------------------
TickStep ==
    \/ \E stalled \in SUBSET Issues : TickStart(stalled)
    \/ \E verdict \in [Issues -> ActiveStates \cup {"terminal", "inactive", None}] :
          RefreshAnswered(verdict)
    \/ RefreshFails
    \/ \E i \in Issues : CloseNext(i)
    \/ Removed
    \/ \E valid \in BOOLEAN : CloseDone(valid)
    \/ ListFails
    \/ \E listed \in [Issues -> ActiveStates \cup {None}] : ListAnswered(listed)
    \/ SyncDone
    \/ \E i \in Issues, w \in WorkerIds : DispatchNext(i, w)
    \/ DispatchEnd

RetryStep ==
    \/ \E i \in Issues, c \in CallIds : RetryFires(i, c)
    \/ \E c \in CallIds :
          \/ PollFails(c)
          \/ PollFindsNoSlot(c)
          \/ PollGone(c)
          \/ \E s \in ActiveStates, w \in WorkerIds : PollDispatches(c, s, w)

WorkerStep == \E w \in WorkerIds : AgentEvent(w) \/ \E outcome \in Outcomes : WorkerExit(w, outcome)

OutsideStep ==
    \/ \E i \in Issues, r \in RunIds, s \in ActiveStates \cup {"inactive"}, w \in WorkerIds :
          DispatchMissionControl(i, r, s, w)
    \/ WorkflowChange
    \/ \E i \in Issues : Settle(i)

StopStep == Stop \/ StopWaits \/ StopReturns

Next == TickStep \/ RetryStep \/ WorkerStep \/ OutsideStep \/ StopStep

Spec == Init /\ [][Next]_vars
-----------------------------------------------------------------------------
(* Fairness.  Ticks and timers come when they are due, a request to the        *)
(* tracker returns, and one that is repeated for ever is not refused for ever; *)
(* a worker ends, since every turn has a deadline and turns are counted; stop() *)
(* goes on.                                                                    *)

PollAnswered(i) ==
    \E c \in InFlight :
        /\ polls[c].issue = i
        /\ \/ PollFindsNoSlot(c)
           \/ PollGone(c)
           \/ \E s \in ActiveStates, w \in WorkerIds : PollDispatches(c, s, w)

Fairness ==
    /\ WF_vars(TickStep)
    /\ SF_vars(\E verdict \in [Issues -> ActiveStates \cup {"terminal", "inactive", None}] :
                  RefreshAnswered(verdict))
    /\ \A i \in Issues : SF_vars(\E c \in CallIds : RetryFires(i, c)) /\ SF_vars(PollAnswered(i))
    /\ \A w \in WorkerIds : SF_vars(\E outcome \in Outcomes : WorkerExit(w, outcome))
    /\ WF_vars(StopWaits) /\ WF_vars(StopReturns)

FairSpec == Spec /\ Fairness

-----------------------------------------------------------------------------
(* Properties *)

\* Without Mission Control and stall detection, `claimed` is exactly the set of
\* issues that run, wait for a retry or are being polled for: no claim leaks
\* (the issue would never be dispatched again) and none is missing (it would be
\* dispatched twice).  stop() cancels retries and leaves the claims behind.
ClaimedIffOwned ==
    /\ Owned \subseteq claimed
    /\ life = "up" => claimed = Owned

\* Whatever runs beside the tick, the only claims that outlive their owner are
\* those of issues Mission Control dispatched, whose exit schedules no retry.
ClaimsLeakOnlyForMissionControl ==
    life = "up" => \A i \in claimed \ Owned : \E r \in RunIds : accepted[r] = i

\* Without Mission Control and stall detection, an issue never has two owners: not an entry and a retry, not a
\* retry and a poll in flight, not two polls.
OneOwner ==
    /\ Running \cap Retrying = {} /\ Running \cap Polling = {}
    /\ Retrying \cap Polling = {}
    /\ \A c, d \in InFlight : polls[c].issue = polls[d].issue => c = d

\* Whoever removes entries and promises, an entry in `running` is that of a worker
\* that is still at work, and workerPromises holds the promise of that worker and
\* of no other: maps updated in different callbacks never disagree.
EntryHasLiveWorker ==
    \A i \in Issues :
        /\ running[i] # None => /\ workers[running[i].worker] = i
                                /\ workerPromises[i] = running[i].worker
        /\ running[i] = None => workerPromises[i] = None

\* A Mission Control binding belongs to a running issue and to one only: once the
\* entry is gone, no later run of the issue reports under the old execution run.
BindingHasEntry ==
    /\ \A i \in Issues : missionControlBindings[i] # None => i \in Running
    /\ \A i, j \in Issues : missionControlBindings[i] = missionControlBindings[j]
          /\ missionControlBindings[i] # None => i = j

\* Nothing is sent about an execution run after its final callback.
FinalIsLast ==
    \A r \in RunIds : \A k \in 1..Len(reports[r]) : reports[r][k] = "final" => k = Len(reports[r])

\* The number of entries grows only while it is below the limit in force at that
\* moment, whichever of the three dispatchers adds one and whatever a reload did
\* since it last looked.
DispatchWithinLimit ==
    [][Cardinality(Running') > Cardinality(Running)
         => Cardinality(Running') <= max_concurrent_agents]_vars

\* Without Mission Control and stall detection a worker loses its entry only when
\* the reconciler terminates the run, or when a worker that had lost its own ends.
OrphanedOnlyByReconcile ==
    [][Zombies' \ Zombies # {} =>
         \/ tickPc = "closing"
         \/ \E z \in Zombies : workers'[z] = None]_vars

\* The tick, the retry queue and the reconciler together implement the life cycle
\* an issue is promised.
Phase(i) == IF i \in Running THEN "running"
            ELSE IF i \in Retrying THEN "waiting"
            ELSE IF i \in Polling THEN "polling" ELSE "free"

PollOf(i) == polls[CHOOSE c \in InFlight : polls[c].issue = i]

AttemptOf(i) == IF i \in Running THEN running[i].attempt
                ELSE IF i \in Retrying THEN retry_attempts[i]
                ELSE IF i \in Polling THEN PollOf(i).attempt ELSE 0

Lifecycle == INSTANCE IssueLifecycle WITH
    phase <- [i \in Issues |-> Phase(i)],
    attempt <- [i \in Issues |-> AttemptOf(i)],
    limit <- max_concurrent_agents

ImplementsLifecycle == Lifecycle!Spec

\* The chain of ticks never breaks: whatever fails in one, another is armed, until
\* stop() is called.
TicksForever == []<>(tickPc = "armed" \/ life # "up")

\* An issue the tracker has closed is let go of, claim and slot, and stays so.
ClosedIsReleased ==
    \A i \in Closable :
        (<>(i \in settled) /\ [](life = "up")) => <>[](i \notin claimed \cup Running)

\* stop() returns.
StopReturnsAtLast == (life = "stopping") ~> (life = "exited")

-----------------------------------------------------------------------------
(* What the repository says and the code does not keep (each with a violation   *)
(* run).                                                                        *)

\* "dispatch work with bounded concurrency": no more workers at work than the
\* configured limit.  A terminated run frees its slot while its worker goes on.
BoundedConcurrency == Cardinality(Live) <= max_concurrent_agents

\* "Wait for active workers to finish (with timeout)" and "Cancel all retries": unless
\* the wait timed out, no worker is at work and no retry is pending when stop() returns.
\* Only the promises in the map at one moment are waited for, and a worker that ends
\* or a poll that fails afterwards queues a retry.
StopLeavesNothing ==
    [][life # "exited" /\ life' = "exited" /\ awaited' = {}
         => Live = {} /\ Retrying = {}]_vars

\* "Silo Forge callback reporting": when the worker of an entry ends, the execution run
\* bound to the entry gets its last callback.  Unless the worker ended normally, the
\* payload has reasons that are undefined, fails the contract and is dropped.
EndedRunsAreReported ==
    [][\A w \in Live : Owns(w) /\ workers'[w] = None
          => LET r == missionControlBindings[workers[w]]
             IN  r # None => reports'[r] # << >> /\ reports'[r][Len(reports'[r])] = "final"]_vars

=============================================================================
