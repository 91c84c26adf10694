# Verification of the Symphony runtime

Symphony polls an issue tracker and a control plane for work, runs one coding agent per
issue in a workspace of its own, and retries, reconciles and reports. This directory holds
TLA+ models of its core, the TLC configurations that check them on small instances, and
TLAPS proofs of the properties that matter most for every instance. Source paths below are
relative to the repository's `src/`.

## 1. The system

One Node.js process. Everything below shares one event loop; concurrency means that other
callbacks run at every `await` of I/O, at timers and between events of child processes.

| part | state | operations | model |
| --- | --- | --- | --- |
| Orchestrator (`orchestrator/orchestrator.ts`, `reconciler.ts`, `retry-queue.ts`, `scheduler.ts`, `state.ts`) | `running`, `claimed`, `retry_attempts`, `workerPromises`, `missionControlBindings`, the configured limit, the tick timer, `shutdownRequested` | tick (reconcile, reload, validate, list, sync, dispatch), retry polls, worker exits, agent events, Mission Control dispatch, workflow reload, stop | `Orchestrator`; the tick's I/O and the start-up in `TickIO` |
| Worker (`runner/worker.ts`) and `FallbackAgentSession` (`runner/fallback-runner.ts`) | turn number, current issue, the current agent | workspace, hooks, session, turns, refresh between turns, stop, after_run | `AgentRun` |
| Workspace manager (`workspace/*`) | one directory per issue | create or reuse, four hooks, remove | `AgentRun` |
| Codex app-server session (`runner/codex-app-server-runner.ts`) | `lineBuffer`, `lineResolvers`, `closed`, thread and turn ids, the child | initialize, runTurn, stop, line and exit events | `CodexSession` |
| Per-turn agents (`runner/codex-cli-runner.ts`, `claude-code-runner.ts`) | the last child; per turn a reader, a timer, the words it has heard | runTurn, stop, line and exit events | `CliAgent` |
| Mission Control bridge (`control-plane/*`) | none of its own | accept a dispatch, send a callback | in `Orchestrator`; what passes the contract in `Contract` |
| Shared memory (`orchestrator/shared-memory-coordinator.ts`) | a promise chain | pull before dispatch, commit and push after a run | `SharedMemory`, `TickIO` |
| Linear client (`tracker/linear/*`) | none | candidates and issues by state (page by page), states by id | `LinearClient`, `TickIO` |
| Configuration (`config/*`) | last good workflow | load, validate, watch | reloads in `Orchestrator` |
| JSON contracts (`contracts/*`) | none | validate payloads | the callbacks' in `Contract` |
| Prompt building, logging, types | none | text and data | not modelled |

How they interact. The tick asks the tracker about the running issues and applies its
verdicts (`terminateRunningIssue`, which may remove a workspace), then lists candidates,
pulls the shared memory and calls `dispatchIssueWithOptions`, which starts `runWorker` and
files its promise. A worker calls back with events while it runs and its promise ends in
`handleWorkerExit`, which queues a retry or reports to Mission Control, and a commit of the
shared memory. A retry timer starts `handleRetryFired`, which asks the tracker and
dispatches. Mission Control dispatches at any time. The workflow file may change at any
time. None of these knows of the others: they meet in the maps.

What is hard here:

* **Workers cannot be cancelled.** Terminating a run only forgets it. The worker goes on
  (a *zombie* below), still ends under its issue's id, still sends events, still works in
  the issue's directory, while a newer run of the same issue may exist.
* **State is read before an await and used after it**: the tracker's verdicts, the
  candidates, the retry entry, the configuration, the pages of a listing.
* **Three dispatchers**, with three different sets of checks, share one limit that a
  reload may lower.
* **Shutdown** runs beside a tick, polls and workers in flight.
* **The line reader** of the app-server session is a queue filled from both ends by
  events, timers and readers.
* **A child per turn**: its lines, its exit and the timer of its turn come in any order and
  may come after the turn has ended.
* **Errors nobody listens for**: a spawn that fails, a broken pipe, end the process.
* **Git** in one repository, for a tick and for any number of workers that end.
* **Crashes** lose everything but the workspaces.

What makes each part correct:

* Orchestrator: an issue has one owner; a claim has an owner; the maps agree with each
  other; the limit holds at each dispatch; a binding dies with its run; nothing is
  reported after the end; ticks go on; closed issues are let go of; stop() ends.
* Worker: it drives one agent at a time, and stops it before after_run and before it
  returns (an app-server whose initialize() threw is stopped by nobody and may stay beside
  the fallback agent); a bounded number of agent runs; no turn for an issue that became
  inactive; it returns.
* Workspace: nobody goes on in a directory they could not prepare; what is half-made has
  a known cause.
* Agents, of either sort: one result for a turn, no turn after one that did not complete,
  no process once stop() has returned; every turn and every stop ends. The app-server
  session besides: no line is lost, responses go to their requests, nobody waits on a dead
  child.
* Linear client: a listing misses no issue that stays open, however others come and go.
* Shared memory: one git command at a time; what agents write reaches the remote.

## 2. Modules

| module | what it is |
| --- | --- |
| `Orchestrator` | the scheduling core, one action per stretch of code between two awaits |
| `Contract` | the callbacks' payloads and the JSON schema they have to fit; used by `Orchestrator` |
| `IssueLifecycle` | abstract: what the orchestrator promises about one issue's way through it |
| `MCOrchestrator` | instances for TLC |
| `OrchestratorProofs` | type correctness, the safety invariants, what stop() waits for and leaves, proved |
| `OrchestratorRefinement` | the limit, the loss of entries, the implementation of `IssueLifecycle` and what follows from it, proved |
| `TickIO` | the tick, its requests and its git job, composed of the next two |
| `LinearClient` | the tracker and one listing at a time |
| `SharedMemory` | the chain of jobs and the repository |
| `LinearClientProofs` | lemmas: what a page holds and what a listing has read so far |
| `TickIOProofs` | the shared memory's and the listing's properties, and their progress, proved |
| `AgentRun` | the workers of one issue, their fallback sessions and their workspace |
| `AgentRunProofs` | its invariants, its action property and the progress of its workers, proved |
| `AgentSession` | abstract: what a worker may rely on in any agent |
| `CodexSession` | one app-server session, its child and its caller |
| `CodexSessionProofs` | its invariants, and that it implements `AgentSession`, proved |
| `CliAgent` | one session of an agent that is a process per turn |
| `CliAgentProofs` | its invariants, and that it implements `AgentSession`, proved |

Definitions named `X_...` preceded by a comment `MUTANT` are plausible bugs of the code
modelled by `X`. No specification uses them. Each property is checked to be violated when
one of them takes the place of its `X`.

### Orchestrator

Variables carry the source's names. `running[i]` is the entry of issue `i`, with the state
and the attempt the code reads, and the identity of the worker it was made for, which the
code does not record (that is the root of several hazards); the identity is never used by
an action, only by properties and by the guard that bounds the zombies. `workers` says
which calls of `runWorker` have not settled. `polls` are the calls of `handleRetryFired`
that await the tracker. `tickPc` is where the tick stands, and `answer` what the tracker
last told it. `accepted`, `reports` and `settled` are the outside's view: what Mission
Control dispatched and was sent, and which issues the tracker has closed for good.

| code | actions |
| --- | --- |
| `tick` up to the refresh; stall detection | `TickStart` |
| `reconcileTrackerStates` | `RefreshAnswered`, `RefreshFails` |
| the loop over `actions.terminate` | `CloseNext`, `Removed` |
| state updates, reload, validation | `CloseDone` |
| `fetchCandidateIssues`, `selectCandidates` | `ListFails`, `ListAnswered` |
| `syncBeforeDispatch`, the dispatch loop, `break`, the next tick | `SyncDone`, `DispatchNext`, `DispatchEnd` |
| `handleRetryFired` | `RetryFires`, then `PollFails`, `PollFindsNoSlot`, `PollGone`, `PollDispatches` |
| `handleAgentEvent` | `AgentEvent` |
| `workerPromise.then/.catch`, `handleWorkerExit` | `WorkerExit(w, outcome)` |
| `dispatchMissionControl` | `DispatchMissionControl` |
| `handleWorkflowChange` | `WorkflowChange` |
| `stop`, process exit | `Stop`, `StopWaits`, `StopReturns` |

The dispatch loop does not await; it is several steps here for brevity, and `Quiet` keeps
everything else out while it runs. An `await` of a function that awaits nothing but
settled promises lets no other callback in, since timers and I/O come after the queue of
microtasks; this is why Part A of `reconcile` and the request of Part B are one step.
Shutdown is modelled up to the exit of the process, which `main` brings about as soon as
stop() returns; that is why deadlock is not checked in these runs (the state after the
exit has no successor).

A worker's `outcome` is the status of its result; it decides the retry, the payload of the
last callback and whether that payload passes its contract. `Contract` has the schemas as
records (required keys, whether others are allowed, the types of each) and the payloads as
the code builds them, as functions from keys to the types of their values, `undefined`
included: `Fits` is `validateObject`, `Reported` the outcomes whose last callback is sent.

Abstracted: issues' own data (which candidates fail the field and blocker rules is the
tracker's choice), the order of the candidates (any), delays (a timer may fire at any
time), token and runtime totals, HTTP. An issue's state is one of `ActiveStates` or
"inactive"; a state in both the active and the terminal list is left out.

Bounds: `AttemptCap` (attempts saturate, so that the backoff's exponent stays finite; the
control flow does not look at it), `MaxZombies` (how many workers may outlive their entry
at a time: one is enough to hit every "old worker, new run" hazard and the runs below
that fail need no more), `RunIds` (Mission Control dispatches), `WorkerIds` and `CallIds`
(calls in flight). An action that would start a worker needs a free identity; with three
of them, two issues can run beside a zombie.

One assumption is the outside's: Mission Control dispatches an execution run once
(`accepted[r] = None` in `DispatchMissionControl`; the code does not look). `FinalIsLast`
and `BindingHasEntry` speak of runs by that id and rest on it. A second dispatch of the
same *issue*, under another id, is modelled as it is.

### TickIO, LinearClient, SharedMemory

`Orchestrator` lets the tracker answer anything and the pull return at once; here the
answers are the point, and of the rules of dispatch only the slots and the running issues
are left: `Candidates` are all the sets that `selectCandidates` could return with whatever
claims, limits per state and blockers there are, and `DispatchSome` dispatches any part of
them, since the loop breaks at the first that is refused. Three actors meet: the tick, the
workers that end, and the tracker.

| code | actions |
| --- | --- |
| `startupCleanup` | `StartupCleanup` |
| `tick`, up to the refresh and after it | `TickBegins`, `Refreshed`, `Validate` |
| `fetchCandidateIssues`, `fetchIssuesByStates` | `BeginListing`, `NextPage`, `LastPage` with `Answer`, `ListingFails` |
| `fetchIssueStatesByIds` | `StateAnswers` |
| `selectCandidates`, `syncBeforeDispatch`, the dispatch loop | `Listed`, `Synced` |
| `enqueue`, the pull of `syncBeforeDispatch`, `syncAfterRun` | `Enqueue`, `Start`, `Pull`, `Status`, `Add`, `Commit`, `Push`, `CommandFails` |
| `handleWorkerExit` with its early return | `WorkerExit` |

Issues are numbered in the order in which the tracker pages through them, so that a cursor
is the last issue read. A page is what matches *when it is asked for*; `stayed` remembers
the issues that matched all along. A job of the shared memory is a label and the git
command it stands at; the repository is four flags (unstaged, staged, not pushed, in the
middle of a rebase), and `failed` is raised by a job that could not add, commit or push and
lowered by the next push that succeeds. An agent writes a note whenever a worker is at work.

Bounds: `PageSize` (50 in the code, and its multiples only make a case rarer), `MaxZombies`
(workers at one issue whose runs were terminated), `MaxJobs` (jobs in line: one at git, one before the tick's, one behind it).

### AgentRun

The worker's program counter names the await it stands at; the parameter of an action is
how that await ended. `dir` is the directory of the issue: absent, a file, the worker that
created it and has not seen `after_create` succeed, or ready. Workers start whenever they
like: the orchestrator may well have two of them for one issue at a time (see
`BoundedConcurrency`), and removes the workspace beside them. `fallback` is how
`fallback_command` compares with `command`: absent, of another kind, of the same kind;
`perTurn` says which of the two agents are a process per turn. That matters for when an
agent is spawned: the app-server with its session, the others with each turn.

`sessions` are those that started and are not stopped; `Driven` adds the app-server that is
being initialized. When `initialize()` throws, `startSession` has no session to give to
anybody and stops nothing: the child goes from `Driven` to `strays` (`Strands`, in
`StartSession`, `StartFallback` and `ResumeTurn`). Whether it is still alive then depends on
why it threw (a timeout, a refusal, an exit); `strays` keeps it in any case.

The whole process ends by a spawn in a directory that has gone (`SpawnFails`, finding 5),
and by what `Failures` allows: a spawn the system refuses, a write to an agent that has died
(`WriteFails`: EPIPE on a stdin without a listener), a kill (`Crash`). `Die` is what is left
then: the directory, and the agents that were driven, as strays. When a worker returns, or
is lost, its local variables go too.

### AgentSession, CodexSession, CliAgent

`AgentSession` is the interface as its caller sees it: starting, ready, in a turn, over
(after a turn that did not complete), stopping, stopped; and whether a process is alive.
Both agents are shown to implement it. Either may end in `crashed`: the process of the
caller, not the agent's, dies of an error event nobody listens for. A session that is over
because it could not start may leave its process alive; nobody calls its stop(), and what
becomes of the process is in `AgentRun`.

`CodexSession`: `lineBuffer`, `lineResolvers` and `closed` are the fields of the class. A
resolver is "live" while its reader waits and "stale" when the reader has timed out but
could not remove it. `pc` says which loop reads: two requests of the handshake, the
response to `turn/start`, the stream. The child owes one answer per request, ends each turn
once, may ask for approval (and then says nothing in the turn until it is answered), may
send notifications, die, or ignore SIGTERM. Lines wait in `pipe` before readline delivers
them, before or after the exit event. Time is a flag, `late`: the deadline of the current
loop has passed; readers of a stream may time out before it. `BrokenPipe` is a write to a
child that is dead and whose exit has not been seen.

`CliAgent`: the turns are a sequence, each with what its closures hold: its child, whether
that exited by itself and well, the lines not yet delivered, whether the reader is open,
whether codex said `turn.completed`, the timer, whether the output file is being read, and
the result. `ExitEvent`, `LineArrives`, `OutputRead` and `TurnTimeout` may come for any turn
at any time, the ended ones included; `stop()` knows the last child only and, as in the
code, waits for the exit of one that has exited before. Codex and claude differ in what
ends a turn: the exit, or the exit and then the file.

Left out: the contents of events, ids that a child chooses for its own requests (one equal
to the id awaited would be taken for the response), a thread id missing from the response
(a refusal here), the caller's calls out of turn (the worker makes none).

Bounds: `MaxTurns`, `MaxLines` (lines unread), `MaxStale` (quiet periods in one wait). Three
turns let messages of one meet the next two, and late events of one child meet a later
turn and its stop(); two lines are a response and a last word in one chunk; two stale
readers lose more than one line.

## 3. Runs

| run | instance | shows |
| --- | --- | --- |
| core | 2 issues, 3 workers, 2 polls, 2 active states (one limited to a single run), limit 1 or 2 | `ClaimedIffOwned`, `OneOwner`, `DispatchWithinLimit`, `OrphanedOnlyByReconcile`, `ImplementsLifecycle` |
| features | Mission Control with 2 runs and stall detection, 2 issues, 2 workers, 1 poll, limit 2 | `TypeOK`, `EntryHasLiveWorker`, `BindingHasEntry`, `FinalIsLast`, `ClaimsLeakOnlyForMissionControl` |
| live | one issue the tracker may close, one that stays, fairness, no symmetry | `TicksForever`, `ClosedIsReleased`, `StopReturnsAtLast` |
| tick_io | 2 issues in pages of one, 2 slots, a zombie at each issue, 3 jobs, fairness | `TypeOK`, `OneGitAtATime`, `UnpushedHasCause`, `NotesAreShared`, `NoIssueOverlooked`, `TickEnds` |
| agent_run | 2 workers, 2 turns, every pair of agents, every way the process may end, fairness | `TypeOK`, `OneAgentDriven`, `AgentsStoppedBeforeAfterRun`, `RunsAreBounded`, `PartialWorkspaceHasCause`, `NoTurnForInactiveIssue`, `WorkerReturns` |
| codex_session | 3 turns, 2 lines, 2 stale readers, fairness | `TypeOK`, the four invariants of the reader, `ImplementsSession`, `TurnEnds`, `SessionStops` |
| cli_agent | both kinds, 3 turns, 2 lines, fairness | `TypeOK`, `EndedTurnHasNoChild`, `ImplementsSession`, `TurnEnds`, `SessionStops` |
| bounded_concurrency, stop_leaves_nothing, callbacks_lost, turn_timeout, spawn_crash | small | the findings of section 5, each a counterexample |

Two configurations of the orchestrator exist because Mission Control and stall detection
break properties that hold without them, and it is worth knowing which: with Mission
Control an issue may have an entry and a pending poll, or a claim nobody owns; with stall
detection an issue may be running and queued at the same time. What survives both is
checked, and proved, with both. The limit is checked without them (with two values, so that
a reload lowers it below what runs) and proved with them (`LimitKept`); Mission Control's
own test of the slots thus rests on the proof. In `features` the limit is not reloaded.

Two issues are enough for the limits to matter and for the per-state limit to bite; all
the ownership hazards are between two callbacks about *one* issue and any other issue only
takes slots. Symmetry is used in the runs without liveness only; issues, workers, polls and
runs appear nowhere in an order. In `tick_io` two issues make a listing of up to two pages
with a change between them, and a worker of a terminated run beside one of its successor.
Deadlock is checked in `tick_io` only: everything else here may stop, when the process has
exited, the session is stopped or the workers are done.

Fairness. `Orchestrator!Fairness`: the tick's steps, weakly (its timer fires, requests
return: the Linear client sets a timeout, and a hook has one). Strongly, for what an
adversary could otherwise refuse for ever although it is possible again and again: the
tracker answering a refresh (not always failing), a retry timer, a poll's answer, and the
end of a worker (turns are counted and each has its deadline). stop()'s two awaits, weakly.
Not assumed: that agents succeed, that Mission Control or the workflow file ever does
anything. `ClosedIsReleased` needs these strong assumptions because a tracker that fails
whenever it is asked keeps a closed issue for ever. `TicksForever` and `TickEnds` assume
that git ends, to which the code does not see (`runGit` has no timeout), and that a request
whose headers came also has a body that ends. `CodexSession!Fairness`: the session's own
loop and its timers; nothing of the child. `CliAgent!Fairness`: the exit of a child that
died, the output file and the timers, turn by turn, and the five seconds of stop(); nothing
of a child that lives. `AgentRun!FairSpec`: each worker's awaits return.

## 4. Proofs

The theorems hold for all values of the constants that satisfy the named assumptions of
the modules, which TLC evaluates in every run.

**Orchestrator** (`OrchestratorProofs`, `OrchestratorRefinement`). Assumed: limits and
per-state limits are any integers, `Issues` is finite (cardinalities), `None` is none of the
values it is compared with.

* `TypeCorrect`: `TypeOK` is inductive.
* `EntriesHaveWorkers`: `EntryHasLiveWorker` is inductive relative to `TypeOK`. The point
  is `WorkerExit`: it deletes the promise and the entry of its *issue*, whoever owns them
  by now, so the invariant has to say that an entry and a promise exist together and name
  the same worker; a zombie then removes both or neither. This is a consistency of the
  maps, not that the run is right to lose its entry: that is `OrphansHaveCause`.
* `BindingsHaveEntries`: strengthened by the fact that a binding's execution run was
  accepted for that very issue (`BindingInv`).
* `FinalsAreLast`: strengthened by the fact that a run still bound has had no final
  callback, and one not accepted yet no callback at all (`FinalInv`).
* `ClaimsMatchOwners`: without Mission Control and stall detection. The inductive
  invariant (`OwnInv`) joins the claims, the disjointness of the three owners, and the
  fact that whatever the tick still holds as candidates is checked against the claims
  again before it is dispatched.
* `LeaksHaveCause`: with every feature. Here an issue may have several owners, so the
  lemmas on polls say only that none but the issue of the poll that ended can leave; the
  one step that leaves a claim behind is the exit of a bound run, and `BindingInv` says
  that it was dispatched for that issue.
* `LimitKept`: every step keeps or lowers the number of entries, or adds one below the
  limit in force; with all features.
* `OrphansHaveCause`: without Mission Control and stall detection. Neither dispatcher left
  can hit a running issue, the tick because it looks, the poll because of `OneOwner`; a
  worker that ends takes its own entry or was a zombie.
* `AwaitedAtWork`: a promise and an entry name the same worker (`EntryHasLiveWorker`), so
  the promises stop() takes are the live workers that are no zombies (`PromisesAreOwners`);
  and they are still at work whenever one looks, since a worker that ends leaves its promise
  before stop() takes it, or leaves the set awaited.
* `LifecycleImplemented`: every step of the orchestrator is a step of `IssueLifecycle` or
  a stutter, under the mapping at the end of `Orchestrator` (phase and attempt of an issue
  from the three places it can be in), with `OwnInv` as the invariant that makes the
  mapping a function.
* `BackoffKept`: read off the refinement. In `IssueLifecycle` the attempt number falls only
  where a run ends well or the issue is let go of, so it does in the orchestrator, although the number passes through four maps and three awaits.

**TickIO** (`TickIOProofs`), for any number of issues, slots and jobs. The invariant joins
three: only the first job in line works, and on the commands of its kind (`JobInv`); what is
staged is being committed and what is committed being pushed, unless a job that commits has
failed and none has pushed since (`RepoInv`); when nobody is at work and notes lie about, a
job that will stage them stands in line (`NotesInv`). The excuse ends with the next push
that succeeds: it adds, commits and pushes all that the failed job left.
`GitAlone`, `CommitsArePushed` and `NotesReachRemote` follow.
`IssuesAreNoticed` is about the paging alone, of the candidates and of the clean-up; which
of the answer is dispatched is the rules' choice. It needs what a page holds: the issues behind the cursor by rank, so that
the last of a page separates those read from those unread (`LinearClientProofs`). Then what
was in the states asked for all along is read up to the cursor, nothing behind it has been
read, and nothing twice (`ListingInv`). `RunsInv` says that an entry has a worker, which with
the zombies an issue may have bounds the workers at it (`TypeCorrect`), and that what the
tick is about to dispatch has no entry. Two measures say that the tick gets on: `ListingsGoForward`
(the unread issues, of which every page takes some) and `PullsGoForward` (the git commands
left to the jobs up to the tick's own, at most five for each; jobs of workers that end
meanwhile stand behind it and do not count).

**AgentRun** (`AgentRunProofs`), for any number of workers and turns and every way the
process may end. The sessions of a worker are among its current one (`AgentInv`); who can
have been left by a failed `initialize()` is told by the await a worker stands at
(`StrayInv`), which gives `OneAgent` and `AgentsStopped`; and the runs made plus those still to
come within the turn are at most those allowed so far (`RunInv`), which is what makes the
count inductive: a fallback run is paid for when it is decided on. One lemma treats the
steps of one worker (`Moves`), one the others at rest (`Rests`). `PartialWorkspace` is
inductive on its own. `WorkersGoForward` counts the awaits that are left: the ones to the
end of the turn, five for each turn to come, and the way out; every step of a worker makes
that less, and no step beside it more, so runWorker returns after at most `5 * MaxTurns + 7`
awaits, a bound without a fairness assumption.

**CodexSession** (`CodexSessionProofs`), for any number of turns, lines and quiet periods.
`lineBuffer \o pipe` is what is unread; the proof speaks of that sequence so that the
delivery of a line to the buffer changes nothing. Only the last reader can be live, and
only while a loop reads and the session is open (`ReaderInv`); the answer to the last
request is unread only if nothing is owed, once, and at most one end of the turn at work
(`LineInv`); what the child owes or works on was asked by the last request (`ChildInv`).
That makes it impossible for a request to be sent while a stale reader is queued, or for the
word that ends one turn to be read in the next. `SessionImplemented` needs all of them.

**CliAgent** (`CliAgentProofs`), for any number of turns and lines. Only the last turn can be
without a result, and only it can have a process (`CallInv`, `TurnInv`); every event of a
child is an instance of one abstract step (`Happens`: one turn is replaced, its result stays
or is set), and the invariant and the refinement are proved for that step once.

**The findings and their causes.** A counterexample shows that a claim fails; it does not
show that nothing else makes it fail. For each finding of section 5 there is a theorem that
names the step to blame and proves the claim, or what is left of it, for every behaviour
without that step, whatever the values of the constants:

| finding | theorem | holds as long as |
| --- | --- | --- |
| 1 | `ConcurrencyBounded` | the reconciler terminates no run (no Mission Control, no stall detection, one limit) |
| 2 | `StopLeavesOnlyOrphans` | no worker begins once stop() was called: those left are zombies |
| 2 | `StopLeavesNobody` | moreover no run was terminated (no Mission Control, no stall detection) |
| 3 | `OnlyNormalEndsReported` | always: the last callback of a bound run is sent if and only if its worker ended normally |
| 4 | `PatienceMeansSilence` | no reader of a stream gives up before the deadline |
| 5 | `LostWithDirectory` | no directory is removed from under a worker: every agent is then spawned in one that is there, and a worker is lost only to what `Failures` names |

The hypotheses restrict behaviours (`[][~Step]_vars`), not states; the restricted
behaviours are those of the other runs, in which work is dispatched, ends and is retried,
so they are not empty.

Only model-checked: liveness. The two measures of `TickIO` and that of `AgentRun` are the
safety half of `TickEnds` and `WorkerReturns`: nothing goes back, and the way is bounded.
That the steps are taken at all is fairness and `ENABLED`, which the prover does not reach,
and so are `TurnEnds`, `SessionStops`, `TicksForever`, `ClosedIsReleased` and
`StopReturnsAtLast`.

## 5. Findings

1. `BoundedConcurrency`: a terminated run's worker goes on without a slot
   (`orchestrator.ts:786`).
2. `StopLeavesNothing`: stop() waits for the promises of one moment; workers it does not
   know, and retries queued after it cancelled them, are left (`orchestrator.ts:122`).
3. `EndedRunsAreReported`: the last callback of a run that failed, timed out, was blocked or
   cancelled has keys that are `undefined`, does not pass its own contract and is dropped
   (`orchestrator.ts:677`).
4. `TimeoutMeansSilence`: five quiet seconds cost the next line; if that is
   `turn/completed` the turn times out (`codex-app-server-runner.ts:101`).
5. `LostOnlyByKill`: an agent that cannot be spawned takes the whole process down
   (`codex-app-server-runner.ts:27` and the per-turn runners).

`PROJECT.json` quotes the comment or document each of them contradicts.

## 6. Not modelled

* Orchestrator: `triggerRefresh`, which nothing calls; token and runtime totals; delays and
  backoff; the sort order of candidates; a workspace removed under a live worker is in
  `AgentRun`, where the removal comes at any time, not beside the maps.
* Mission Control: HTTP, authorisation, the schemas of dispatches. Delivery of callbacks:
  `FinalIsLast` is about the order of sending.
* Contracts: arrays, enumerations other than the status, the generated copies of schemas.
* Linear: the contents of issues and their normalisation, a cursor that repeats.
* Shared memory: the remote itself, a path that is missing (the job ends at once), one of
  the two switches off.
* Agents: events passed on (a late `turn_completed` is any event of the worker in
  `Orchestrator`), processes an agent started and left behind, the end of the agents in
  `strays`, which may come at any time and which no worker sees.
* Workspaces: the path of an issue, issues whose names collide, `max_turns` below zero.
* Parsing of the workflow file, prompts, logging: text.

## 7. What could follow

1. `RetryDelay`: backoff with the width of `setTimeout`.
2. `DispatchOrder`: the comparator as a total order, the dispatch loop with its `break`
   against a reference.
3. `TokenLedger`: deltas against absolute counters, totals against the sum of the runs.
4. `triggerRefresh`, if it gets a caller.
5. Proofs: a measure for a turn of `CodexSession` and of `CliAgent`, as the safety half of
   `TurnEnds` and `SessionStops`.
