------------------------------- MODULE TickIO -------------------------------
(***************************************************************************)
(* The tick and what it awaits: the listing of LinearClient and the job of *)
(* SharedMemory it stands in line for, behind those of the workers that    *)
(* have ended.  Orchestrator has the rules by which runs are dispatched;   *)
(* here they may refuse whatever they like, and only the slots count.      *)
(***************************************************************************)
EXTENDS LinearClient, SharedMemory

CONSTANTS
    Slots,     \* agent.max_concurrent_agents
    MaxZombies \* BOUND: workers at an issue whose run was terminated

ASSUME SlotsAssumption == Slots \in Nat /\ MaxZombies \in Nat

VARIABLES
    tick,     \* "startup" (the clean-up), "armed", or what it awaits: "refreshing",
              \* "listing", "syncing"
    eligible, \* issues the tick is about to dispatch
    running,  \* issues with an entry
    working,  \* issue -> workers at it: a terminated run leaves its worker behind
    unsynced  \* the last worker to end had no entry, and no sync followed

runs == <<eligible, running, working, unsynced>>
vars == <<open, listing, memory, tick, runs>>

TypeOK ==
    /\ ClientTypeOK /\ MemoryTypeOK
    /\ tick \in {"startup", "armed", "refreshing", "listing", "syncing"}
    /\ eligible \subseteq Issues /\ running \subseteq Issues
    /\ working \in [Issues -> 0..(MaxZombies + 1)] /\ unsynced \in BOOLEAN

\* startupCleanup has asked for the closed issues.
Init ==
    /\ open \in SUBSET Issues
    /\ asked = "terminal" /\ cursor = 0 /\ all = << >> /\ stayed = Issues \ open
    /\ MemoryInit
    /\ tick = "startup" /\ eligible = {} /\ running = {}
    /\ working = [i \in Issues |-> 0] /\ unsynced = FALSE

-----------------------------------------------------------------------------
\* The workspaces of the closed issues are removed; the first tick is scheduled.
StartupCleanup ==
    /\ tick = "startup"
    /\ \/ NextPage /\ UNCHANGED tick
       \/ (LastPage \/ ListingFails) /\ tick' = "armed"
    /\ UNCHANGED <<open, memory, runs>>

\* The configuration is valid and the candidates are asked for, or the tick is over.
Validate ==
    \/ tick' = "listing" /\ BeginListing("active")
    \/ tick' = "armed" /\ UNCHANGED listing

\* The tick timer fires: the states of the running issues are asked for.
TickBegins ==
    /\ tick = "armed"
    /\ IF running # {} THEN tick' = "refreshing" /\ UNCHANGED listing ELSE Validate
    /\ UNCHANGED <<open, memory, runs>>

Zombies(i) == working[i] - IF i \in running THEN 1 ELSE 0

\* The answer, if it comes: runs of closed issues are terminated, those it does not
\* mention go on.
Refreshed ==
    /\ tick = "refreshing"
    /\ \E told \in StateAnswers(running) \cup {{}} :
           /\ \A i \in told \ open : Zombies(i) < MaxZombies
           /\ running' = running \ (told \ open)
    /\ Validate
    /\ UNCHANGED <<open, memory, eligible, working, unsynced>>

\* What selectCandidates may return: nothing without a free slot, and no issue that runs;
\* claims, limits per state and blockers may keep back any of the others.
Candidates ==
    IF Cardinality(running) < Slots THEN SUBSET (ToSet(Answer) \ running) ELSE {{}}

\* The issues of S are dispatched up to the first that is refused, for want of a slot or
\* by the other rules, in any order.
DispatchSome(S) ==
    \E T \in SUBSET S :
        /\ T = {} \/ Cardinality(running \cup T) <= Slots
        /\ running' = running \cup T
        /\ working' = [i \in Issues |-> working[i] + IF i \in T THEN 1 ELSE 0]

\* The candidates are there: if any is eligible the shared memory is pulled first.
Listed ==
    /\ LastPage
    /\ \E S \in Candidates :
           IF S # {} /\ enabled
           THEN /\ Enqueue("before_dispatch") /\ tick' = "syncing"
                /\ eligible' = S /\ UNCHANGED <<running, working>>
           ELSE DispatchSome(S) /\ tick' = "armed" /\ UNCHANGED <<queue, eligible>>
    /\ UNCHANGED unsynced

ReadCandidates ==
    /\ tick = "listing"
    /\ \/ NextPage /\ UNCHANGED <<tick, queue, runs>>
       \/ ListingFails /\ tick' = "armed" /\ UNCHANGED <<queue, runs>>
       \/ Listed
    /\ UNCHANGED <<open, enabled, repository, failed>>

\* The pull has ended, well or not.
Synced ==
    /\ tick = "syncing" /\ ~Pending("before_dispatch")
    /\ DispatchSome(eligible) /\ eligible' = {}
    /\ tick' = "armed"
    /\ UNCHANGED <<open, listing, memory, unsynced>>

-----------------------------------------------------------------------------
(* The workers *)

\* An agent leaves a note in the shared memory.
AgentWrites ==
    /\ \E i \in Issues : working[i] > 0
    /\ notes' = TRUE
    /\ UNCHANGED <<open, listing, enabled, queue, staged, ahead, broken, failed, tick, runs>>

\* handleWorkerExit: without an entry nothing is done, the sync included.
WorkerExit(i) ==
    /\ working[i] > 0
    /\ working' = [working EXCEPT ![i] = @ - 1]
    /\ running' = running \ {i}
    /\ IF i \in running THEN SyncAfterRun ELSE UNCHANGED queue
    /\ unsynced' = (i \notin running)
    /\ UNCHANGED <<open, listing, enabled, repository, failed, tick, eligible>>

Git == (\E j \in 1..Len(queue) : GitStep(j)) /\ UNCHANGED <<open, listing, tick, runs>>

IssueChanges == (\E i \in Issues : Change(i)) /\ UNCHANGED <<memory, tick, runs>>

TickStep == StartupCleanup \/ TickBegins \/ Refreshed \/ ReadCandidates \/ Synced

Next == TickStep \/ AgentWrites \/ (\E i \in Issues : WorkerExit(i)) \/ Git \/ IssueChanges

Spec == Init /\ [][Next]_vars

\* The tracker answers or the request times out; git ends, which nothing but git sees
\* to; the event loop turns.
FairSpec == Spec /\ WF_vars(TickStep) /\ WF_vars(Git)

-----------------------------------------------------------------------------
(* Properties *)

\* What a tick chooses its candidates from, and the clean-up the workspaces it removes, is
\* whole: an issue that is in the states asked for from the first request of the listing to
\* the last is in the answer, however others came and went between the pages, and none is
\* there twice.
NoIssueOverlooked ==
    [][Listing /\ asked' = "none" => IsInjective(Answer) /\ stayed \subseteq ToSet(Answer)]_vars

\* When nobody is at work every note is at the remote, unless a job failed and none has
\* pushed since, or the last to end was the worker of a terminated run, whose notes nobody
\* commits.
NotesAreShared ==
    (\A i \in Issues : working[i] = 0) /\ queue = << >> /\ enabled
        => ~(notes \/ staged \/ ahead) \/ failed \/ unsynced

\* A tick that began ends, and the next one is armed: neither a failing request, nor
\* pages to come, nor a job that fails or stands in line before its own, stops it.
TickEnds == (tick # "armed") ~> (tick = "armed")
=============================================================================
