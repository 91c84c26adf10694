------------------------- MODULE OrchestratorProofs -------------------------
(***************************************************************************)
(* Safety of the scheduling core, proved for every value of its constants, *)
(* and what its shutdown waits for and leaves behind.                      *)
(***************************************************************************)
EXTENDS Orchestrator, FiniteSetTheorems, TLAPS

-----------------------------------------------------------------------------
(* Types *)

LEMMA BumpType == ASSUME NEW a \in 0..AttemptCap PROVE Bump(a) \in 1..AttemptCap
BY ConfigAssumption DEF Bump

\* A dispatch leaves the maps well typed, whatever it is given.
LEMMA DispatchType ==
    ASSUME TypeOK, NEW i \in Issues, NEW s \in ActiveStates \cup {"inactive"},
           NEW a \in 0..AttemptCap, NEW w \in WorkerIds, NEW b \in RunIds \cup {None},
           Dispatch(i, s, a, w, b)
    PROVE  /\ running' \in [Issues -> Entry \cup {None}]
           /\ claimed' \subseteq Issues
           /\ retry_attempts' \in [Issues -> 0..AttemptCap]
           /\ workerPromises' \in [Issues -> WorkerIds \cup {None}]
           /\ missionControlBindings' \in [Issues -> RunIds \cup {None}]
           /\ workers' \in [WorkerIds -> Issues \cup {None}]
<1>1. [worker |-> w, state |-> s, attempt |-> a] \in Entry
  BY DEF Entry
<1>2. 0 \in 0..AttemptCap
  BY ConfigAssumption
<1> QED
  BY <1>1, <1>2 DEF Dispatch, TypeOK

LEMMA TerminateType ==
    ASSUME TypeOK, NEW S \in SUBSET Issues, Terminate(S)
    PROVE  /\ running' \in [Issues -> Entry \cup {None}]
           /\ claimed' \subseteq Issues
           /\ workerPromises' \in [Issues -> WorkerIds \cup {None}]
           /\ missionControlBindings' \in [Issues -> RunIds \cup {None}]
           /\ workers' \in [WorkerIds -> Issues \cup {None}]
BY DEF Terminate, TypeOK

LEMMA ReportType ==
    ASSUME TypeOK, NEW r \in RunIds, NEW what \in {"running", "final"}, Report(r, what)
    PROVE  reports' \in [RunIds -> Seq({"running", "final"})]
<1>1. Append(reports[r], what) \in Seq({"running", "final"})
  BY DEF TypeOK
<1>2. reports[r] \in Seq({"running", "final"})
  BY DEF TypeOK
<1> QED
  BY <1>1, <1>2 DEF Report, TypeOK

LEMMA TickType == ASSUME TypeOK, TickStep PROVE TypeOK'
<1>1. ASSUME NEW stalled \in SUBSET Issues, TickStart(stalled) PROVE TypeOK'
  <2>1. /\ running' \in [Issues -> Entry \cup {None}]
        /\ claimed' \subseteq Issues
        /\ workerPromises' \in [Issues -> WorkerIds \cup {None}]
        /\ missionControlBindings' \in [Issues -> RunIds \cup {None}]
        /\ workers' \in [WorkerIds -> Issues \cup {None}]
    BY <1>1, TerminateType DEF TickStart
  <2>2. retry_attempts' \in [Issues -> 0..AttemptCap]
    BY <1>1, ConfigAssumption DEF TickStart, TypeOK
  <2>3. tickPc' \in {"closing", "refreshing"}
    BY <1>1 DEF TickStart
  <2>4. answer' \in [Issues -> ActiveStates \cup {"terminal", "inactive", "asked", None}]
    BY <1>1 DEF TickStart
  <2> QED
    BY <1>1, <2>1, <2>2, <2>3, <2>4 DEF TickStart, TypeOK
<1>2. ASSUME NEW verdict \in [Issues -> ActiveStates \cup {"terminal", "inactive", None}],
             RefreshAnswered(verdict)
      PROVE  TypeOK'
  BY <1>2 DEF RefreshAnswered, TypeOK, core
<1>3. CASE RefreshFails
  BY <1>3 DEF RefreshFails, ClearAnswer, TypeOK, core
<1>4. ASSUME NEW i \in Issues, CloseNext(i) PROVE TypeOK'
  <2>1. answer' \in [Issues -> ActiveStates \cup {"terminal", "inactive", "asked", None}]
    BY <1>4 DEF CloseNext, TypeOK
  <2>2. CASE i \in Running
    <3>1. Terminate({i}) /\ retry_attempts' = [retry_attempts EXCEPT ![i] = 0]
          /\ tickPc' \in {"removing", "closing"}
      BY <1>4, <2>2 DEF CloseNext
    <3>2. retry_attempts' \in [Issues -> 0..AttemptCap]
      BY <3>1, ConfigAssumption DEF TypeOK
    <3>3. /\ running' \in [Issues -> Entry \cup {None}]
          /\ claimed' \subseteq Issues
          /\ workerPromises' \in [Issues -> WorkerIds \cup {None}]
          /\ missionControlBindings' \in [Issues -> RunIds \cup {None}]
          /\ workers' \in [WorkerIds -> Issues \cup {None}]
      BY <3>1, TerminateType
    <3> QED
      BY <1>4, <2>1, <3>1, <3>2, <3>3 DEF CloseNext, TypeOK
  <2>3. CASE i \notin Running
    BY <1>4, <2>1, <2>3 DEF CloseNext, TypeOK, core
  <2> QED
    BY <2>2, <2>3
<1>5. CASE Removed
  BY <1>5 DEF Removed, TypeOK, core
<1>6. ASSUME NEW valid \in BOOLEAN, CloseDone(valid) PROVE TypeOK'
  <2>1. running' \in [Issues -> Entry \cup {None}]
    <3> SUFFICES ASSUME NEW i \in Issues, i \in Running, answer[i] \in ActiveStates
                 PROVE  [running[i] EXCEPT !.state = answer[i]] \in Entry
      BY <1>6 DEF CloseDone, TypeOK
    <3>1. running[i] \in Entry
      BY DEF TypeOK, Running
    <3> QED
      BY <3>1 DEF Entry
  <2>2. tickPc' \in {"listing", "armed", "off"}
    BY <1>6 DEF CloseDone, ScheduleTick
  <2> QED
    BY <1>6, <2>1, <2>2 DEF CloseDone, ClearAnswer, TypeOK
<1>7. CASE ListFails
  BY <1>7 DEF ListFails, ScheduleTick, TypeOK, core
<1>8. ASSUME NEW listed \in [Issues -> ActiveStates \cup {None}], ListAnswered(listed)
      PROVE  TypeOK'
  <2>1. answer' \in [Issues -> ActiveStates \cup {"terminal", "inactive", "asked", None}]
    BY <1>8 DEF ListAnswered
  <2>2. tickPc' \in {"syncing", "armed", "off"}
    BY <1>8 DEF ListAnswered, ScheduleTick
  <2> QED
    BY <1>8, <2>1, <2>2 DEF ListAnswered, TypeOK, core
<1>9. CASE SyncDone
  BY <1>9 DEF SyncDone, TypeOK, core
<1>10. ASSUME NEW i \in Issues, NEW w \in WorkerIds, DispatchNext(i, w) PROVE TypeOK'
  <2>1. answer' \in [Issues -> ActiveStates \cup {"terminal", "inactive", "asked", None}]
    BY <1>10 DEF DispatchNext, TypeOK
  <2>2. answer[i] \in ActiveStates /\ Dispatch(i, answer[i], 0, w, None)
    BY <1>10 DEF DispatchNext, ShouldDispatch
  <2>3. /\ running' \in [Issues -> Entry \cup {None}]
        /\ claimed' \subseteq Issues
        /\ retry_attempts' \in [Issues -> 0..AttemptCap]
        /\ workerPromises' \in [Issues -> WorkerIds \cup {None}]
        /\ missionControlBindings' \in [Issues -> RunIds \cup {None}]
        /\ workers' \in [WorkerIds -> Issues \cup {None}]
    BY <2>2, DispatchType, ConfigAssumption
  <2> QED
    BY <1>10, <2>1, <2>3 DEF DispatchNext, TypeOK
<1>11. CASE DispatchEnd
  BY <1>11 DEF DispatchEnd, ClearAnswer, ScheduleTick, TypeOK, core
<1> QED
  BY <1>1, <1>2, <1>3, <1>4, <1>5, <1>6, <1>7, <1>8, <1>9, <1>10, <1>11 DEF TickStep

LEMMA RetryType == ASSUME TypeOK, RetryStep PROVE TypeOK'
<1>1. ASSUME NEW i \in Issues, NEW c \in CallIds, RetryFires(i, c) PROVE TypeOK'
  <2>1. [issue |-> i, attempt |-> retry_attempts[i]] \in Call
    BY DEF TypeOK, Call
  <2>2. retry_attempts' \in [Issues -> 0..AttemptCap]
    BY <1>1, ConfigAssumption DEF RetryFires, TypeOK
  <2>3. polls' \in [CallIds -> Call \cup {None}]
    BY <1>1, <2>1 DEF RetryFires, TypeOK
  <2> QED
    BY <1>1, <2>2, <2>3 DEF RetryFires, TypeOK
<1>2. ASSUME NEW c \in CallIds, PollRequeues(c) PROVE TypeOK'
  <2>1. polls[c] \in Call
    BY <1>2 DEF PollRequeues, InFlight, TypeOK
  <2>2. Bump(polls[c].attempt) \in 0..AttemptCap
    BY <2>1, BumpType, ConfigAssumption DEF Call
  <2>3. retry_attempts' \in [Issues -> 0..AttemptCap]
    BY <1>2, <2>2 DEF PollRequeues, TypeOK
  <2>4. polls' \in [CallIds -> Call \cup {None}]
    BY <1>2 DEF PollRequeues, TypeOK
  <2> QED
    BY <1>2, <2>3, <2>4 DEF PollRequeues, TypeOK
<1>3. ASSUME NEW c \in CallIds, PollGone(c) PROVE TypeOK'
  BY <1>3 DEF PollGone, TypeOK
<1>4. ASSUME NEW c \in CallIds, NEW s \in ActiveStates, NEW w \in WorkerIds,
             PollDispatches(c, s, w)
      PROVE  TypeOK'
  <2>1. polls[c] \in Call
    BY <1>4 DEF PollDispatches, InFlight, TypeOK
  <2>2. Dispatch(polls[c].issue, s, polls[c].attempt, w, None)
    BY <1>4 DEF PollDispatches
  <2>3. polls[c].issue \in Issues /\ polls[c].attempt \in 0..AttemptCap
    BY <2>1 DEF Call
  <2>4. /\ running' \in [Issues -> Entry \cup {None}]
        /\ claimed' \subseteq Issues
        /\ retry_attempts' \in [Issues -> 0..AttemptCap]
        /\ workerPromises' \in [Issues -> WorkerIds \cup {None}]
        /\ missionControlBindings' \in [Issues -> RunIds \cup {None}]
        /\ workers' \in [WorkerIds -> Issues \cup {None}]
    BY <2>2, <2>3, DispatchType
  <2>5. polls' \in [CallIds -> Call \cup {None}]
    BY <1>4 DEF PollDispatches, TypeOK
  <2> QED
    BY <1>4, <2>4, <2>5 DEF PollDispatches, TypeOK
<1> QED
  BY <1>1, <1>2, <1>3, <1>4 DEF RetryStep, PollFails, PollFindsNoSlot

LEMMA WorkerType == ASSUME TypeOK, WorkerStep PROVE TypeOK'
<1>1. ASSUME NEW w \in WorkerIds, AgentEvent(w) PROVE TypeOK'
  <2>1. missionControlBindings[workers[w]] \in RunIds
    BY <1>1 DEF AgentEvent, Running, TypeOK
  <2>2. reports' \in [RunIds -> Seq({"running", "final"})]
    BY <1>1, <2>1, ReportType DEF AgentEvent
  <2> QED
    BY <1>1, <2>2 DEF AgentEvent, TypeOK, core
<1>2. ASSUME NEW w \in WorkerIds, NEW outcome \in Outcomes, WorkerExit(w, outcome)
      PROVE  TypeOK'
  <2> DEFINE i == workers[w]
  <2>1. i \in Issues
    BY <1>2 DEF WorkerExit, Live, TypeOK
  <2>2. HandleWorkerExit(i, outcome)
    BY <1>2 DEF WorkerExit
  <2>3. /\ running' \in [Issues -> Entry \cup {None}]
        /\ missionControlBindings' \in [Issues -> RunIds \cup {None}]
    BY <2>1, <2>2 DEF HandleWorkerExit, TypeOK
  <2>4. retry_attempts' \in [Issues -> 0..AttemptCap]
    <3>1. ASSUME i \in Running PROVE Bump(running[i].attempt) \in 0..AttemptCap
      <4>1. running[i] \in Entry
        BY <2>1, <3>1 DEF Running, TypeOK
      <4>2. running[i].attempt \in 0..AttemptCap
        BY <4>1 DEF Entry
      <4> QED
        BY <4>2, BumpType, ConfigAssumption
    <3>2. 1 \in 0..AttemptCap
      BY ConfigAssumption
    <3>3. CASE i \in Running /\ missionControlBindings[i] = None
      <4>1. retry_attempts' = [retry_attempts EXCEPT ![i] =
                                 IF outcome = "normal" THEN 1 ELSE Bump(running[i].attempt)]
        BY <2>2, <3>3 DEF HandleWorkerExit
      <4> QED
        BY <3>1, <3>2, <3>3, <4>1 DEF TypeOK
    <3>4. CASE ~(i \in Running /\ missionControlBindings[i] = None)
      BY <2>2, <3>4 DEF HandleWorkerExit, TypeOK
    <3> QED
      BY <3>3, <3>4
  <2>5. reports' \in [RunIds -> Seq({"running", "final"})]
    <3>1. i \in Running /\ missionControlBindings[i] # None
            => missionControlBindings[i] \in RunIds
               /\ \/ Report(missionControlBindings[i], "final")
                  \/ UNCHANGED reports
      BY <2>1, <2>2 DEF HandleWorkerExit, FinalCallback, TypeOK
    <3>2. ~(i \in Running /\ missionControlBindings[i] # None) => UNCHANGED reports
      BY <2>2 DEF HandleWorkerExit
    <3> QED
      BY <3>1, <3>2, ReportType DEF TypeOK
  <2>6. /\ workers' \in [WorkerIds -> Issues \cup {None}]
        /\ workerPromises' \in [Issues -> WorkerIds \cup {None}]
        /\ awaited' \subseteq WorkerIds
    BY <1>2 DEF WorkerExit, TypeOK
  <2> QED
    BY <1>2, <2>3, <2>4, <2>5, <2>6 DEF WorkerExit, TypeOK
<1> QED
  BY <1>1, <1>2 DEF WorkerStep

LEMMA OutsideType == ASSUME TypeOK, OutsideStep PROVE TypeOK'
<1>1. ASSUME NEW i \in Issues, NEW r \in RunIds, NEW s \in ActiveStates \cup {"inactive"},
             NEW w \in WorkerIds, DispatchMissionControl(i, r, s, w)
      PROVE  TypeOK'
  <2>1. Dispatch(i, s, 0, w, r)
    BY <1>1 DEF DispatchMissionControl
  <2>2. /\ running' \in [Issues -> Entry \cup {None}]
        /\ claimed' \subseteq Issues
        /\ retry_attempts' \in [Issues -> 0..AttemptCap]
        /\ workerPromises' \in [Issues -> WorkerIds \cup {None}]
        /\ missionControlBindings' \in [Issues -> RunIds \cup {None}]
        /\ workers' \in [WorkerIds -> Issues \cup {None}]
    BY <2>1, DispatchType, ConfigAssumption
  <2> QED
    BY <1>1, <2>2 DEF DispatchMissionControl, TypeOK
<1>2. CASE WorkflowChange
  BY <1>2 DEF WorkflowChange, TypeOK, core
<1>3. ASSUME NEW i \in Issues, Settle(i) PROVE TypeOK'
  BY <1>3 DEF Settle, TypeOK, core
<1> QED
  BY <1>1, <1>2, <1>3 DEF OutsideStep

LEMMA StopType == ASSUME TypeOK, StopStep PROVE TypeOK'
<1>1. CASE Stop
  BY <1>1, ConfigAssumption DEF Stop, TypeOK
<1>2. CASE StopWaits
  BY <1>2 DEF StopWaits, TypeOK, core
<1>3. CASE StopReturns
  BY <1>3 DEF StopReturns, TypeOK, core
<1> QED
  BY <1>1, <1>2, <1>3 DEF StopStep

\* Every variable keeps to its type: in particular the retry queue never holds an
\* attempt beyond the cap and an entry's state is one a dispatcher may give it.
THEOREM TypeCorrect == Spec => []TypeOK
<1>1. Init => TypeOK
  BY ConfigAssumption DEF Init, TypeOK
<1>2. TypeOK /\ [Next]_vars => TypeOK'
  <2>1. TypeOK /\ UNCHANGED vars => TypeOK'
    BY DEF TypeOK, vars, core
  <2> QED
    BY <2>1, TickType, RetryType, WorkerType, OutsideType, StopType DEF Next
<1> QED
  BY <1>1, <1>2, PTL DEF Spec
-----------------------------------------------------------------------------
(* Steps *)

\* A step that touches none of the variables the invariants below speak of.
Idle == UNCHANGED <<core, polls, accepted, reports>> /\ (life' = "up" => life = "up")

\* What a step can be, for the invariants below.
LEMMA StepCases ==
    ASSUME TypeOK, [Next]_vars
    PROVE  \/ Idle
           \/ \E S \in SUBSET Issues : TickStart(S)
           \/ \E i \in Issues : CloseNext(i)
           \/ \E v \in BOOLEAN : CloseDone(v)
           \/ \E i \in Issues, w \in WorkerIds : DispatchNext(i, w)
           \/ \E i \in Issues, c \in CallIds : RetryFires(i, c)
           \/ \E c \in CallIds : PollRequeues(c)
           \/ \E c \in CallIds : PollGone(c)
           \/ \E c \in CallIds, s \in ActiveStates, w \in WorkerIds : PollDispatches(c, s, w)
           \/ \E w \in WorkerIds : AgentEvent(w)
           \/ \E w \in WorkerIds, o \in Outcomes : WorkerExit(w, o)
           \/ \E i \in Issues, r \in RunIds, s \in ActiveStates \cup {"inactive"},
                 w \in WorkerIds : DispatchMissionControl(i, r, s, w)
           \/ Stop
<1>1. CASE UNCHANGED vars
  BY <1>1 DEF vars, core, Idle
<1>2. CASE TickStep
  BY <1>2 DEF TickStep, RefreshAnswered, RefreshFails, Removed, ListFails, ListAnswered,
              SyncDone, DispatchEnd, core, Idle
<1>3. CASE RetryStep
  BY <1>3 DEF RetryStep, PollFails, PollFindsNoSlot
<1>4. CASE WorkerStep
  BY <1>4 DEF WorkerStep
<1>5. CASE OutsideStep
  BY <1>5 DEF OutsideStep, WorkflowChange, Settle, core, Idle
<1>6. CASE StopStep
  BY <1>6 DEF StopStep, StopWaits, StopReturns, core, Idle
<1> QED
  BY <1>1, <1>2, <1>3, <1>4, <1>5, <1>6 DEF Next

\* The entry CloseDone writes keeps its worker and its attempt.
LEMMA CloseDoneEntries ==
    ASSUME TypeOK, NEW valid \in BOOLEAN, CloseDone(valid), NEW j \in Issues
    PROVE  /\ running'[j] = None <=> running[j] = None
           /\ running[j] # None => /\ running'[j].worker = running[j].worker
                                   /\ running'[j].attempt = running[j].attempt
<1>1. CASE j \in Running /\ answer[j] \in ActiveStates
  <2>1. running[j] \in Entry /\ running[j] # None
    BY <1>1 DEF TypeOK, Running
  <2>2. running'[j] = [running[j] EXCEPT !.state = answer[j]]
    BY <1>1 DEF CloseDone
  <2>3. /\ running'[j] \in Entry
        /\ running'[j].worker = running[j].worker /\ running'[j].attempt = running[j].attempt
    BY <1>1, <2>1, <2>2 DEF Entry
  <2> QED
    BY <2>1, <2>3, NoneAssumption DEF Entry
<1>2. CASE ~(j \in Running /\ answer[j] \in ActiveStates)
  BY <1>2 DEF CloseDone
<1> QED
  BY <1>1, <1>2

LEMMA EntryNotNone ==
    ASSUME NEW i \in Issues, NEW s \in ActiveStates \cup {"inactive"},
           NEW a \in 0..AttemptCap, NEW w \in WorkerIds, NEW b,
           TypeOK, Dispatch(i, s, a, w, b)
    PROVE  /\ running'[i] # None /\ running'[i].attempt = a
           /\ \A j \in Issues \ {i} : running'[j] = running[j]
<1>1. [worker |-> w, state |-> s, attempt |-> a] # None
  BY NoneAssumption
<1> QED
  BY <1>1 DEF Dispatch, TypeOK

-----------------------------------------------------------------------------
(* Entries, promises and workers *)

LEMMA DispatchKeepsWorkers ==
    ASSUME TypeOK, EntryHasLiveWorker,
           NEW i \in Issues, NEW s \in ActiveStates \cup {"inactive"},
           NEW a \in 0..AttemptCap, NEW w \in WorkerIds, NEW b \in RunIds \cup {None},
           Dispatch(i, s, a, w, b)
    PROVE  EntryHasLiveWorker'
<1> DEFINE e == [worker |-> w, state |-> s, attempt |-> a]
<1>1. e \in Entry /\ e # None
  BY NoneAssumption DEF Entry
<1>2. /\ running'[i] = e /\ workerPromises'[i] = w /\ workers'[w] = i
  BY DEF Dispatch, TypeOK
<1> SUFFICES ASSUME NEW j \in Issues, j # i
             PROVE  /\ running'[j] # None => /\ workers'[running'[j].worker] = j
                                            /\ workerPromises'[j] = running'[j].worker
                    /\ running'[j] = None => workerPromises'[j] = None
  BY <1>1, <1>2 DEF EntryHasLiveWorker
<1>3. running'[j] = running[j] /\ workerPromises'[j] = workerPromises[j]
  BY DEF Dispatch, TypeOK
<1>4. CASE running[j] # None
  <2>1. workers[running[j].worker] = j /\ running[j].worker \in WorkerIds
    BY <1>4 DEF EntryHasLiveWorker, TypeOK, Entry
  <2>2. running[j].worker # w
    BY <2>1, NoneAssumption DEF Dispatch
  <2> QED
    BY <1>3, <1>4, <2>1, <2>2 DEF Dispatch, TypeOK, EntryHasLiveWorker
<1> QED
  BY <1>3, <1>4 DEF EntryHasLiveWorker

LEMMA TerminateKeepsWorkers ==
    ASSUME TypeOK, EntryHasLiveWorker, NEW S \in SUBSET Issues, Terminate(S)
    PROVE  EntryHasLiveWorker'
BY DEF Terminate, TypeOK, EntryHasLiveWorker

LEMMA ExitKeepsWorkers ==
    ASSUME TypeOK, EntryHasLiveWorker, NEW w \in WorkerIds, NEW outcome \in Outcomes,
           WorkerExit(w, outcome)
    PROVE  EntryHasLiveWorker'
<1> DEFINE i == workers[w]
<1>1. i \in Issues
  BY DEF WorkerExit, Live, TypeOK
<1>2. running'[i] = None /\ workerPromises'[i] = None
  BY <1>1 DEF WorkerExit, HandleWorkerExit, TypeOK, Running
<1> SUFFICES ASSUME NEW j \in Issues, j # i
             PROVE  /\ running'[j] # None => /\ workers'[running'[j].worker] = j
                                            /\ workerPromises'[j] = running'[j].worker
                    /\ running'[j] = None => workerPromises'[j] = None
  BY <1>2 DEF EntryHasLiveWorker
<1>3. running'[j] = running[j] /\ workerPromises'[j] = workerPromises[j]
  BY <1>1 DEF WorkerExit, HandleWorkerExit, TypeOK
<1>4. CASE running[j] # None
  <2>1. workers[running[j].worker] = j /\ running[j].worker \in WorkerIds
    BY <1>4 DEF EntryHasLiveWorker, TypeOK, Entry
  <2> QED
    BY <1>3, <1>4, <2>1 DEF WorkerExit, TypeOK, EntryHasLiveWorker
<1> QED
  BY <1>3, <1>4 DEF EntryHasLiveWorker

\* Whatever the tick, the retries, the workers, Mission Control and stop() do, and
\* in any order, an entry's worker is at work on its issue and its promise is the
\* one the map holds; this is inductive on its own.
THEOREM EntriesHaveWorkers == Spec => []EntryHasLiveWorker
<1>1. Init => EntryHasLiveWorker
  BY DEF Init, EntryHasLiveWorker
<1>2. TypeOK /\ EntryHasLiveWorker /\ [Next]_vars => EntryHasLiveWorker'
  <2> SUFFICES ASSUME TypeOK, EntryHasLiveWorker, [Next]_vars PROVE EntryHasLiveWorker'
    OBVIOUS
  <2>1. UNCHANGED <<running, workers, workerPromises>> => EntryHasLiveWorker'
    BY DEF EntryHasLiveWorker
  <2>2. ASSUME NEW S \in SUBSET Issues, TickStart(S) PROVE EntryHasLiveWorker'
    BY <2>2, TerminateKeepsWorkers DEF TickStart
  <2>3. ASSUME NEW i \in Issues, CloseNext(i) PROVE EntryHasLiveWorker'
    BY <2>1, <2>3, TerminateKeepsWorkers DEF CloseNext, core
  <2>4. ASSUME NEW v \in BOOLEAN, CloseDone(v) PROVE EntryHasLiveWorker'
    BY <2>4, CloseDoneEntries DEF CloseDone, EntryHasLiveWorker
  <2>5. ASSUME NEW i \in Issues, NEW w \in WorkerIds, DispatchNext(i, w)
        PROVE  EntryHasLiveWorker'
    BY <2>5, DispatchKeepsWorkers, ConfigAssumption DEF DispatchNext, ShouldDispatch
  <2>6. ASSUME NEW c \in CallIds, NEW s \in ActiveStates, NEW w \in WorkerIds,
               PollDispatches(c, s, w)
        PROVE  EntryHasLiveWorker'
    <3>1. polls[c] \in Call
      BY <2>6 DEF PollDispatches, InFlight, TypeOK
    <3> QED
      BY <2>6, <3>1, DispatchKeepsWorkers DEF PollDispatches, Call
  <2>7. ASSUME NEW i \in Issues, NEW r \in RunIds, NEW s \in ActiveStates \cup {"inactive"},
               NEW w \in WorkerIds, DispatchMissionControl(i, r, s, w)
        PROVE  EntryHasLiveWorker'
    BY <2>7, DispatchKeepsWorkers, ConfigAssumption DEF DispatchMissionControl
  <2> QED
    BY <2>1, <2>2, <2>3, <2>4, <2>5, <2>6, <2>7, StepCases, ExitKeepsWorkers
    DEF Idle, core, RetryFires, PollRequeues, PollGone, AgentEvent, Stop
<1> QED
  BY <1>1, <1>2, TypeCorrect, PTL DEF Spec
-----------------------------------------------------------------------------
(* Mission Control's runs *)

\* A run bound to an issue was dispatched for that issue, which makes bindings
\* unique without comparing them.
AcceptedForIssue ==
    \A i \in Issues : missionControlBindings[i] # None
                        => accepted[missionControlBindings[i]] = i

BindingInv ==
    /\ \A i \in Issues : missionControlBindings[i] # None => running[i] # None
    /\ AcceptedForIssue

LEMMA BindingInvSuffices == ASSUME TypeOK, BindingInv PROVE BindingHasEntry
BY DEF TypeOK, BindingInv, AcceptedForIssue, BindingHasEntry, Running

LEMMA BindingStep == ASSUME TypeOK, BindingInv, [Next]_vars PROVE BindingInv'
<1> USE DEF BindingInv, AcceptedForIssue
<1>1. CASE Idle
  BY <1>1 DEF Idle, core
<1>2. ASSUME NEW S \in SUBSET Issues, TickStart(S) PROVE BindingInv'
  BY <1>2 DEF TickStart, Terminate, TypeOK
<1>3. ASSUME NEW i \in Issues, CloseNext(i) PROVE BindingInv'
  BY <1>3 DEF CloseNext, Terminate, core, TypeOK
<1>4. ASSUME NEW v \in BOOLEAN, CloseDone(v) PROVE BindingInv'
  BY <1>4, CloseDoneEntries DEF CloseDone
<1>5. ASSUME NEW i \in Issues, NEW w \in WorkerIds, DispatchNext(i, w) PROVE BindingInv'
  <2>1. answer[i] \in ActiveStates /\ 0 \in 0..AttemptCap
    BY <1>5, ConfigAssumption DEF DispatchNext, ShouldDispatch
  <2>2. \A j \in Issues : running[j] # None => running'[j] # None
    BY <1>5, <2>1, EntryNotNone DEF DispatchNext
  <2> QED
    BY <1>5, <2>2 DEF DispatchNext, Dispatch, TypeOK
<1>6. ASSUME NEW i \in Issues, NEW c \in CallIds, RetryFires(i, c) PROVE BindingInv'
  BY <1>6 DEF RetryFires
<1>7. ASSUME NEW c \in CallIds, PollRequeues(c) \/ PollGone(c) PROVE BindingInv'
  BY <1>7 DEF PollRequeues, PollGone
<1>8. ASSUME NEW c \in CallIds, NEW s \in ActiveStates, NEW w \in WorkerIds,
             PollDispatches(c, s, w)
      PROVE  BindingInv'
  <2>1. polls[c].issue \in Issues /\ polls[c].attempt \in 0..AttemptCap
    BY <1>8 DEF PollDispatches, InFlight, TypeOK, Call
  <2>2. \A j \in Issues : running[j] # None => running'[j] # None
    BY <1>8, <2>1, EntryNotNone DEF PollDispatches
  <2> QED
    BY <1>8, <2>1, <2>2 DEF PollDispatches, Dispatch, TypeOK
<1>9. ASSUME NEW w \in WorkerIds, AgentEvent(w) PROVE BindingInv'
  BY <1>9 DEF AgentEvent, core
<1>10. ASSUME NEW w \in WorkerIds, NEW o \in Outcomes, WorkerExit(w, o) PROVE BindingInv'
  BY <1>10 DEF WorkerExit, HandleWorkerExit, Live, TypeOK
<1>11. ASSUME NEW i \in Issues, NEW r \in RunIds, NEW s \in ActiveStates \cup {"inactive"},
              NEW w \in WorkerIds, DispatchMissionControl(i, r, s, w)
       PROVE  BindingInv'
  <2>1. Dispatch(i, s, 0, w, r) /\ accepted[r] = None /\ 0 \in 0..AttemptCap
    BY <1>11, ConfigAssumption DEF DispatchMissionControl
  <2>2. running'[i] # None /\ \A j \in Issues \ {i} : running'[j] = running[j]
    BY <2>1, EntryNotNone
  <2>3. ASSUME NEW j \in Issues, missionControlBindings[j] = r PROVE FALSE
    <3>1. r # None
      BY NoneAssumption
    <3>2. accepted[r] = j
      BY <2>3, <3>1
    <3> QED
      BY <2>1, <3>2, NoneAssumption
  <2>4. /\ missionControlBindings' = [missionControlBindings EXCEPT ![i] = r]
        /\ accepted' = [accepted EXCEPT ![r] = i]
    BY <1>11, <2>1 DEF DispatchMissionControl, Dispatch
  <2> QED
    BY <2>2, <2>3, <2>4 DEF TypeOK
<1>12. CASE Stop
  BY <1>12 DEF Stop
<1> QED
  BY <1>1, <1>2, <1>3, <1>4, <1>5, <1>6, <1>7, <1>8, <1>9, <1>10, <1>11, <1>12, StepCases

\* A Mission Control binding always has a running entry and never serves two
\* issues: once a run is over no later run of the issue reports under its name.
THEOREM BindingsHaveEntries == Spec => []BindingHasEntry
<1>1. Init => BindingInv
  BY DEF Init, BindingInv, AcceptedForIssue
<1>2. TypeOK /\ BindingInv /\ [Next]_vars => BindingInv'
  BY BindingStep
<1>3. TypeOK /\ BindingInv => BindingHasEntry
  BY BindingInvSuffices
<1> QED
  BY <1>1, <1>2, <1>3, TypeCorrect, PTL DEF Spec
\* A run about which more may be said: not dispatched yet, or bound to an issue.
Open(r) == accepted[r] = None \/ \E i \in Issues : missionControlBindings[i] = r

NoFinal(r) == \A k \in 1..Len(reports[r]) : reports[r][k] # "final"

FinalInv == FinalIsLast /\ \A r \in RunIds : Open(r) => NoFinal(r)

LEMMA ReportKeepsRunning ==
    ASSUME TypeOK, NEW r \in RunIds, NoFinal(r), Report(r, "running"), FinalInv,
           \A q \in RunIds : Open(q)' => Open(q)
    PROVE  FinalInv'
<1>1. reports[r] \in Seq({"running", "final"})
  BY DEF TypeOK
<1>2. NoFinal(r)'
  <2>1. reports'[r] = reports[r] \/ reports'[r] = Append(reports[r], "running")
    BY DEF Report, TypeOK
  <2> QED
    BY <1>1, <2>1 DEF NoFinal
<1>3. \A q \in RunIds \ {r} : reports'[q] = reports[q]
  BY DEF Report, TypeOK
<1> QED
  BY <1>2, <1>3 DEF FinalInv, FinalIsLast, NoFinal

LEMMA ReportFinal ==
    ASSUME TypeOK, NEW r \in RunIds, NoFinal(r), Report(r, "final"), FinalInv, ~Open(r)',
           \A q \in RunIds : Open(q)' => Open(q)
    PROVE  FinalInv'
<1>1. reports[r] \in Seq({"running", "final"})
  BY DEF TypeOK
<1>2. reports'[r] = Append(reports[r], "final")
  BY DEF Report, TypeOK
<1>3. \A k \in 1..Len(reports'[r]) : reports'[r][k] = "final" => k = Len(reports'[r])
  BY <1>1, <1>2 DEF NoFinal
<1>4. \A q \in RunIds \ {r} : reports'[q] = reports[q]
  BY DEF Report, TypeOK
<1> QED
  BY <1>3, <1>4 DEF FinalInv, FinalIsLast, NoFinal

LEMMA FinalStep ==
    ASSUME TypeOK, BindingInv, FinalInv, [Next]_vars PROVE FinalInv'
<1>1. ASSUME UNCHANGED reports, \A q \in RunIds : Open(q)' => Open(q) PROVE FinalInv'
  BY <1>1 DEF FinalInv, FinalIsLast, NoFinal
<1>2. ASSUME UNCHANGED accepted,
             \A i \in Issues : missionControlBindings'[i] \in {None, missionControlBindings[i]}
      PROVE  \A q \in RunIds : Open(q)' => Open(q)
  BY <1>2, NoneAssumption DEF Open
<1>3. CASE Idle
  BY <1>1, <1>2, <1>3 DEF Idle, core
<1>4. ASSUME NEW S \in SUBSET Issues, TickStart(S) PROVE FinalInv'
  BY <1>1, <1>2, <1>4 DEF TickStart, Terminate
<1>5. ASSUME NEW i \in Issues, CloseNext(i) PROVE FinalInv'
  BY <1>1, <1>2, <1>5 DEF CloseNext, Terminate, core
<1>6. ASSUME NEW v \in BOOLEAN, CloseDone(v) PROVE FinalInv'
  BY <1>1, <1>2, <1>6 DEF CloseDone
<1>7. ASSUME NEW i \in Issues, NEW w \in WorkerIds, DispatchNext(i, w) PROVE FinalInv'
  BY <1>1, <1>2, <1>7 DEF DispatchNext, Dispatch, TypeOK
<1>8. ASSUME NEW c \in CallIds, NEW s \in ActiveStates, NEW w \in WorkerIds,
             PollDispatches(c, s, w)
      PROVE  FinalInv'
  BY <1>1, <1>2, <1>8 DEF PollDispatches, Dispatch, TypeOK
<1>9. ASSUME NEW w \in WorkerIds, AgentEvent(w) PROVE FinalInv'
  <2> DEFINE r == missionControlBindings[workers[w]]
  <2>1. r \in RunIds /\ workers[w] \in Issues
    BY <1>9 DEF AgentEvent, Running, TypeOK
  <2>2. NoFinal(r)
    BY <2>1 DEF FinalInv, Open
  <2> QED
    BY <1>2, <1>9, <2>1, <2>2, ReportKeepsRunning DEF AgentEvent, core
<1>10. ASSUME NEW w \in WorkerIds, NEW o \in Outcomes, WorkerExit(w, o) PROVE FinalInv'
  <2>1. PICK i \in Issues : HandleWorkerExit(i, o) /\ UNCHANGED accepted
    BY <1>10 DEF WorkerExit, Live, TypeOK
  <2> PICK r \in RunIds \cup {None} : r = missionControlBindings[i]
    BY DEF TypeOK
  <2>2. \A j \in Issues : missionControlBindings'[j] \in {None, missionControlBindings[j]}
    BY <2>1 DEF HandleWorkerExit, TypeOK
  <2>3. CASE i \in Running /\ r # None /\ o \in Reported
    <3>1. r \in RunIds /\ Report(r, "final")
      BY <2>1, <2>3 DEF HandleWorkerExit, FinalCallback, TypeOK
    <3>2. NoFinal(r)
      BY <2>1, <3>1 DEF FinalInv, Open
    <3>3. accepted[r] = i
      BY <2>1, <2>3 DEF BindingInv, AcceptedForIssue
    <3>4. ASSUME NEW j \in Issues, missionControlBindings'[j] = r PROVE FALSE
      <4>1. missionControlBindings'[i] = None
        BY <2>1, <2>3 DEF HandleWorkerExit, TypeOK
      <4>2. j # i /\ missionControlBindings[j] = r
        BY <2>2, <2>3, <3>4, <4>1
      <4> QED
        BY <2>3, <3>3, <4>2 DEF BindingInv, AcceptedForIssue
    <3>5. ~Open(r)'
      BY <2>1, <3>3, <3>4, NoneAssumption DEF Open
    <3> QED
      BY <1>2, <2>1, <2>2, <3>1, <3>2, <3>5, ReportFinal
  <2>4. CASE ~(i \in Running /\ r # None /\ o \in Reported)
    <3>1. UNCHANGED reports
      BY <2>1, <2>4 DEF HandleWorkerExit, FinalCallback
    <3> QED
      BY <1>1, <1>2, <2>1, <2>2, <3>1
  <2> QED
    BY <2>3, <2>4
<1>11. ASSUME NEW i \in Issues, NEW r \in RunIds, NEW s \in ActiveStates \cup {"inactive"},
              NEW w \in WorkerIds, DispatchMissionControl(i, r, s, w)
       PROVE  FinalInv'
  <2>1. /\ missionControlBindings' = [missionControlBindings EXCEPT ![i] = r]
        /\ accepted[r] = None /\ accepted' = [accepted EXCEPT ![r] = i]
        /\ UNCHANGED reports
    BY <1>11 DEF DispatchMissionControl, Dispatch
  <2>2. ASSUME NEW q \in RunIds, Open(q)' PROVE Open(q)
    BY <2>1, <2>2 DEF Open, TypeOK
  <2> QED
    BY <1>1, <2>1, <2>2
<1> QED
  BY <1>1, <1>2, <1>3, <1>4, <1>5, <1>6, <1>7, <1>8, <1>9, <1>10, <1>11, StepCases
  DEF RetryFires, PollRequeues, PollGone, Stop

\* The final callback of a run is sent once and nothing follows it, whichever worker
\* of its issue ends it and whatever other workers of the issue still report.
THEOREM FinalsAreLast == Spec => []FinalIsLast
<1>1. Init => FinalInv
  BY DEF Init, FinalInv, FinalIsLast, NoFinal, Open
<1>2. TypeOK /\ BindingInv /\ FinalInv /\ [Next]_vars => FinalInv'
  BY FinalStep
<1>3. Init => BindingInv
  BY DEF Init, BindingInv, AcceptedForIssue
<1>4. TypeOK /\ BindingInv /\ [Next]_vars => BindingInv'
  BY BindingStep
<1>5. FinalInv => FinalIsLast
  BY DEF FinalInv
<1> QED
  BY <1>1, <1>2, <1>3, <1>4, <1>5, TypeCorrect, PTL DEF Spec
-----------------------------------------------------------------------------
(* Owners and claims, when only the tick and the retry queue dispatch *)

\* Without Mission Control no run is ever accepted, so no issue is ever bound.
NoRuns == \A i \in Issues : missionControlBindings[i] = None

LEMMA NoRunsStep ==
    ASSUME ~MissionControl, TypeOK, NoRuns, [Next]_vars PROVE NoRuns'
<1>1. UNCHANGED missionControlBindings => NoRuns'
  BY DEF NoRuns
<1>2. ASSUME NEW S \in SUBSET Issues, Terminate(S) PROVE NoRuns'
  BY <1>2 DEF Terminate, NoRuns
<1>3. ASSUME NEW i, NEW s, NEW a, NEW w, Dispatch(i, s, a, w, None) PROVE NoRuns'
  BY <1>3 DEF Dispatch, NoRuns, TypeOK
<1>4. ASSUME NEW w \in WorkerIds, NEW o \in Outcomes, WorkerExit(w, o) PROVE NoRuns'
  BY <1>4 DEF WorkerExit, HandleWorkerExit, NoRuns, TypeOK
<1>5. ASSUME NEW i \in Issues, CloseNext(i) PROVE NoRuns'
  BY <1>1, <1>2, <1>5 DEF CloseNext, core
<1>6. CASE Idle
  BY <1>1, <1>6 DEF Idle, core
<1> QED
  BY <1>1, <1>2, <1>3, <1>4, <1>5, <1>6, StepCases
  DEF TickStart, CloseDone, DispatchNext, RetryFires, PollRequeues, PollGone,
      PollDispatches, AgentEvent, DispatchMissionControl, Stop, core

OwnInv == ClaimedIffOwned /\ OneOwner

\* How a step moves an issue among the sets of owners.
LEMMA SamePolls == ASSUME UNCHANGED polls PROVE UNCHANGED <<InFlight, Polling>>
BY DEF InFlight, Polling

\* A poll that ends takes its issue, and no other, out of Polling.
LEMMA PollEnds ==
    ASSUME TypeOK, OneOwner, NEW c \in InFlight, polls' = [polls EXCEPT ![c] = None]
    PROVE  /\ polls[c].issue \in Issues /\ polls[c].attempt \in 0..AttemptCap
           /\ InFlight' = InFlight \ {c}
           /\ Polling' = Polling \ {polls[c].issue}
           /\ \A d, e \in InFlight' : polls'[d].issue = polls'[e].issue => d = e
<1>1. c \in CallIds /\ polls[c] \in Call
  BY DEF InFlight, TypeOK
<1>2. InFlight' = InFlight \ {c}
  BY <1>1 DEF InFlight, TypeOK
<1>3. \A d \in InFlight' : polls'[d] = polls[d]
  BY <1>2 DEF InFlight, TypeOK
<1>4. \A d \in InFlight \ {c} : polls[d].issue # polls[c].issue
  BY DEF OneOwner
<1>5. Polling' = {polls[d].issue : d \in InFlight \ {c}}
  BY <1>2, <1>3 DEF Polling
<1> QED
  BY <1>1, <1>2, <1>3, <1>4, <1>5 DEF Polling, OneOwner, Call

\* A retry that fires adds its issue, and no other, to Polling.
LEMMA PollBegins ==
    ASSUME TypeOK, OneOwner, NEW c \in CallIds, polls[c] = None,
           NEW i \in Issues \ Polling, NEW a \in 0..AttemptCap,
           polls' = [polls EXCEPT ![c] = [issue |-> i, attempt |-> a]]
    PROVE  /\ InFlight' = InFlight \cup {c}
           /\ Polling' = Polling \cup {i}
           /\ polls'[c].attempt = a
           /\ \A d, e \in InFlight' : polls'[d].issue = polls'[e].issue => d = e
<1> DEFINE call == [issue |-> i, attempt |-> a]
<1>1. call # None
  BY NoneAssumption
<1>2. polls'[c] = call /\ \A d \in CallIds \ {c} : polls'[d] = polls[d]
  BY DEF TypeOK
<1>3. InFlight' = InFlight \cup {c} /\ c \notin InFlight
  BY <1>1, <1>2 DEF InFlight
<1>4. \A d \in InFlight : polls'[d] = polls[d] /\ polls[d].issue # i
  BY <1>2, <1>3 DEF InFlight, Polling
<1>5. Polling' = {polls'[d].issue : d \in InFlight} \cup {i}
  BY <1>2, <1>3 DEF Polling
<1>6. {polls'[d].issue : d \in InFlight} = Polling
  BY <1>4 DEF Polling
<1> QED
  BY <1>2, <1>3, <1>4, <1>5, <1>6 DEF OneOwner

LEMMA DispatchOwns ==
    ASSUME TypeOK, NEW i \in Issues, NEW s \in ActiveStates \cup {"inactive"},
           NEW a \in 0..AttemptCap, NEW w \in WorkerIds, NEW b,
           Dispatch(i, s, a, w, b)
    PROVE  /\ Running' = Running \cup {i}
           /\ Retrying' = Retrying \ {i}
           /\ claimed' = claimed \cup {i}
<1>1. running'[i] # None /\ \A j \in Issues \ {i} : running'[j] = running[j]
  BY EntryNotNone
<1> QED
  BY <1>1 DEF Dispatch, Running, Retrying, TypeOK

LEMMA OwnStep ==
    ASSUME ~MissionControl, ~StallDetection, TypeOK, NoRuns, OwnInv, [Next]_vars
    PROVE  OwnInv'
<1> USE DEF OwnInv, ClaimedIffOwned, Owned
<1>1. ASSUME UNCHANGED <<Running, Retrying, claimed, polls>>, life' = "up" => life = "up"
      PROVE  OwnInv'
  BY <1>1, SamePolls DEF OneOwner
<1>2. CASE Idle
  BY <1>1, <1>2 DEF Idle, core, Running, Retrying
<1>3. ASSUME NEW S \in SUBSET Issues, TickStart(S) PROVE OwnInv'
  <2>1. S = {}
    BY <1>3 DEF TickStart
  <2> QED
    BY <1>1, <1>3, <2>1 DEF TickStart, Terminate, Running, Retrying, TypeOK
<1>4. ASSUME NEW i \in Issues, CloseNext(i) PROVE OwnInv'
  <2>1. CASE i \in Running
    <3>1. /\ Running' = Running \ {i} /\ Retrying' = Retrying \ {i}
          /\ claimed' = claimed \ {i} /\ UNCHANGED <<polls, life>>
      BY <1>4, <2>1 DEF CloseNext, Terminate, Running, Retrying, TypeOK
    <3> QED
      BY <2>1, <3>1, SamePolls DEF OneOwner
  <2>2. CASE i \notin Running
    BY <1>1, <1>4, <2>2 DEF CloseNext, core, Running, Retrying
  <2> QED
    BY <2>1, <2>2
<1>5. ASSUME NEW v \in BOOLEAN, CloseDone(v) PROVE OwnInv'
  BY <1>1, <1>5, CloseDoneEntries DEF CloseDone, Running, Retrying
<1>6. ASSUME NEW i \in Issues, NEW w \in WorkerIds, DispatchNext(i, w) PROVE OwnInv'
  <2>1. /\ answer[i] \in ActiveStates /\ i \notin claimed
        /\ Dispatch(i, answer[i], 0, w, None) /\ UNCHANGED <<polls, life>>
    BY <1>6 DEF DispatchNext, ShouldDispatch
  <2>2. /\ Running' = Running \cup {i} /\ Retrying' = Retrying \ {i}
        /\ claimed' = claimed \cup {i}
    BY <2>1, DispatchOwns, ConfigAssumption
  <2> QED
    BY <2>1, <2>2, SamePolls DEF OneOwner
<1>7. ASSUME NEW i \in Issues, NEW c \in CallIds, RetryFires(i, c) PROVE OwnInv'
  <2>1. i \in Retrying /\ i \notin Polling /\ retry_attempts[i] \in 0..AttemptCap
    BY <1>7 DEF RetryFires, OneOwner, TypeOK
  <2>2. Running' = Running /\ Retrying' = Retrying \ {i} /\ UNCHANGED <<claimed, life>>
    BY <1>7 DEF RetryFires, Running, Retrying, TypeOK
  <2>3. /\ Polling' = Polling \cup {i}
        /\ \A d, e \in InFlight' : polls'[d].issue = polls'[e].issue => d = e
    BY <1>7, <2>1, PollBegins DEF RetryFires
  <2> QED
    BY <2>1, <2>2, <2>3 DEF OneOwner
<1>8. ASSUME NEW c \in CallIds, PollRequeues(c) PROVE OwnInv'
  <2>1. c \in InFlight /\ polls' = [polls EXCEPT ![c] = None]
    BY <1>8 DEF PollRequeues
  <2>2. /\ polls[c].issue \in Issues /\ polls[c].attempt \in 0..AttemptCap
        /\ Polling' = Polling \ {polls[c].issue}
        /\ \A d, e \in InFlight' : polls'[d].issue = polls'[e].issue => d = e
    BY <2>1, PollEnds
  <2>3. polls[c].issue \in Polling
    BY <2>1 DEF Polling
  <2>4. Bump(polls[c].attempt) # 0
    BY <2>2, BumpType, ConfigAssumption
  <2>5. /\ Running' = Running /\ Retrying' = Retrying \cup {polls[c].issue}
        /\ UNCHANGED <<claimed, life>>
    BY <1>8, <2>2, <2>4 DEF PollRequeues, Running, Retrying, TypeOK
  <2> QED
    BY <2>2, <2>3, <2>5 DEF OneOwner
<1>9. ASSUME NEW c \in CallIds, PollGone(c) PROVE OwnInv'
  <2>1. c \in InFlight /\ polls' = [polls EXCEPT ![c] = None]
    BY <1>9 DEF PollGone
  <2>2. /\ Polling' = Polling \ {polls[c].issue}
        /\ \A d, e \in InFlight' : polls'[d].issue = polls'[e].issue => d = e
    BY <2>1, PollEnds
  <2>3. polls[c].issue \in Polling
    BY <2>1 DEF Polling
  <2>4. /\ UNCHANGED <<Running, Retrying, life>> /\ claimed' = claimed \ {polls[c].issue}
    BY <1>9 DEF PollGone, Running, Retrying
  <2> QED
    BY <2>2, <2>3, <2>4 DEF OneOwner
<1>10. ASSUME NEW c \in CallIds, NEW s \in ActiveStates, NEW w \in WorkerIds,
              PollDispatches(c, s, w)
       PROVE  OwnInv'
  <2>1. /\ c \in InFlight /\ polls' = [polls EXCEPT ![c] = None] /\ UNCHANGED life
        /\ Dispatch(polls[c].issue, s, polls[c].attempt, w, None)
    BY <1>10 DEF PollDispatches
  <2>2. /\ polls[c].issue \in Issues /\ polls[c].attempt \in 0..AttemptCap
        /\ Polling' = Polling \ {polls[c].issue}
        /\ \A d, e \in InFlight' : polls'[d].issue = polls'[e].issue => d = e
    BY <2>1, PollEnds
  <2>3. polls[c].issue \in Polling
    BY <2>1 DEF Polling
  <2>4. /\ Running' = Running \cup {polls[c].issue}
        /\ Retrying' = Retrying \ {polls[c].issue}
        /\ claimed' = claimed \cup {polls[c].issue}
    BY <2>1, <2>2, DispatchOwns
  <2> QED
    BY <2>1, <2>2, <2>3, <2>4 DEF OneOwner
<1>11. ASSUME NEW w \in WorkerIds, AgentEvent(w) PROVE OwnInv'
  BY <1>1, <1>11 DEF AgentEvent, core, Running, Retrying
<1>12. ASSUME NEW w \in WorkerIds, NEW o \in Outcomes, WorkerExit(w, o) PROVE OwnInv'
  <2>1. PICK i \in Issues : HandleWorkerExit(i, o)
    BY <1>12 DEF WorkerExit, Live, TypeOK
  <2>2. UNCHANGED <<claimed, polls, life>>
    BY <1>12 DEF WorkerExit
  <2>3. CASE i \in Running
    <3>1. retry_attempts' = [retry_attempts EXCEPT ![i] =
                               IF o = "normal" THEN 1 ELSE Bump(running[i].attempt)]
      BY <2>1, <2>3 DEF HandleWorkerExit, NoRuns
    <3>2. running[i].attempt \in 0..AttemptCap
      BY <2>3 DEF Running, TypeOK, Entry
    <3>3. (IF o = "normal" THEN 1 ELSE Bump(running[i].attempt)) # 0
      BY <3>2, BumpType, ConfigAssumption
    <3>4. Retrying' = Retrying \cup {i}
      BY <3>1, <3>3 DEF Retrying, TypeOK
    <3>5. Running' = Running \ {i}
      BY <2>1, <2>3 DEF HandleWorkerExit, Running, TypeOK
    <3> QED
      BY <2>2, <2>3, <3>4, <3>5, SamePolls DEF OneOwner
  <2>4. CASE i \notin Running
    BY <1>1, <2>1, <2>2, <2>4 DEF HandleWorkerExit, Running, Retrying
  <2> QED
    BY <2>3, <2>4
<1>13. CASE Stop
  <2>1. /\ Retrying' = {} /\ UNCHANGED <<Running, polls, claimed>> /\ life' # "up"
    BY <1>13 DEF Stop, Running, Retrying
  <2> QED
    BY <2>1, SamePolls DEF OneOwner
<1> QED
  BY <1>2, <1>3, <1>4, <1>5, <1>6, <1>7, <1>8, <1>9, <1>10, <1>11, <1>12, <1>13, StepCases
  DEF DispatchMissionControl
\* As long as only the tick and the retry queue dispatch and no run stalls, the
\* claims are exactly the owned issues and an issue has one owner, whatever the
\* tracker answers and however late, and whichever workers outlive their entry.
THEOREM ClaimsMatchOwners ==
    ASSUME ~MissionControl, ~StallDetection
    PROVE  Spec => [](ClaimedIffOwned /\ OneOwner)
<1>1. Init => NoRuns /\ OwnInv
  BY DEF Init, NoRuns, OwnInv, ClaimedIffOwned, OneOwner, Owned, Running, Retrying,
         Polling, InFlight
<1>2. TypeOK /\ NoRuns /\ [Next]_vars => NoRuns'
  BY NoRunsStep
<1>3. TypeOK /\ NoRuns /\ OwnInv /\ [Next]_vars => OwnInv'
  BY OwnStep
<1>4. OwnInv => ClaimedIffOwned /\ OneOwner
  BY DEF OwnInv
<1> QED
  BY <1>1, <1>2, <1>3, <1>4, TypeCorrect, PTL DEF Spec

-----------------------------------------------------------------------------
(* Claims without an owner, with every feature *)

Leaks == claimed \ Owned
Dispatched(i) == \E r \in RunIds : accepted[r] = i

\* A poll that ends takes at most its own issue out of Polling, if another poll of it
\* goes on not even that; one that begins takes none out.
LEMMA PollEndKeeps ==
    ASSUME TypeOK, NEW c \in InFlight, polls' = [polls EXCEPT ![c] = None]
    PROVE  /\ polls[c].issue \in Issues /\ polls[c].attempt \in 0..AttemptCap
           /\ Polling \ {polls[c].issue} \subseteq Polling'
<1>1. polls[c] \in Call
  BY DEF InFlight, TypeOK
<1>2. \A d \in InFlight \ {c} : d \in InFlight' /\ polls'[d] = polls[d]
  BY DEF InFlight, TypeOK
<1> QED
  BY <1>1, <1>2 DEF Polling, Call

LEMMA PollBeginKeeps ==
    ASSUME TypeOK, NEW c \in CallIds, polls[c] = None, NEW i \in Issues,
           NEW a \in 0..AttemptCap, polls' = [polls EXCEPT ![c] = [issue |-> i, attempt |-> a]]
    PROVE  Polling \cup {i} \subseteq Polling'
<1> DEFINE call == [issue |-> i, attempt |-> a]
<1>1. call # None /\ call.issue = i
  BY NoneAssumption
<1>2. polls'[c] = call /\ \A d \in CallIds \ {c} : polls'[d] = polls[d]
  BY DEF TypeOK
<1>3. c \in InFlight' /\ \A d \in InFlight : d \in InFlight' /\ polls'[d] = polls[d]
  BY <1>1, <1>2 DEF InFlight
<1> QED
  BY <1>1, <1>2, <1>3 DEF Polling

\* Only the exit of a bound run leaves a claim behind.
LEMMA LeakStep ==
    ASSUME TypeOK, BindingInv, [Next]_vars, life' = "up", ClaimsLeakOnlyForMissionControl
    PROVE  ClaimsLeakOnlyForMissionControl'
<1> USE DEF Owned
<1>1. ASSUME Leaks' \subseteq Leaks, life = "up",
             \A i \in Issues : Dispatched(i) => Dispatched(i)'
      PROVE  ClaimsLeakOnlyForMissionControl'
  <2> SUFFICES ASSUME NEW i \in Leaks' PROVE Dispatched(i)'
    BY DEF ClaimsLeakOnlyForMissionControl, Leaks, Dispatched
  <2>1. i \in Leaks /\ i \in Issues
    BY <1>1 DEF Leaks, TypeOK
  <2> QED
    BY <1>1, <2>1 DEF ClaimsLeakOnlyForMissionControl, Leaks, Dispatched
<1>2. UNCHANGED accepted => \A i \in Issues : Dispatched(i) => Dispatched(i)'
  BY DEF Dispatched
<1>3. ASSUME UNCHANGED <<Running, Retrying, claimed, polls, accepted>>, life = "up"
      PROVE  ClaimsLeakOnlyForMissionControl'
  BY <1>1, <1>2, <1>3, SamePolls DEF Leaks
<1>4. CASE Idle
  BY <1>3, <1>4 DEF Idle, core, Running, Retrying
<1>5. ASSUME NEW S \in SUBSET Issues, TickStart(S) PROVE ClaimsLeakOnlyForMissionControl'
  <2>1. /\ claimed' = claimed \ S /\ Running' = Running \ S /\ Retrying \subseteq Retrying'
        /\ UNCHANGED <<polls, accepted, life>>
    BY <1>5 DEF TickStart, Terminate, Running, Retrying, TypeOK
  <2> QED
    BY <1>1, <1>2, <2>1, SamePolls DEF Leaks
<1>6. ASSUME NEW i \in Issues, CloseNext(i) PROVE ClaimsLeakOnlyForMissionControl'
  <2>1. CASE i \in Running
    <3>1. /\ Running' = Running \ {i} /\ Retrying' = Retrying \ {i}
          /\ claimed' = claimed \ {i} /\ UNCHANGED <<polls, accepted, life>>
      BY <1>6, <2>1 DEF CloseNext, Terminate, Running, Retrying, TypeOK
    <3> QED
      BY <1>1, <1>2, <3>1, SamePolls DEF Leaks
  <2>2. CASE i \notin Running
    BY <1>3, <1>6, <2>2 DEF CloseNext, core, Running, Retrying
  <2> QED
    BY <2>1, <2>2
<1>7. ASSUME NEW v \in BOOLEAN, CloseDone(v) PROVE ClaimsLeakOnlyForMissionControl'
  BY <1>3, <1>7, CloseDoneEntries DEF CloseDone, Running, Retrying
\* Whoever dispatches an issue owns it.
<1>8. ASSUME NEW i \in Issues, NEW s \in ActiveStates \cup {"inactive"}, NEW a \in 0..AttemptCap,
             NEW w \in WorkerIds, NEW b, Dispatch(i, s, a, w, b), Polling \ {i} \subseteq Polling',
             life = "up", \A j \in Issues : Dispatched(j) => Dispatched(j)'
      PROVE  ClaimsLeakOnlyForMissionControl'
  <2>1. /\ Running' = Running \cup {i} /\ Retrying' = Retrying \ {i}
        /\ claimed' = claimed \cup {i}
    BY <1>8, DispatchOwns
  <2> QED
    BY <1>1, <1>8, <2>1 DEF Leaks
<1>9. ASSUME NEW i \in Issues, NEW w \in WorkerIds, DispatchNext(i, w)
      PROVE  ClaimsLeakOnlyForMissionControl'
  <2>1. /\ answer[i] \in ActiveStates /\ Dispatch(i, answer[i], 0, w, None)
        /\ UNCHANGED <<polls, accepted, life>> /\ 0 \in 0..AttemptCap
    BY <1>9, ConfigAssumption DEF DispatchNext, ShouldDispatch
  <2> QED
    BY <1>2, <1>8, <2>1, SamePolls
<1>10. ASSUME NEW i \in Issues, NEW c \in CallIds, RetryFires(i, c)
       PROVE  ClaimsLeakOnlyForMissionControl'
  <2>1. Polling \cup {i} \subseteq Polling'
    BY <1>10, PollBeginKeeps DEF RetryFires, TypeOK
  <2>2. Running' = Running /\ Retrying' = Retrying \ {i} /\ UNCHANGED <<claimed, life, accepted>>
    BY <1>10 DEF RetryFires, Running, Retrying, TypeOK
  <2> QED
    BY <1>1, <1>2, <2>1, <2>2 DEF Leaks
<1>11. ASSUME NEW c \in CallIds, PollRequeues(c) PROVE ClaimsLeakOnlyForMissionControl'
  <2>1. c \in InFlight /\ polls' = [polls EXCEPT ![c] = None]
    BY <1>11 DEF PollRequeues
  <2>2. /\ polls[c].issue \in Issues /\ polls[c].attempt \in 0..AttemptCap
        /\ Polling \ {polls[c].issue} \subseteq Polling'
    BY <2>1, PollEndKeeps
  <2>3. Bump(polls[c].attempt) # 0
    BY <2>2, BumpType, ConfigAssumption
  <2>4. /\ Running' = Running /\ Retrying' = Retrying \cup {polls[c].issue}
        /\ UNCHANGED <<claimed, life, accepted>>
    BY <1>11, <2>2, <2>3 DEF PollRequeues, Running, Retrying, TypeOK
  <2> QED
    BY <1>1, <1>2, <2>2, <2>4 DEF Leaks
<1>12. ASSUME NEW c \in CallIds, PollGone(c) PROVE ClaimsLeakOnlyForMissionControl'
  <2>1. c \in InFlight /\ polls' = [polls EXCEPT ![c] = None]
    BY <1>12 DEF PollGone
  <2>2. Polling \ {polls[c].issue} \subseteq Polling'
    BY <2>1, PollEndKeeps
  <2>3. /\ UNCHANGED <<Running, Retrying, life, accepted>>
        /\ claimed' = claimed \ {polls[c].issue}
    BY <1>12 DEF PollGone, Running, Retrying
  <2> QED
    BY <1>1, <1>2, <2>2, <2>3 DEF Leaks
<1>13. ASSUME NEW c \in CallIds, NEW s \in ActiveStates, NEW w \in WorkerIds,
              PollDispatches(c, s, w)
       PROVE  ClaimsLeakOnlyForMissionControl'
  <2>1. /\ c \in InFlight /\ polls' = [polls EXCEPT ![c] = None] /\ UNCHANGED <<accepted, life>>
        /\ Dispatch(polls[c].issue, s, polls[c].attempt, w, None)
    BY <1>13 DEF PollDispatches
  <2>2. /\ polls[c].issue \in Issues /\ polls[c].attempt \in 0..AttemptCap
        /\ Polling \ {polls[c].issue} \subseteq Polling'
    BY <2>1, PollEndKeeps
  <2> QED
    BY <1>2, <1>8, <2>1, <2>2
<1>14. ASSUME NEW w \in WorkerIds, AgentEvent(w) PROVE ClaimsLeakOnlyForMissionControl'
  BY <1>3, <1>14 DEF AgentEvent, core, Running, Retrying
<1>15. ASSUME NEW w \in WorkerIds, NEW o \in Outcomes, WorkerExit(w, o)
       PROVE  ClaimsLeakOnlyForMissionControl'
  <2>1. PICK i \in Issues : HandleWorkerExit(i, o)
    BY <1>15 DEF WorkerExit, Live, TypeOK
  <2>2. UNCHANGED <<claimed, polls, life, accepted>>
    BY <1>15 DEF WorkerExit
  <2>3. CASE i \notin Running
    BY <1>3, <2>1, <2>2, <2>3 DEF HandleWorkerExit, Running, Retrying
  <2>4. CASE i \in Running /\ missionControlBindings[i] = None
    <3>1. retry_attempts' = [retry_attempts EXCEPT ![i] =
                               IF o = "normal" THEN 1 ELSE Bump(running[i].attempt)]
      BY <2>1, <2>4 DEF HandleWorkerExit
    <3>2. running[i].attempt \in 0..AttemptCap
      BY <2>4 DEF Running, TypeOK, Entry
    <3>3. (IF o = "normal" THEN 1 ELSE Bump(running[i].attempt)) # 0
      BY <3>2, BumpType, ConfigAssumption
    <3>4. Retrying' = Retrying \cup {i}
      BY <3>1, <3>3 DEF Retrying, TypeOK
    <3>5. Running' = Running \ {i}
      BY <2>1, <2>4 DEF HandleWorkerExit, Running, TypeOK
    <3> QED
      BY <1>1, <1>2, <2>2, <3>4, <3>5, SamePolls DEF Leaks
  <2>5. CASE i \in Running /\ missionControlBindings[i] # None
    <3>1. Running' = Running \ {i} /\ Retrying' = Retrying
      BY <2>1, <2>5 DEF HandleWorkerExit, Running, Retrying, TypeOK
    <3>2. Leaks' \subseteq Leaks \cup {i}
      BY <2>2, <3>1, SamePolls DEF Leaks
    <3>3. Dispatched(i)
      BY <2>5 DEF BindingInv, AcceptedForIssue, Dispatched, TypeOK
    <3>4. \A j \in Leaks : Dispatched(j)
      BY <2>2 DEF ClaimsLeakOnlyForMissionControl, Leaks, Dispatched
    <3>5. \A j \in Leaks' : Dispatched(j)'
      BY <2>2, <3>2, <3>3, <3>4 DEF Dispatched
    <3> QED
      BY <3>5 DEF ClaimsLeakOnlyForMissionControl, Leaks, Dispatched
  <2> QED
    BY <2>3, <2>4, <2>5
<1>16. ASSUME NEW i \in Issues, NEW r \in RunIds, NEW s \in ActiveStates \cup {"inactive"},
              NEW w \in WorkerIds, DispatchMissionControl(i, r, s, w)
       PROVE  ClaimsLeakOnlyForMissionControl'
  <2>1. /\ Dispatch(i, s, 0, w, r) /\ accepted[r] = None /\ 0 \in 0..AttemptCap
        /\ accepted' = [accepted EXCEPT ![r] = i] /\ UNCHANGED <<polls, life>>
    BY <1>16, ConfigAssumption DEF DispatchMissionControl
  <2>2. \A j \in Issues : Dispatched(j) => Dispatched(j)'
    BY <2>1, NoneAssumption DEF Dispatched, TypeOK
  <2> QED
    BY <1>8, <2>1, <2>2, SamePolls
<1> QED
  BY <1>4, <1>5, <1>6, <1>7, <1>9, <1>10, <1>11, <1>12, <1>13, <1>14, <1>15, <1>16, StepCases
  DEF Stop

\* Whichever features are on and however the dispatchers, the reconciler and workers
\* without an entry get into each other's way, an issue that is claimed and that nobody
\* owns is one that Mission Control dispatched.
THEOREM LeaksHaveCause == Spec => []ClaimsLeakOnlyForMissionControl
<1>1. Init => ClaimsLeakOnlyForMissionControl
  BY DEF Init, ClaimsLeakOnlyForMissionControl
<1>2. TypeOK /\ BindingInv /\ ClaimsLeakOnlyForMissionControl /\ [Next]_vars
        => ClaimsLeakOnlyForMissionControl'
  BY LeakStep DEF ClaimsLeakOnlyForMissionControl
<1>3. Init => BindingInv
  BY DEF Init, BindingInv, AcceptedForIssue
<1>4. TypeOK /\ BindingInv /\ [Next]_vars => BindingInv'
  BY BindingStep
<1> QED
  BY <1>1, <1>2, <1>3, <1>4, TypeCorrect, PTL DEF Spec

-----------------------------------------------------------------------------
(* What stop() waits for *)

\* Of an issue's workers the one with its entry is the one whose promise is in the map.
LEMMA PromisesAreOwners ==
    ASSUME TypeOK, EntryHasLiveWorker
    PROVE  {workerPromises[i] : i \in Issues} \ {None} = Live \ Zombies
<1> DEFINE Promised == {workerPromises[i] : i \in Issues} \ {None}
<1>1. ASSUME NEW w \in Promised PROVE w \in Live \ Zombies
  <2>1. PICK i \in Issues : workerPromises[i] = w /\ w # None
    BY <1>1
  <2>2. running[i] # None /\ running[i].worker = w /\ workers[w] = i /\ w \in WorkerIds
    BY <2>1 DEF EntryHasLiveWorker, TypeOK
  <2> QED
    BY <2>2, NoneAssumption DEF Live, Zombies, Owns
<1>2. ASSUME NEW w \in Live \ Zombies PROVE w \in Promised
  <2>1. w \in WorkerIds /\ workers[w] \in Issues /\ Owns(w)
    BY <1>2 DEF Live, Zombies, TypeOK
  <2>2. workerPromises[workers[w]] = w
    BY <2>1 DEF Owns, EntryHasLiveWorker
  <2> QED
    BY <2>1, <2>2, NoneAssumption
<1> QED
  BY <1>1, <1>2

\* A worker once waited for is at work until its exit is seen: stop() never waits for a
\* promise that has settled, whatever is dispatched and terminated meanwhile.
AwaitedAreLive == awaited \subseteq Live

LEMMA LiveKept ==
    ASSUME TypeOK, [Next]_vars, ~\E w \in WorkerIds, o \in Outcomes : WorkerExit(w, o)
    PROVE  Live \subseteq Live' /\ (StopWaits \/ awaited' = awaited)
<1>1. ASSUME UNCHANGED workers PROVE Live' = Live
  BY <1>1 DEF Live
<1>2. ASSUME NEW i \in Issues, NEW s, NEW a, NEW w, NEW b, Dispatch(i, s, a, w, b)
      PROVE  Live \subseteq Live'
  BY <1>2, NoneAssumption DEF Dispatch, Live, TypeOK
<1>3. ASSUME NEW S \in SUBSET Issues, Terminate(S) PROVE Live' = Live
  BY <1>1, <1>3 DEF Terminate
<1>4. ASSUME NEW c \in CallIds, NEW s \in ActiveStates, NEW w \in WorkerIds,
             PollDispatches(c, s, w)
      PROVE  Live \subseteq Live' /\ awaited' = awaited
  <2>1. polls[c].issue \in Issues
    BY <1>4 DEF PollDispatches, InFlight, TypeOK, Call
  <2> QED
    BY <1>2, <1>4, <2>1 DEF PollDispatches
<1>5. ASSUME NEW i \in Issues, CloseNext(i) PROVE Live' = Live /\ awaited' = awaited
  BY <1>1, <1>3, <1>5 DEF CloseNext, core
<1>6. CASE UNCHANGED <<workers, awaited>>
  BY <1>1, <1>6
<1>7. ASSUME NEW i \in Issues, NEW w \in WorkerIds, DispatchNext(i, w)
      PROVE  Live \subseteq Live' /\ awaited' = awaited
  BY <1>2, <1>7 DEF DispatchNext
<1>8. ASSUME NEW i \in Issues, NEW r \in RunIds, NEW s \in ActiveStates \cup {"inactive"},
             NEW w \in WorkerIds, DispatchMissionControl(i, r, s, w)
      PROVE  Live \subseteq Live' /\ awaited' = awaited
  BY <1>2, <1>8 DEF DispatchMissionControl
<1>9. ASSUME NEW S \in SUBSET Issues, TickStart(S) PROVE Live' = Live /\ awaited' = awaited
  BY <1>3, <1>9 DEF TickStart
<1>10. ASSUME StopWaits PROVE Live' = Live
  BY <1>1, <1>10 DEF StopWaits, core
<1> QED
  BY <1>4, <1>5, <1>6, <1>7, <1>8, <1>9, <1>10
  DEF Next, TickStep, RetryStep, WorkerStep, OutsideStep, StopStep, vars, core,
      RefreshAnswered, RefreshFails, Removed, CloseDone, ListFails, ListAnswered, SyncDone,
      DispatchEnd, RetryFires, PollFails, PollFindsNoSlot, PollRequeues, PollGone, AgentEvent,
      WorkflowChange, Settle, Stop, StopReturns

\* Whoever stop() waits for is a worker that is still at work, not a promise that has
\* settled and whose exit was handled already.
THEOREM AwaitedAtWork == Spec => []AwaitedAreLive
<1>1. Init => AwaitedAreLive
  BY DEF Init, AwaitedAreLive
<1>2. ASSUME TypeOK, EntryHasLiveWorker, AwaitedAreLive, [Next]_vars PROVE AwaitedAreLive'
  <2>1. ASSUME NEW w \in WorkerIds, NEW o \in Outcomes, WorkerExit(w, o)
        PROVE  AwaitedAreLive'
    BY <1>2, <2>1 DEF WorkerExit, AwaitedAreLive, Live, TypeOK
  <2>2. CASE StopWaits
    BY <1>2, <2>2, PromisesAreOwners DEF StopWaits, core, AwaitedAreLive, Live
  <2>3. CASE Live \subseteq Live' /\ awaited' = awaited
    BY <1>2, <2>3 DEF AwaitedAreLive
  <2> QED
    BY <1>2, <2>1, <2>2, <2>3, LiveKept
<1> QED
  BY <1>1, <1>2, TypeCorrect, EntriesHaveWorkers, PTL DEF Spec

-----------------------------------------------------------------------------
(* Who is at work when stop() returns *)

\* An entry is for a worker that had one, or that was not at work before.
LEMMA EntriesAreOldOrNew ==
    ASSUME TypeOK, [Next]_vars, NEW i \in Issues, running'[i] # None
    PROVE  \/ running[i] # None /\ running'[i].worker = running[i].worker
           \/ workers[running'[i].worker] = None
<1> DEFINE Goal == \/ running[i] # None /\ running'[i].worker = running[i].worker
                   \/ workers[running'[i].worker] = None
<1>1. CASE running'[i] = running[i]
  BY <1>1
<1>2. ASSUME NEW j \in Issues, NEW s, NEW a, NEW w, NEW b, Dispatch(j, s, a, w, b) PROVE Goal
  <2>1. CASE i = j
    BY <1>2, <2>1 DEF Dispatch, TypeOK
  <2>2. CASE i # j
    BY <1>1, <1>2, <2>2 DEF Dispatch, TypeOK
  <2> QED
    BY <2>1, <2>2
<1>3. ASSUME NEW S \in SUBSET Issues, Terminate(S) PROVE Goal
  BY <1>1, <1>3 DEF Terminate
<1>4. ASSUME NEW c \in CallIds, NEW s \in ActiveStates, NEW w \in WorkerIds,
             PollDispatches(c, s, w)
      PROVE  Goal
  <2>1. polls[c].issue \in Issues
    BY <1>4 DEF PollDispatches, InFlight, TypeOK, Call
  <2> QED
    BY <1>2, <1>4, <2>1 DEF PollDispatches
<1>5. ASSUME NEW w \in WorkerIds, NEW o \in Outcomes, WorkerExit(w, o) PROVE Goal
  BY <1>1, <1>5 DEF WorkerExit, HandleWorkerExit, TypeOK
<1>6. ASSUME NEW v \in BOOLEAN, CloseDone(v) PROVE Goal
  BY <1>6, CloseDoneEntries
<1> HIDE DEF Goal
<1>7. Goal
  BY <1>1, <1>2, <1>3, <1>4, <1>5, <1>6, StepCases
  DEF Goal, Idle, core, TickStart, CloseNext, DispatchNext, RetryFires, PollRequeues, PollGone,
      AgentEvent, DispatchMissionControl, Stop
<1> QED
  BY <1>7 DEF Goal

\* A worker works on one issue until it ends.
LEMMA IssueKept ==
    ASSUME TypeOK, [Next]_vars, NEW w \in Live, w \in Live' PROVE workers'[w] = workers[w]
<1> DEFINE Goal == workers'[w] = workers[w]
<1>0. w \in WorkerIds /\ workers[w] # None /\ workers'[w] # None
  BY DEF Live
<1>1. ASSUME UNCHANGED workers PROVE Goal
  BY <1>1
<1>2. ASSUME NEW j \in Issues, NEW s, NEW a, NEW v, NEW b, Dispatch(j, s, a, v, b) PROVE Goal
  BY <1>0, <1>2 DEF Dispatch, TypeOK
<1>3. ASSUME NEW c \in CallIds, NEW s \in ActiveStates, NEW v \in WorkerIds,
             PollDispatches(c, s, v)
      PROVE  Goal
  <2>1. polls[c].issue \in Issues
    BY <1>3 DEF PollDispatches, InFlight, TypeOK, Call
  <2> QED
    BY <1>2, <1>3, <2>1 DEF PollDispatches
<1>4. ASSUME NEW v \in WorkerIds, NEW o \in Outcomes, WorkerExit(v, o) PROVE Goal
  BY <1>0, <1>4 DEF WorkerExit, TypeOK
<1> HIDE DEF Goal
<1>5. Goal
  BY <1>1, <1>2, <1>3, <1>4, StepCases
  DEF Idle, core, TickStart, Terminate, CloseNext, CloseDone, DispatchNext, RetryFires,
      PollRequeues, PollGone, AgentEvent, DispatchMissionControl, Stop
<1> QED
  BY <1>5 DEF Goal

\* A worker that has lost its entry never has one again.
LEMMA ZombiesStay == ASSUME TypeOK, [Next]_vars PROVE Zombies \cap Live' \subseteq Zombies'
<1> SUFFICES ASSUME NEW z \in Zombies, z \in Live', Owns(z)' PROVE FALSE
  BY DEF Zombies
<1> DEFINE i == workers[z]
<1>1. z \in Live /\ ~Owns(z) /\ workers[z] # None /\ i \in Issues
  BY DEF Zombies, Live, TypeOK
<1>2. workers'[z] = i
  BY <1>1, IssueKept
<1>3. running'[i] # None /\ running'[i].worker = z
  BY <1>2 DEF Owns
<1>4. running[i] # None /\ running[i].worker = z
  BY <1>1, <1>3, EntriesAreOldOrNew
<1> QED
  BY <1>1, <1>4 DEF Owns

\* What stop() waits for shrinks by the workers that end, and life goes on as it must.
LEMMA StopSteps ==
    ASSUME TypeOK, [Next]_vars
    PROVE  /\ life' # life => Stop \/ StopWaits \/ StopReturns
           /\ ~StopWaits => awaited \cap Live' \subseteq awaited'
<1>1. ASSUME NEW w \in WorkerIds, NEW o \in Outcomes, WorkerExit(w, o)
      PROVE  life' = life /\ awaited \cap Live' \subseteq awaited'
  BY <1>1 DEF WorkerExit, Live, TypeOK
<1>2. CASE ~\E w \in WorkerIds, o \in Outcomes : WorkerExit(w, o)
  <2>1. StopWaits \/ awaited' = awaited
    BY <1>2, LiveKept
  <2>2. life' # life => Stop \/ StopWaits \/ StopReturns
    BY <1>2 DEF Next, TickStep, RetryStep, WorkerStep, OutsideStep, StopStep, vars, TickStart,
         RefreshAnswered, RefreshFails, CloseNext, Removed, CloseDone, ListFails, ListAnswered,
         SyncDone, DispatchNext, DispatchEnd, RetryFires, PollFails, PollFindsNoSlot,
         PollRequeues, PollGone, PollDispatches, AgentEvent, DispatchMissionControl,
         WorkflowChange, Settle
  <2> QED
    BY <2>1, <2>2
<1> QED
  BY <1>1, <1>2

\* A worker begins although stop() was called: a poll that was in flight, or a tick that
\* was under way, dispatches.
BeginsLate == life # "up" /\ ~(Live' \subseteq Live)

\* While stop() waits, whoever is at work with an entry is waited for.
OwnersAwaited == life = "waiting" => Live \ Zombies \subseteq awaited

LEMMA OwnersAwaitedStep ==
    ASSUME TypeOK, EntryHasLiveWorker, OwnersAwaited, [Next]_vars, ~BeginsLate
    PROVE  OwnersAwaited'
<1> SUFFICES ASSUME life' = "waiting", NEW w \in Live', w \notin Zombies' PROVE w \in awaited'
  BY DEF OwnersAwaited
<1>1. CASE StopWaits
  BY <1>1, PromisesAreOwners DEF StopWaits, core, Zombies, Live, Owns
<1>2. CASE ~StopWaits
  <2>1. life = "waiting"
    BY <1>2, StopSteps DEF Stop, StopReturns
  <2>2. w \in Live \ Zombies
    BY <2>1, ZombiesStay DEF BeginsLate
  <2> QED
    BY <1>2, <2>1, <2>2, StopSteps DEF OwnersAwaited
<1> QED
  BY <1>1, <1>2

\* stop() returned, and did not give up waiting.
StopsInTime == life # "exited" /\ life' = "exited" /\ awaited' = {}

\* "Wait for active workers to finish" fails for two reasons only: unless a worker begins
\* once stop() was called, those still at work when it returns, the wait not having timed
\* out, have lost their entry before, to the reconciler or to another run of the issue.
THEOREM StopLeavesOnlyOrphans ==
    Spec /\ [][~BeginsLate]_vars => [][StopsInTime => Live \subseteq Zombies]_vars
<1> DEFINE Leaves == StopsInTime => Live \subseteq Zombies
<1>1. Init => OwnersAwaited
  BY DEF Init, OwnersAwaited
<1>2. TypeOK /\ EntryHasLiveWorker /\ OwnersAwaited /\ [Next]_vars /\ [~BeginsLate]_vars
      => OwnersAwaited'
  <2>1. UNCHANGED vars => ~BeginsLate
    BY DEF vars, core, BeginsLate, Live
  <2> QED
    BY <2>1, OwnersAwaitedStep
<1>3. TypeOK /\ EntryHasLiveWorker /\ OwnersAwaited /\ [Next]_vars => [Leaves]_vars
  <2> SUFFICES ASSUME TypeOK, EntryHasLiveWorker, OwnersAwaited, Next, StopsInTime
               PROVE  Live \subseteq Zombies
    OBVIOUS
  <2>1. CASE StopWaits
    BY <2>1, PromisesAreOwners DEF StopWaits, StopsInTime
  <2>2. CASE StopReturns
    BY <2>2 DEF StopReturns, StopsInTime, OwnersAwaited
  <2> QED
    BY <2>1, <2>2, StopSteps DEF StopsInTime, Stop
<1> QED
  BY <1>1, <1>2, <1>3, TypeCorrect, EntriesHaveWorkers, PTL DEF Spec

-----------------------------------------------------------------------------
(* Which ends of a run are reported *)

\* No reason applies to a normal end, and none is in its payload.
LEMMA NormalFits == "normal" \in Reported
<1>1. Fits(FinalPayload("normal"), PayloadSchema)
  BY DEF Fits, FinalPayload, PayloadSchema, JsonObject, CommonKeys, UsageKeys, Texts, Counts,
         Objects
<1>2. \A blank \in BOOLEAN : Fits(FinalResult("normal", blank), ResultSchema)
  BY DEF Fits, FinalResult, ResultSchema, JsonObject, EntryKeys, UsageKeys, Texts, Counts, Objects
<1>3. Fits(JsonObject(UsageKeys, {}, FALSE), UsageSchema)
  BY DEF Fits, JsonObject, UsageKeys, UsageSchema, Counts
<1> QED
  BY <1>1, <1>2, <1>3 DEF Reported, Outcomes, Status, Statuses

\* Whatever the entry has recorded, another end has reasons that do not apply: the payload
\* has their keys, with a value that is no JSON.
LEMMA OthersDoNotFit == ASSUME NEW o \in Outcomes \ {"normal"} PROVE o \notin Reported
<1>1. PICK key \in ReasonKeys : key \in NoReason(o)
  <2>1. "failure_reason" \in NoReason(o) \/ "block_reason" \in NoReason(o)
    BY DEF NoReason, ReasonKeys, Outcomes
  <2> QED
    BY <2>1 DEF ReasonKeys
<1>2. /\ key \in DOMAIN FinalResult(o, FALSE)
      /\ FinalResult(o, FALSE)[key] = "undefined"
  <2> DEFINE keys == EntryKeys \cup ReasonKeys \cup {"completion_kind", "usage"}
  <2>1. FinalResult(o, FALSE) = JsonObject(keys, NoReason(o), FALSE)
    BY DEF FinalResult
  <2>2. key \in keys
    OBVIOUS
  <2>3. /\ key \notin UsageKeys \cup {"turn_count", "duration_ms"}
        /\ key \notin {"result_payload", "usage"}
    BY DEF ReasonKeys, UsageKeys
  <2> HIDE DEF keys
  <2> QED
    BY <1>1, <2>1, <2>2, <2>3 DEF JsonObject
<1>3. key \in DOMAIN ResultSchema.types /\ "undefined" \notin ResultSchema.types[key]
  BY <1>1 DEF ResultSchema, ReasonKeys, Texts
<1>4. ~Fits(FinalResult(o, FALSE), ResultSchema)
  BY <1>2, <1>3 DEF Fits
<1> QED
  BY <1>4 DEF Reported

LEMMA OnlyNormalReported == \A o \in Outcomes : o \in Reported <=> o = "normal"
BY NormalFits, OthersDoNotFit

\* The events of a worker under way are never refused.
LEMMA EventsFit == RunningReported
<1>1. Fits(JsonObject(CommonKeys, {}, FALSE), PayloadSchema)
  BY DEF Fits, PayloadSchema, JsonObject, CommonKeys, UsageKeys, Texts, Counts, Objects
<1>2. ASSUME NEW blank \in BOOLEAN, NEW keys, keys \in {EntryKeys, EntryKeys \cup {"usage"}}
      PROVE  Fits(JsonObject(keys, {}, blank), ResultSchema)
  BY <1>2 DEF Fits, ResultSchema, JsonObject, EntryKeys, UsageKeys, Texts, Counts, Objects
<1>3. Fits(JsonObject(UsageKeys, {}, FALSE), UsageSchema)
  BY DEF Fits, JsonObject, UsageKeys, UsageSchema, Counts
<1> QED
  BY <1>1, <1>2, <1>3 DEF RunningReported, Statuses

EndsFinal(said) == said # << >> /\ said[Len(said)] = "final"

\* What becomes of the run an entry is bound to, when the worker of the entry ends.
BoundEnd(w, o) ==
    WorkerExit(w, o) /\ Owns(w) /\ missionControlBindings[workers[w]] # None
      => (EndsFinal(reports'[missionControlBindings[workers[w]]]) <=> o = "normal")

LEMMA BoundEndStep ==
    ASSUME TypeOK, FinalInv, NEW w \in WorkerIds, NEW o \in Outcomes PROVE BoundEnd(w, o)
<1> SUFFICES ASSUME WorkerExit(w, o), Owns(w), missionControlBindings[workers[w]] # None
             PROVE  EndsFinal(reports'[missionControlBindings[workers[w]]]) <=> o = "normal"
  BY DEF BoundEnd
<1> PICK i \in Issues : i = workers[w]
  BY DEF WorkerExit, Live, TypeOK
<1> PICK r \in RunIds : r = missionControlBindings[i]
  BY DEF TypeOK
<1>1. i \in Running /\ HandleWorkerExit(i, o)
  BY DEF Owns, Running, WorkerExit
<1>2. FinalCallback(r, o)
  BY <1>1 DEF HandleWorkerExit
<1>3. reports[r] \in Seq({"running", "final"})
  BY DEF TypeOK
<1>4. CASE o = "normal"
  <2>1. reports'[r] = Append(reports[r], "final")
    BY <1>2, <1>4, OnlyNormalReported DEF FinalCallback, Report, TypeOK
  <2>2. reports'[r] # << >> /\ reports'[r][Len(reports'[r])] = "final"
    BY <1>3, <2>1
  <2> QED
    BY <1>4, <2>2 DEF EndsFinal
<1>5. CASE o # "normal"
  <2>1. reports'[r] = reports[r]
    BY <1>2, <1>5, OnlyNormalReported DEF FinalCallback
  <2>2. NoFinal(r)
    BY DEF FinalInv, Open
  <2>3. ~EndsFinal(reports[r])
    <3>1. ASSUME reports[r] # << >> PROVE Len(reports[r]) \in 1..Len(reports[r])
      BY <1>3, <3>1
    <3> QED
      BY <2>2, <3>1 DEF EndsFinal, NoFinal
  <2> QED
    BY <1>5, <2>1, <2>3
<1> QED
  BY <1>4, <1>5

\* When the worker of an entry ends, the execution run bound to the entry gets its last
\* callback if and only if the worker ended normally: whatever the entry has recorded and
\* whatever was reported before, every other end is lost, and no normal one is.
THEOREM OnlyNormalEndsReported ==
    Spec => [][\A w \in WorkerIds, o \in Outcomes : BoundEnd(w, o)]_vars
<1>1. Init => FinalInv /\ BindingInv
  BY DEF Init, FinalInv, FinalIsLast, NoFinal, Open, BindingInv, AcceptedForIssue
<1>2. TypeOK /\ BindingInv /\ FinalInv /\ [Next]_vars => FinalInv' /\ BindingInv'
  BY FinalStep, BindingStep
<1>3. TypeOK /\ FinalInv /\ [Next]_vars
        => [\A w \in WorkerIds, o \in Outcomes : BoundEnd(w, o)]_vars
  BY BoundEndStep
<1> QED
  BY <1>1, <1>2, <1>3, TypeCorrect, PTL DEF Spec
=============================================================================
