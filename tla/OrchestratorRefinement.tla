----------------------- MODULE OrchestratorRefinement -----------------------
(***************************************************************************)
(* The scheduling core keeps to its limit, loses no worker but by its      *)
(* reconciler, and implements IssueLifecycle, from which it follows that   *)
(* no failure resets a backoff; for every value of the constants.          *)
(***************************************************************************)
EXTENDS OrchestratorProofs

-----------------------------------------------------------------------------
(* The limit *)

LEMMA RunningFinite == IsFiniteSet(Running) /\ Cardinality(Running) \in Nat
<1>1. Running \subseteq Issues
  BY DEF Running
<1> QED
  BY <1>1, FiniteAssumption, FS_Subset, FS_CardinalityType

LEMMA LimitIsInt == ASSUME TypeOK PROVE max_concurrent_agents \in Int
BY ConfigAssumption DEF TypeOK

\* The guard of every dispatcher, and what it adds.
LEMMA OneMore ==
    ASSUME TypeOK, NEW i \in Issues, Running' = Running \cup {i},
           Cardinality(Running) < max_concurrent_agents, UNCHANGED max_concurrent_agents
    PROVE  Cardinality(Running') <= max_concurrent_agents
<1>1. CASE i \in Running
  BY <1>1, RunningFinite, LimitIsInt
<1>2. CASE i \notin Running
  <2>1. Cardinality(Running') = Cardinality(Running) + 1
    BY <1>2, RunningFinite, FS_AddElement
  <2> QED
    BY <2>1, RunningFinite, LimitIsInt
<1> QED
  BY <1>1, <1>2

LEMMA NoMore ==
    ASSUME Running' \subseteq Running
    PROVE  ~(Cardinality(Running') > Cardinality(Running))
<1>1. Cardinality(Running') <= Cardinality(Running) /\ IsFiniteSet(Running')
  BY RunningFinite, FS_Subset
<1>2. Cardinality(Running') \in Nat
  BY <1>1, FS_CardinalityType
<1> QED
  BY <1>1, <1>2, RunningFinite

Within == Cardinality(Running') > Cardinality(Running)
            => Cardinality(Running') <= max_concurrent_agents

LEMMA LimitStep == ASSUME TypeOK, [Next]_vars PROVE Within
<1>1. ASSUME Running' \subseteq Running PROVE Within
  BY <1>1, NoMore DEF Within
<1>2. ASSUME NEW S \in SUBSET Issues, Terminate(S) PROVE Within
  BY <1>1, <1>2 DEF Terminate, Running
<1>3. ASSUME UNCHANGED running PROVE Within
  BY <1>1, <1>3 DEF Running
<1>4. ASSUME NEW i \in Issues, NEW s \in ActiveStates \cup {"inactive"},
             NEW a \in 0..AttemptCap, NEW w \in WorkerIds, NEW b, Dispatch(i, s, a, w, b),
             Cardinality(Running) < max_concurrent_agents, UNCHANGED max_concurrent_agents
      PROVE  Within
  BY <1>4, DispatchOwns, OneMore DEF Within
<1>5. CASE Idle
  BY <1>3, <1>5 DEF Idle, core
<1>6. ASSUME NEW i \in Issues, CloseNext(i) PROVE Within
  BY <1>2, <1>3, <1>6 DEF CloseNext, core
<1>7. ASSUME NEW v \in BOOLEAN, CloseDone(v) PROVE Within
  BY <1>1, <1>7, CloseDoneEntries DEF Running
<1>8. ASSUME NEW i \in Issues, NEW w \in WorkerIds, DispatchNext(i, w) PROVE Within
  BY <1>4, <1>8, ConfigAssumption DEF DispatchNext, ShouldDispatch
<1>9. ASSUME NEW c \in CallIds, NEW s \in ActiveStates, NEW w \in WorkerIds,
             PollDispatches(c, s, w)
      PROVE  Within
  <2>1. polls[c].issue \in Issues /\ polls[c].attempt \in 0..AttemptCap
    BY <1>9 DEF PollDispatches, InFlight, TypeOK, Call
  <2> QED
    BY <1>4, <1>9, <2>1 DEF PollDispatches
<1>10. ASSUME NEW i \in Issues, NEW r \in RunIds, NEW s \in ActiveStates \cup {"inactive"},
              NEW w \in WorkerIds, DispatchMissionControl(i, r, s, w)
       PROVE  Within
  <2>1. Cardinality(Running) < max_concurrent_agents
    BY <1>10, RunningFinite, LimitIsInt DEF DispatchMissionControl
  <2> QED
    BY <1>4, <1>10, <2>1, ConfigAssumption DEF DispatchMissionControl
<1>11. ASSUME NEW w \in WorkerIds, NEW o \in Outcomes, WorkerExit(w, o) PROVE Within
  BY <1>1, <1>11 DEF WorkerExit, HandleWorkerExit, Running, TypeOK
<1> QED
  BY <1>2, <1>3, <1>5, <1>6, <1>7, <1>8, <1>9, <1>10, <1>11, StepCases
  DEF TickStart, RetryFires, PollRequeues, PollGone, AgentEvent, core, Stop

\* No dispatcher adds an entry beyond the limit in force when it does, although two
\* of the three look at it long after they last awaited the tracker.
THEOREM LimitKept == Spec => DispatchWithinLimit
<1>1. TypeOK /\ [Next]_vars => [Within]_vars
  BY LimitStep
<1>2. [][Within]_vars => DispatchWithinLimit
  BY PTL DEF DispatchWithinLimit, Within
<1> QED
  BY <1>1, <1>2, TypeCorrect, PTL DEF Spec
-----------------------------------------------------------------------------
(* Who loses a worker its entry *)

\* The reconciler terminates a run.
Reconciles == \E i \in Running : CloseNext(i)

\* A worker is new among those without an entry only if one of them ends.
Cause ==
    Zombies' \ Zombies # {} => \E z \in Zombies : workers'[z] = None

OrphanCause ==
    Zombies' \ Zombies # {} => tickPc = "closing" \/ \E z \in Zombies : workers'[z] = None

\* A dispatch of an issue that has no entry takes none from anybody.
LEMMA DispatchOrphansNobody ==
    ASSUME TypeOK, NEW i \in Issues \ Running, NEW s \in ActiveStates, NEW a \in 0..AttemptCap,
           NEW w \in WorkerIds, Dispatch(i, s, a, w, None)
    PROVE  Zombies' \subseteq Zombies
<1> SUFFICES ASSUME NEW z \in Zombies' PROVE z \in Zombies
  OBVIOUS
<1>1. /\ running'[i].worker = w /\ running'[i] # None
      /\ \A j \in Issues \ {i} : running'[j] = running[j]
  BY EntryNotNone DEF Dispatch, TypeOK
<1>2. workers'[w] = i /\ \A v \in WorkerIds \ {w} : workers'[v] = workers[v]
  BY DEF Dispatch, TypeOK
<1>3. z # w
  BY <1>1, <1>2 DEF Zombies, Owns
<1>4. z \in Live /\ workers'[z] = workers[z] /\ workers[z] \in Issues
  BY <1>2, <1>3 DEF Zombies, Live, TypeOK
<1>5. CASE workers[z] = i
  BY <1>4, <1>5 DEF Zombies, Owns, Running
<1>6. CASE workers[z] # i
  BY <1>1, <1>4, <1>6 DEF Zombies, Owns
<1> QED
  BY <1>5, <1>6

LEMMA OrphanStep ==
    ASSUME ~MissionControl, ~StallDetection, TypeOK, OwnInv, [Next]_vars, ~Reconciles
    PROVE  Cause
<1>1. ASSUME Zombies' \subseteq Zombies PROVE Cause
  BY <1>1 DEF Cause
<1>2. ASSUME UNCHANGED <<running, workers>> PROVE Cause
  BY <1>1, <1>2 DEF Zombies, Live, Owns
<1>3. CASE Idle
  BY <1>2, <1>3 DEF Idle, core
<1>4. ASSUME NEW S \in SUBSET Issues, TickStart(S) PROVE Cause
  <2>1. S = {}
    BY <1>4 DEF TickStart
  <2> QED
    BY <1>2, <1>4, <2>1 DEF TickStart, Terminate, TypeOK
<1>5. ASSUME NEW i \in Issues, CloseNext(i) PROVE Cause
  BY <1>2, <1>5 DEF Reconciles, CloseNext, core
<1>6. ASSUME NEW v \in BOOLEAN, CloseDone(v) PROVE Cause
  <2>1. workers' = workers
    BY <1>6 DEF CloseDone
  <2>2. \A w \in Live : workers[w] \in Issues
    BY DEF Live, TypeOK
  <2>3. \A w \in Live : Owns(w)' <=> Owns(w)
    BY <1>6, <2>1, <2>2, CloseDoneEntries DEF Owns
  <2> QED
    BY <1>1, <2>1, <2>3 DEF Zombies, Live
<1>7. ASSUME NEW i \in Issues, NEW w \in WorkerIds, DispatchNext(i, w) PROVE Cause
  <2>1. /\ i \notin Running /\ answer[i] \in ActiveStates /\ 0 \in 0..AttemptCap
        /\ Dispatch(i, answer[i], 0, w, None)
    BY <1>7, ConfigAssumption DEF DispatchNext, ShouldDispatch
  <2> QED
    BY <1>1, <2>1, DispatchOrphansNobody
\* The issue of a poll has no entry: nobody but the retry queue owns it.
<1>8. ASSUME NEW c \in CallIds, NEW s \in ActiveStates, NEW w \in WorkerIds,
             PollDispatches(c, s, w)
      PROVE  Cause
  <2>1. c \in InFlight /\ Dispatch(polls[c].issue, s, polls[c].attempt, w, None)
    BY <1>8 DEF PollDispatches
  <2>2. polls[c].issue \in Issues /\ polls[c].attempt \in 0..AttemptCap
    BY <2>1 DEF InFlight, TypeOK, Call
  <2>3. polls[c].issue \notin Running
    BY <2>1 DEF OwnInv, OneOwner, Polling
  <2> QED
    BY <1>1, <2>1, <2>2, <2>3, DispatchOrphansNobody
\* A worker with an entry takes that entry, one without may take another's.
<1>9. ASSUME NEW w \in WorkerIds, NEW o \in Outcomes, WorkerExit(w, o) PROVE Cause
  <2>1. /\ w \in Live /\ workers[w] \in Issues
        /\ workers'[w] = None /\ \A v \in WorkerIds \ {w} : workers'[v] = workers[v]
        /\ HandleWorkerExit(workers[w], o)
    BY <1>9 DEF WorkerExit, Live, TypeOK
  <2>2. CASE w \in Zombies
    BY <2>1, <2>2 DEF Cause
  <2>3. CASE Owns(w)
    <3> SUFFICES ASSUME NEW z \in Zombies' PROVE z \in Zombies
      BY <1>1
    <3>1. z # w /\ z \in WorkerIds /\ workers'[z] # None
      BY <2>1 DEF Zombies, Live
    <3>2. z \in Live /\ workers'[z] = workers[z] /\ workers[z] \in Issues
      BY <2>1, <3>1 DEF Live, TypeOK
    <3>3. CASE workers[z] = workers[w]
      BY <2>3, <3>1, <3>2, <3>3 DEF Zombies, Owns
    <3>4. CASE workers[z] # workers[w]
      <4>1. running'[workers[z]] = running[workers[z]]
        BY <2>1, <3>2, <3>4 DEF HandleWorkerExit, TypeOK
      <4> QED
        BY <3>2, <4>1 DEF Zombies, Owns
    <3> QED
      BY <3>3, <3>4
  <2> QED
    BY <2>1, <2>2, <2>3 DEF Zombies
<1> QED
  BY <1>2, <1>3, <1>4, <1>5, <1>6, <1>7, <1>8, <1>9, StepCases
  DEF RetryFires, PollRequeues, PollGone, AgentEvent, DispatchMissionControl, Stop, core

LEMMA OrphanCauses ==
    ASSUME ~MissionControl, ~StallDetection, TypeOK, OwnInv, [Next]_vars PROVE OrphanCause
<1>1. Reconciles => tickPc = "closing"
  BY DEF Reconciles, CloseNext
<1> QED
  BY <1>1, OrphanStep DEF Cause, OrphanCause

\* As long as only the tick and the retry queue dispatch and no run stalls, a worker is
\* cut off from its entry by the reconciler or by an older worker of its issue that
\* ends, never by a dispatch.
THEOREM OrphansHaveCause ==
    ASSUME ~MissionControl, ~StallDetection PROVE Spec => OrphanedOnlyByReconcile
<1>1. TypeOK /\ (ClaimedIffOwned /\ OneOwner) /\ [Next]_vars => [OrphanCause]_vars
  BY OrphanCauses DEF OwnInv
<1>2. [][OrphanCause]_vars => OrphanedOnlyByReconcile
  BY PTL DEF OrphanedOnlyByReconcile, OrphanCause
<1> QED
  BY <1>1, <1>2, TypeCorrect, ClaimsMatchOwners, PTL DEF Spec
-----------------------------------------------------------------------------
(* Why there are more workers at work than the limit allows *)

\* Each worker with an entry is the worker of another entry.
LEMMA OwnersWithinEntries ==
    ASSUME TypeOK
    PROVE  /\ Cardinality(Live \ Zombies) \in Nat
           /\ Cardinality(Live \ Zombies) <= Cardinality(Running)
<1> DEFINE owners == Live \ Zombies
           theirs == [w \in owners |-> workers[w]]
<1>1. \A w \in owners : workers[w] \in Running /\ running[workers[w]].worker = w
  BY DEF Live, Zombies, Owns, Running, TypeOK
<1>2. theirs \in Injection(owners, Running)
  BY <1>1 DEF Injection, IsInjective
<1> HIDE DEF theirs, owners
<1>3. IsFiniteSet(owners) /\ Cardinality(owners) <= Cardinality(Running)
  BY <1>2, RunningFinite, FS_Injection
<1>4. Cardinality(owners) \in Nat
  BY <1>3, FS_CardinalityType
<1> QED
  BY <1>3, <1>4 DEF owners

\* If nobody terminates a run, no worker is ever without its entry.
LEMMA NobodyOrphaned ==
    ASSUME ~MissionControl, ~StallDetection, TypeOK, OwnInv, Zombies = {}, [Next]_vars,
           [~Reconciles]_vars
    PROVE  Zombies' = {}
<1>1. CASE UNCHANGED vars
  BY <1>1 DEF vars, core, Zombies, Live, Owns
<1>2. CASE ~Reconciles
  BY <1>2, OrphanStep DEF Cause
<1> QED
  BY <1>1, <1>2

LEMMA NoOrphans ==
    ASSUME ~MissionControl, ~StallDetection
    PROVE  Spec /\ [][~Reconciles]_vars => [](Zombies = {})
<1> DEFINE NoneLost == Zombies = {}
<1>1. Init => NoneLost
  BY DEF Init, Zombies, Live
<1>2. ASSUME TypeOK, OwnInv, NoneLost, [Next]_vars, [~Reconciles]_vars PROVE NoneLost'
  BY <1>2, NobodyOrphaned
<1>3. OwnInv <=> ClaimedIffOwned /\ OneOwner
  BY DEF OwnInv
<1> HIDE DEF NoneLost
<1>4. Spec /\ [][~Reconciles]_vars => []NoneLost
  BY <1>1, <1>2, <1>3, TypeCorrect, ClaimsMatchOwners, PTL DEF Spec
<1> QED
  BY <1>4 DEF NoneLost

\* "dispatch work with bounded concurrency" fails for one reason only: as long as only the
\* tick and the retry queue dispatch and no run stalls, no more workers are at work than the
\* limit allows unless the reconciler terminates a run, whatever the tracker answers and
\* however ticks, retry polls and exits interleave.
THEOREM ConcurrencyBounded ==
    ASSUME ~MissionControl, ~StallDetection, NEW limit \in Nat, Limits = {limit}
    PROVE  Spec /\ [][~Reconciles]_vars => []BoundedConcurrency
<1> DEFINE NoneOver == Cardinality(Running) <= max_concurrent_agents
<1>1. ASSUME Init PROVE NoneOver
  <2>1. Running = {} /\ max_concurrent_agents = limit
    BY <1>1 DEF Init, Running
  <2> QED
    BY <2>1, FS_EmptySet
<1>2. ASSUME TypeOK, TypeOK', NoneOver, [Next]_vars PROVE NoneOver'
  <2>1. max_concurrent_agents = limit /\ max_concurrent_agents' = limit
    BY <1>2 DEF TypeOK
  <2>2. IsFiniteSet(Running') /\ Cardinality(Running') \in Nat
    <3>1. Running' \subseteq Issues
      BY DEF Running
    <3> QED
      BY <3>1, FiniteAssumption, FS_Subset, FS_CardinalityType
  <2>3. Within
    BY <1>2, LimitStep
  <2> QED
    BY <1>2, <2>1, <2>2, <2>3, RunningFinite DEF Within
<1>3. ASSUME TypeOK, NoneOver, Zombies = {} PROVE BoundedConcurrency
  <2>1. Cardinality(Live) <= Cardinality(Running) /\ Cardinality(Live) \in Nat
    <3>1. Live \ Zombies = Live
      BY <1>3
    <3> QED
      BY <1>3, <3>1, OwnersWithinEntries
  <2> QED
    BY <1>3, <2>1, RunningFinite, LimitIsInt DEF BoundedConcurrency
<1> HIDE DEF NoneOver
<1> QED
  BY <1>1, <1>2, <1>3, TypeCorrect, NoOrphans, PTL DEF Spec

\* Nor is anybody at work when stop() returns in time, unless a run was terminated before or
\* a worker begins once stop() was called.
THEOREM StopLeavesNobody ==
    ASSUME ~MissionControl, ~StallDetection
    PROVE  Spec /\ [][~Reconciles /\ ~BeginsLate]_vars => [][StopsInTime => Live = {}]_vars
<1>1. Zombies = {} /\ [StopsInTime => Live \subseteq Zombies]_vars
      => [StopsInTime => Live = {}]_vars
  OBVIOUS
<1>2. [][~Reconciles /\ ~BeginsLate]_vars => [][~Reconciles]_vars /\ [][~BeginsLate]_vars
  BY PTL
<1> QED
  BY <1>1, <1>2, NoOrphans, StopLeavesOnlyOrphans, PTL

-----------------------------------------------------------------------------
(* The life cycle *)

LifePhase   == [i \in Issues |-> Phase(i)]

\* With one poll per issue, PollOf picks that poll.
LEMMA PollOfIs ==
    ASSUME OneOwner, NEW c \in InFlight
    PROVE  PollOf(polls[c].issue) = polls[c]
BY DEF OneOwner, PollOf

\* What decides an issue's phase and attempt; an issue a step leaves alone in this
\* sense keeps both.
LEMMA LeftAlone ==
    ASSUME OneOwner, OneOwner', NEW j \in Issues,
           j \in Running' <=> j \in Running,
           j \in Running => running'[j].attempt = running[j].attempt,
           retry_attempts'[j] = retry_attempts[j],
           j \in Polling' <=> j \in Polling,
           \A c \in InFlight : polls[c].issue = j => c \in InFlight' /\ polls'[c] = polls[c]
    PROVE  Phase(j)' = Phase(j) /\ AttemptOf(j)' = AttemptOf(j)
<1>1. j \in Retrying' <=> j \in Retrying
  BY DEF Retrying
<1>2. Phase(j)' = Phase(j)
  BY <1>1 DEF Phase
<1>3. ASSUME j \in Polling PROVE PollOf(j)' = PollOf(j)
  <2>1. PICK c \in InFlight : polls[c].issue = j
    BY <1>3 DEF Polling
  <2>2. c \in InFlight' /\ polls'[c] = polls[c]
    BY <2>1
  <2>3. PollOf(j) = polls[c]
    BY <2>1, PollOfIs
  <2>4. PollOf(j)' = polls'[c]
    BY <2>1, <2>2 DEF PollOf, OneOwner
  <2> QED
    BY <2>2, <2>3, <2>4
<1> QED
  BY <1>1, <1>2, <1>3 DEF AttemptOf

\* A step that moves one issue is a Move of the life cycle.
LEMMA OneMoves ==
    ASSUME NEW i \in Issues, NEW from, NEW to, NEW a,
           Phase(i) = from, Phase(i)' = to, AttemptOf(i)' = a,
           \A j \in Issues \ {i} : Phase(j)' = Phase(j) /\ AttemptOf(j)' = AttemptOf(j),
           UNCHANGED max_concurrent_agents
    PROVE  Lifecycle!Move(i, from, to, a)
BY DEF Lifecycle!Move

LEMMA SlotFree ==
    ASSUME Cardinality(Running) < max_concurrent_agents PROVE Lifecycle!HasSlot
<1>1. {i \in Issues : LifePhase[i] = "running"} = Running
  BY DEF LifePhase, Phase, Running
<1> QED
  BY <1>1 DEF Lifecycle!HasSlot, Lifecycle!In, LifePhase, Lifecycle!Cardinality, Cardinality

LEMMA LifecycleStep ==
    ASSUME ~MissionControl, ~StallDetection, TypeOK, TypeOK', NoRuns, OwnInv, OwnInv',
           [Next]_vars
    PROVE  [Lifecycle!Next]_(Lifecycle!vars)
<1> USE DEF OwnInv
<1> DEFINE Same(j) == Phase(j)' = Phase(j) /\ AttemptOf(j)' = AttemptOf(j)
<1>1. ASSUME UNCHANGED <<running, retry_attempts, polls>> PROVE \A j \in Issues : Same(j)
  BY <1>1 DEF Phase, AttemptOf, PollOf, Running, Retrying, Polling, InFlight
<1>2. ASSUME \A j \in Issues : Same(j), max_concurrent_agents' \in Limits
      PROVE  Lifecycle!Next
  BY <1>2 DEF Lifecycle!Next, Lifecycle!Reload
<1>3. max_concurrent_agents' \in Limits
  BY DEF TypeOK
<1>4. CASE Idle
  BY <1>1, <1>2, <1>3, <1>4 DEF Idle, core
<1>5. ASSUME NEW S \in SUBSET Issues, TickStart(S) PROVE Lifecycle!Next
  <2>1. UNCHANGED <<running, retry_attempts, polls>>
    BY <1>5 DEF TickStart, Terminate, TypeOK
  <2> QED
    BY <1>1, <1>2, <1>3, <2>1
<1>6. ASSUME NEW i \in Issues, CloseNext(i) PROVE Lifecycle!Next
  <2>1. CASE i \in Running
    <3>1. /\ Running' = Running \ {i} /\ i \notin Retrying' /\ i \notin Polling'
          /\ \A j \in Issues \ {i} : running'[j] = running[j]
                                     /\ retry_attempts'[j] = retry_attempts[j]
          /\ UNCHANGED <<polls, max_concurrent_agents>>
      BY <1>6, <2>1, SamePolls DEF CloseNext, Terminate, Running, Retrying, OneOwner, TypeOK
    <3>2. \A j \in Issues \ {i} : Same(j)
      BY <3>1, LeftAlone, SamePolls
    <3>3. Phase(i) = "running" /\ Phase(i)' = "free" /\ AttemptOf(i)' = 0
      BY <2>1, <3>1 DEF Phase, AttemptOf
    <3>4. Lifecycle!Close(i)
      BY <3>1, <3>2, <3>3, OneMoves DEF Lifecycle!Close
    <3> QED
      BY <3>4 DEF Lifecycle!Next
  <2>2. CASE i \notin Running
    BY <1>1, <1>2, <1>3, <1>6, <2>2 DEF CloseNext, core
  <2> QED
    BY <2>1, <2>2
<1>7. ASSUME NEW v \in BOOLEAN, CloseDone(v) PROVE Lifecycle!Next
  <2>1. UNCHANGED <<retry_attempts, polls>>
    BY <1>7 DEF CloseDone
  <2>2. \A j \in Issues : /\ j \in Running' <=> j \in Running
                          /\ j \in Running => running'[j].attempt = running[j].attempt
    BY <1>7, CloseDoneEntries DEF Running
  <2>3. ASSUME NEW j \in Issues PROVE Same(j)
    <3>1. InFlight' = InFlight /\ Polling' = Polling /\ polls' = polls
      BY <2>1, SamePolls
    <3>2. j \in Running' <=> j \in Running
      BY <2>2
    <3>3. j \in Running => running'[j].attempt = running[j].attempt
      BY <2>2
    <3>4. retry_attempts'[j] = retry_attempts[j]
      BY <2>1
    <3> QED
      BY <3>1, <3>2, <3>3, <3>4, LeftAlone
  <2> QED
    BY <1>2, <1>3, <2>3
<1>8. ASSUME NEW i \in Issues, NEW w \in WorkerIds, DispatchNext(i, w) PROVE Lifecycle!Next
  <2>1. /\ answer[i] \in ActiveStates /\ i \notin Owned
        /\ Cardinality(Running) < max_concurrent_agents
        /\ Dispatch(i, answer[i], 0, w, None) /\ UNCHANGED <<polls, max_concurrent_agents>>
    BY <1>8 DEF DispatchNext, ShouldDispatch, ClaimedIffOwned
  <2>2. /\ Running' = Running \cup {i} /\ running'[i].attempt = 0
        /\ \A j \in Issues \ {i} : running'[j] = running[j]
                                   /\ retry_attempts'[j] = retry_attempts[j]
    <3>1. 0 \in 0..AttemptCap
      BY ConfigAssumption
    <3>2. Running' = Running \cup {i}
      BY <2>1, <3>1, DispatchOwns
    <3>3. running'[i].attempt = 0 /\ \A j \in Issues \ {i} : running'[j] = running[j]
      BY <2>1, <3>1, EntryNotNone
    <3> QED
      BY <2>1, <3>2, <3>3 DEF Dispatch, TypeOK
  <2>3. \A j \in Issues \ {i} : Same(j)
    BY <2>1, <2>2, LeftAlone, SamePolls
  <2>4. Phase(i) = "free" /\ Phase(i)' = "running" /\ AttemptOf(i)' = 0
    BY <2>1, <2>2 DEF Phase, AttemptOf, Owned
  <2>5. Lifecycle!Start(i)
    <3>1. Lifecycle!Move(i, "free", "running", 0)
      BY <2>1, <2>3, <2>4, OneMoves
    <3>2. Lifecycle!HasSlot
      BY <2>1, SlotFree
    <3> QED
      BY <3>1, <3>2 DEF Lifecycle!Start
  <2> QED
    BY <2>5 DEF Lifecycle!Next
<1>9. ASSUME NEW i \in Issues, NEW c \in CallIds, RetryFires(i, c) PROVE Lifecycle!Next
  <2>1. /\ i \in Retrying /\ i \notin Running /\ i \notin Polling
        /\ polls[c] = None /\ retry_attempts[i] \in 0..AttemptCap
        /\ polls' = [polls EXCEPT ![c] = [issue |-> i, attempt |-> retry_attempts[i]]]
        /\ retry_attempts' = [retry_attempts EXCEPT ![i] = 0]
        /\ UNCHANGED <<running, max_concurrent_agents>>
    BY <1>9 DEF RetryFires, OneOwner, TypeOK
  <2>2. InFlight' = InFlight \cup {c} /\ Polling' = Polling \cup {i}
    BY <2>1, PollBegins
  <2>3. polls'[c] = [issue |-> i, attempt |-> retry_attempts[i]] /\ c \in InFlight'
        /\ \A d \in InFlight : polls'[d] = polls[d]
    BY <2>1, <2>2 DEF InFlight, TypeOK
  <2>4. i \notin Running' /\ i \notin Retrying' /\ Running' = Running
    BY <2>1 DEF Running, Retrying, TypeOK
  <2>5. ASSUME NEW j \in Issues \ {i} PROVE Same(j)
    BY <2>1, <2>2, <2>3, <2>4, LeftAlone DEF TypeOK
  <2>6. PollOf(i)' = polls'[c]
    BY <2>3 DEF PollOf, OneOwner
  <2>7. Phase(i) = "waiting" /\ Phase(i)' = "polling" /\ AttemptOf(i)' = retry_attempts[i]
        /\ AttemptOf(i) = retry_attempts[i]
    BY <2>1, <2>2, <2>3, <2>4, <2>6 DEF Phase, AttemptOf
  <2>8. Lifecycle!Fire(i)
    BY <2>1, <2>5, <2>7, OneMoves DEF Lifecycle!Fire
  <2> QED
    BY <2>8 DEF Lifecycle!Next
<1>10. ASSUME NEW c \in InFlight, polls' = [polls EXCEPT ![c] = None],
              \A j \in Issues \ {polls[c].issue} :
                  running'[j] = running[j] /\ retry_attempts'[j] = retry_attempts[j]
       PROVE  \A j \in Issues \ {polls[c].issue} : Same(j)
  <2>1. /\ InFlight' = InFlight \ {c} /\ Polling' = Polling \ {polls[c].issue}
    BY <1>10, PollEnds
  <2>2. \A d \in InFlight \ {c} : polls'[d] = polls[d]
    BY <1>10 DEF InFlight, TypeOK
  <2> QED
    BY <1>10, <2>1, <2>2, LeftAlone DEF Running
<1>11. ASSUME NEW c \in CallIds, PollRequeues(c) PROVE Lifecycle!Next
  <2> PICK i \in Issues : i = polls[c].issue
    BY <1>11, PollEnds DEF PollRequeues
  <2>1. /\ c \in InFlight /\ polls' = [polls EXCEPT ![c] = None]
        /\ retry_attempts' = [retry_attempts EXCEPT ![i] = Bump(polls[c].attempt)]
        /\ UNCHANGED <<running, max_concurrent_agents>>
    BY <1>11 DEF PollRequeues
  <2>2. i \in Polling /\ i \notin Running /\ i \notin Retrying
    BY <2>1 DEF Polling, OneOwner
  <2>3. Bump(polls[c].attempt) # 0
    <3>1. polls[c].attempt \in 0..AttemptCap
      BY <2>1, PollEnds
    <3> QED
      BY <3>1, BumpType
  <2>4. /\ Running' = Running /\ i \in Retrying' /\ retry_attempts'[i] = Bump(polls[c].attempt)
    BY <2>1, <2>3 DEF Running, Retrying, TypeOK
  <2>5. \A j \in Issues \ {i} : Same(j)
    BY <1>10, <2>1 DEF TypeOK
  <2>6. /\ Phase(i) = "polling" /\ AttemptOf(i) = polls[c].attempt
        /\ Phase(i)' = "waiting" /\ AttemptOf(i)' = Bump(polls[c].attempt)
    BY <2>1, <2>2, <2>4, PollOfIs DEF Phase, AttemptOf
  <2>7. Lifecycle!Requeue(i)
    BY <2>1, <2>5, <2>6, OneMoves DEF Lifecycle!Requeue, Lifecycle!Bump, Bump
  <2> QED
    BY <2>7 DEF Lifecycle!Next
<1>12. ASSUME NEW c \in CallIds, PollGone(c) PROVE Lifecycle!Next
  <2> PICK i \in Issues : i = polls[c].issue
    BY <1>12, PollEnds DEF PollGone
  <2>1. /\ c \in InFlight /\ polls' = [polls EXCEPT ![c] = None]
        /\ UNCHANGED <<running, retry_attempts, max_concurrent_agents>>
    BY <1>12 DEF PollGone
  <2>2. i \in Polling /\ i \notin Running /\ i \notin Retrying
    BY <2>1 DEF Polling, OneOwner
  <2>3. /\ Running' = Running /\ Retrying' = Retrying /\ i \notin Polling'
    BY <2>1, PollEnds DEF Running, Retrying
  <2>4. \A j \in Issues \ {i} : Same(j)
    BY <1>10, <2>1
  <2>5. Phase(i) = "polling" /\ Phase(i)' = "free" /\ AttemptOf(i)' = 0
    BY <2>2, <2>3 DEF Phase, AttemptOf
  <2>6. Lifecycle!LetGo(i)
    BY <2>1, <2>4, <2>5, OneMoves DEF Lifecycle!LetGo
  <2> QED
    BY <2>6 DEF Lifecycle!Next
<1>13. ASSUME NEW c \in CallIds, NEW s \in ActiveStates, NEW w \in WorkerIds,
              PollDispatches(c, s, w)
       PROVE  Lifecycle!Next
  <2> PICK i \in Issues : i = polls[c].issue
    BY <1>13, PollEnds DEF PollDispatches
  <2>1. /\ c \in InFlight /\ polls' = [polls EXCEPT ![c] = None]
        /\ Dispatch(i, s, polls[c].attempt, w, None)
        /\ Cardinality(Running) < max_concurrent_agents
        /\ UNCHANGED max_concurrent_agents
    BY <1>13 DEF PollDispatches
  <2>2. /\ i \in Polling /\ i \notin Running /\ i \notin Retrying
        /\ polls[c].attempt \in 0..AttemptCap
    <3>1. polls[c].attempt \in 0..AttemptCap
      BY <2>1, PollEnds
    <3> QED
      BY <2>1, <3>1 DEF Polling, OneOwner
  <2>3. /\ Running' = Running \cup {i} /\ running'[i].attempt = polls[c].attempt
        /\ \A j \in Issues \ {i} : running'[j] = running[j]
                                   /\ retry_attempts'[j] = retry_attempts[j]
    <3>1. Running' = Running \cup {i}
      BY <2>1, <2>2, DispatchOwns
    <3>2. running'[i].attempt = polls[c].attempt
          /\ \A j \in Issues \ {i} : running'[j] = running[j]
      BY <2>1, <2>2, EntryNotNone
    <3> QED
      BY <2>1, <3>1, <3>2 DEF Dispatch, TypeOK
  <2>4. \A j \in Issues \ {i} : Same(j)
    BY <1>10, <2>1, <2>3
  <2>5. /\ Phase(i) = "polling" /\ AttemptOf(i) = polls[c].attempt
        /\ Phase(i)' = "running" /\ AttemptOf(i)' = polls[c].attempt
    BY <2>1, <2>2, <2>3, PollOfIs DEF Phase, AttemptOf
  <2>6. Lifecycle!Resume(i)
    <3>1. Lifecycle!Move(i, "polling", "running", AttemptOf(i))
      BY <2>1, <2>4, <2>5, OneMoves
    <3>2. Lifecycle!HasSlot
      BY <2>1, SlotFree
    <3> QED
      BY <3>1, <3>2 DEF Lifecycle!Resume
  <2> QED
    BY <2>6 DEF Lifecycle!Next
<1>14. ASSUME NEW w \in WorkerIds, AgentEvent(w) PROVE Lifecycle!Next
  BY <1>1, <1>2, <1>3, <1>14 DEF AgentEvent, core
<1>15. ASSUME NEW w \in WorkerIds, NEW o \in Outcomes, WorkerExit(w, o) PROVE Lifecycle!Next
  <2>1. PICK i \in Issues : HandleWorkerExit(i, o)
    BY <1>15 DEF WorkerExit, Live, TypeOK
  <2>2. UNCHANGED <<polls, max_concurrent_agents>>
    BY <1>15 DEF WorkerExit
  <2>3. CASE i \in Running
    <3> DEFINE a == IF o = "normal" THEN 1 ELSE Bump(running[i].attempt)
    <3>1. /\ retry_attempts' = [retry_attempts EXCEPT ![i] = a]
          /\ running' = [running EXCEPT ![i] = None]
      BY <2>1, <2>3 DEF HandleWorkerExit, NoRuns
    <3>2. running[i].attempt \in 0..AttemptCap
      BY <2>3 DEF Running, TypeOK, Entry
    <3>3. a # 0
      BY <3>2, BumpType, ConfigAssumption
    <3>4. i \notin Running' /\ i \in Retrying' /\ retry_attempts'[i] = a
      BY <3>1, <3>3 DEF Running, Retrying, TypeOK
    <3>5. ASSUME NEW j \in Issues \ {i} PROVE Same(j)
      BY <2>2, <3>1, LeftAlone, SamePolls DEF Running, TypeOK
    <3>6. /\ Phase(i) = "running" /\ AttemptOf(i) = running[i].attempt
          /\ Phase(i)' = "waiting" /\ AttemptOf(i)' = a
      BY <2>3, <3>4 DEF Phase, AttemptOf
    <3>7. CASE o = "normal"
      <4>1. Lifecycle!Succeed(i)
        BY <2>2, <3>5, <3>6, <3>7, OneMoves DEF Lifecycle!Succeed
      <4> QED
        BY <4>1 DEF Lifecycle!Next
    <3>8. CASE o # "normal"
      <4>1. Lifecycle!Fail(i)
        BY <2>2, <3>5, <3>6, <3>8, OneMoves DEF Lifecycle!Fail, Lifecycle!Bump, Bump
      <4> QED
        BY <4>1 DEF Lifecycle!Next
    <3> QED
      BY <3>7, <3>8
  <2>4. CASE i \notin Running
    BY <1>1, <1>2, <1>3, <2>1, <2>2, <2>4 DEF HandleWorkerExit
  <2> QED
    BY <2>3, <2>4
<1>16. ASSUME Stop PROVE Lifecycle!Next
  <2>1. /\ Retrying' = {} /\ UNCHANGED <<running, polls, max_concurrent_agents>>
    BY <1>16 DEF Stop, Retrying
  <2>2. UNCHANGED <<Running, Polling, InFlight>>
    BY <2>1, SamePolls DEF Running
  <2>3. ASSUME NEW j \in Issues
        PROVE  /\ Phase(j)' = IF Phase(j) = "waiting" THEN "free" ELSE Phase(j)
               /\ AttemptOf(j)' = IF Phase(j) = "waiting" THEN 0 ELSE AttemptOf(j)
    <3>1. CASE j \in Retrying
      BY <2>1, <2>2, <3>1 DEF Phase, AttemptOf, OneOwner
    <3>2. CASE j \notin Retrying
      <4>1. Phase(j) # "waiting"
        BY <3>2 DEF Phase
      <4>2. PollOf(j)' = PollOf(j)
        BY <2>1, <2>2 DEF PollOf
      <4> QED
        BY <2>1, <2>2, <3>2, <4>1, <4>2 DEF Phase, AttemptOf
    <3> QED
      BY <3>1, <3>2
  <2>4. Lifecycle!CancelAll
    BY <2>1, <2>3 DEF Lifecycle!CancelAll
  <2> QED
    BY <2>4 DEF Lifecycle!Next
<1> QED
  BY <1>4, <1>5, <1>6, <1>7, <1>8, <1>9, <1>11, <1>12, <1>13, <1>14, <1>15, <1>16, StepCases
  DEF DispatchMissionControl

\* The scheduling core implements the life cycle an issue is promised, as long as
\* nothing but the tick and the retry queue dispatches and no run stalls: every
\* step of every callback moves at most one issue, along the cycle (stop() apart),
\* and a run begins only with a slot free.
THEOREM LifecycleImplemented ==
    ASSUME ~MissionControl, ~StallDetection
    PROVE  Spec => ImplementsLifecycle
<1>1. Init => Lifecycle!Init
  BY DEF Init, Lifecycle!Init, Phase, AttemptOf, Running, Retrying, Polling, InFlight
<1>2. /\ TypeOK /\ TypeOK' /\ NoRuns /\ OwnInv /\ OwnInv' /\ [Next]_vars
      => [Lifecycle!Next]_(Lifecycle!vars)
  BY LifecycleStep
<1>3. Init => NoRuns /\ OwnInv
  BY DEF Init, NoRuns, OwnInv, ClaimedIffOwned, OneOwner, Owned, Running, Retrying,
         Polling, InFlight
<1>4. TypeOK /\ NoRuns /\ [Next]_vars => NoRuns'
  BY NoRunsStep
<1>5. TypeOK /\ NoRuns /\ OwnInv /\ [Next]_vars => OwnInv'
  BY OwnStep
<1> QED
  BY <1>1, <1>2, <1>3, <1>4, <1>5, TypeCorrect, PTL
  DEF Spec, ImplementsLifecycle, Lifecycle!Spec

-----------------------------------------------------------------------------
(* What the life cycle says of the back-off *)

\* Attempt numbers are within their bound, whoever carries them.
LEMMA AttemptType == ASSUME TypeOK, NEW i \in Issues PROVE AttemptOf(i) \in 0..AttemptCap
<1>0. AttemptCap \in Nat
  BY ConfigAssumption
<1>1. CASE i \in Running
  BY <1>1 DEF AttemptOf, Running, TypeOK, Entry
<1>2. CASE i \notin Running /\ i \in Retrying
  BY <1>2 DEF AttemptOf, TypeOK
<1>3. CASE i \notin Running /\ i \notin Retrying /\ i \in Polling
  <2>1. PollOf(i).attempt \in 0..AttemptCap
    <3>1. \E c \in InFlight : polls[c].issue = i
      BY <1>3 DEF Polling
    <3>2. \A c \in InFlight : polls[c] \in Call
      BY DEF InFlight, TypeOK
    <3> QED
      BY <3>1, <3>2 DEF PollOf, Call
  <2> QED
    BY <1>3, <2>1 DEF AttemptOf
<1>4. CASE i \notin Running /\ i \notin Retrying /\ i \notin Polling
  BY <1>0, <1>4 DEF AttemptOf
<1> QED
  BY <1>1, <1>2, <1>3, <1>4

\* The issue is let go of, or its run has ended normally and begins the count anew.
Forgives(i) == \/ Phase(i)' = "free"
               \/ Phase(i) = "running" /\ Phase(i)' = "waiting" /\ AttemptOf(i)' = 1

LEMMA LifecycleForgives ==
    ASSUME TypeOK, [Lifecycle!Next]_(Lifecycle!vars), NEW i \in Issues,
           AttemptOf(i)' < AttemptOf(i)
    PROVE  Forgives(i)
<1>0. AttemptOf(i) \in 0..AttemptCap /\ AttemptCap \in Nat
  BY AttemptType, ConfigAssumption
<1>1. ASSUME NEW j \in Issues, NEW from, NEW to, NEW a, Lifecycle!Move(j, from, to, a)
      PROVE  i = j /\ Phase(i) = from /\ Phase(i)' = to /\ AttemptOf(i)' = a
  <2>1. [k \in Issues |-> AttemptOf(k)'] = [[k \in Issues |-> AttemptOf(k)] EXCEPT ![j] = a]
    BY <1>1 DEF Lifecycle!Move
  <2>2. [k \in Issues |-> Phase(k)'] = [[k \in Issues |-> Phase(k)] EXCEPT ![j] = to]
    BY <1>1 DEF Lifecycle!Move
  <2>3. Phase(j) = from
    BY <1>1 DEF Lifecycle!Move
  <2>4. AttemptOf(i)' = IF i = j THEN a ELSE AttemptOf(i)
    BY <2>1
  <2>5. i = j
    BY <1>0, <2>4
  <2>6. Phase(i)' = to
    BY <2>2, <2>5
  <2> QED
    BY <2>3, <2>4, <2>5, <2>6
<1>2. CASE UNCHANGED Lifecycle!vars
  BY <1>0, <1>2 DEF Lifecycle!vars
<1>3. CASE Lifecycle!Reload
  BY <1>0, <1>3 DEF Lifecycle!Reload
<1>4. CASE Lifecycle!CancelAll
  BY <1>0, <1>4 DEF Lifecycle!CancelAll, Forgives
<1>5. ASSUME NEW j \in Issues,
             Lifecycle!Succeed(j) \/ Lifecycle!Close(j) \/ Lifecycle!LetGo(j)
      PROVE  Forgives(i)
  BY <1>1, <1>5 DEF Lifecycle!Succeed, Lifecycle!Close, Lifecycle!LetGo, Forgives
<1>6. ASSUME NEW j \in Issues,
             Lifecycle!Fail(j) \/ Lifecycle!Fire(j) \/ Lifecycle!Requeue(j) \/ Lifecycle!Resume(j)
      PROVE  FALSE
  BY <1>0, <1>1, <1>6
     DEF Lifecycle!Fail, Lifecycle!Fire, Lifecycle!Requeue, Lifecycle!Resume, Lifecycle!Bump
<1>7. ASSUME NEW j \in Issues, Lifecycle!Start(j) PROVE FALSE
  <2>1. Phase(i) = "free" /\ AttemptOf(i)' = 0
    BY <1>1, <1>7 DEF Lifecycle!Start
  <2>2. AttemptOf(i) = 0
    BY <2>1 DEF Phase, AttemptOf
  <2> QED
    BY <2>1, <2>2
<1> QED
  BY <1>2, <1>3, <1>4, <1>5, <1>6, <1>7 DEF Lifecycle!Next

\* The number an issue's next delay is computed from is carried from the run to the retry,
\* the poll and the next run, and falls only when a run has ended normally or the issue is
\* let go of: no failure, however it interleaves, is retried as if it were the first.
THEOREM BackoffKept ==
    ASSUME ~MissionControl, ~StallDetection
    PROVE  Spec => [][\A i \in Issues : AttemptOf(i)' < AttemptOf(i) => Forgives(i)]_vars
<1> DEFINE Kept == \A i \in Issues : AttemptOf(i)' < AttemptOf(i) => Forgives(i)
<1>1. ASSUME TypeOK, TypeOK', NoRuns, ClaimedIffOwned /\ OneOwner,
             (ClaimedIffOwned /\ OneOwner)', [Next]_vars
      PROVE  Kept
  <2>1. [Lifecycle!Next]_(Lifecycle!vars)
    BY <1>1, LifecycleStep DEF OwnInv
  <2> QED
    BY <1>1, <2>1, LifecycleForgives
<1>2. Init => NoRuns
  BY DEF Init, NoRuns
<1>3. TypeOK /\ NoRuns /\ [Next]_vars => NoRuns'
  BY NoRunsStep
<1> HIDE DEF Kept
<1>4. Spec => [][Kept]_vars
  BY <1>1, <1>2, <1>3, TypeCorrect, ClaimsMatchOwners, PTL DEF Spec
<1> QED
  BY <1>4 DEF Kept
=============================================================================
