--------------------------- MODULE AgentRunProofs ---------------------------
(***************************************************************************)
(* The calls of runWorker for one issue, for any number of workers, turns  *)
(* and restarts: their types, that a worker drives one agent at a time and *)
(* what it leaves behind, what an attempt costs, what a directory nobody   *)
(* prepared is due to, what loses a worker, and how many awaits it is from *)
(* its result.                                                             *)
(***************************************************************************)
EXTENDS AgentRun, FiniteSetTheorems, TLAPS

Unopened == {"idle", "creating", "before", "starting", "fallbackStarting"}

\* The agent that runs is the current one; none runs before a session has started,
\* while the next agent starts, and after stop().
AgentInv(w) ==
    /\ sessions[w] \subseteq {current[w]}
    /\ pc[w] \in Unopened \cup {"resuming", "after", "done"} => sessions[w] = {}

\* An app-server that could not initialize is the primary agent that the fallback one
\* replaces, or the worker has failed with it.
StrayInv(w) ==
    /\ pc[w] \in {"idle", "creating", "before", "starting"} => strays[w] = {}
    /\ pc[w] \in Unopened => current[w] = "none"
    /\ current[w] = "none" =>
          \/ pc[w] \in Unopened
          \/ pc[w] \in {"after", "done"} /\ outcome[w] \in {"error", "lost"}
    /\ "primary" \in strays[w] => current[w] # "primary"
    /\ "fallback" \in strays[w] =>
          /\ pc[w] \in {"stopping", "after", "done"} /\ sessions[w] = {}
          /\ outcome[w] \in {"error", "lost"}

\* The runs an attempt may have cost by the end of its current turn.
Allowed(w) ==
    turn[w] + CASE fallback = "none"  -> 0
                [] fallback = "other" -> IF current[w] = "fallback" THEN 1 ELSE 0
                [] fallback = "same"  -> turn[w]

\* Those of them that are still to come.
Left(w) ==
    CASE pc[w] = "turn"                     -> IF fallback = "same" THEN 2 ELSE 1
      [] pc[w] = "rerun"                    -> 1
      [] pc[w] \in {"switching", "resuming"} -> IF fallback = "same" THEN 1 ELSE 0
      [] OTHER                              -> 0

RunInv(w) ==
    /\ pc[w] \in Unopened \cup {"done"} => turn[w] = 0 /\ runs[w] = 0
    /\ pc[w] \in {"switching", "resuming"} => CanFallback(w)
    /\ runs[w] + Left(w) <= Allowed(w)

WorkerInv(w) == AgentInv(w) /\ StrayInv(w) /\ RunInv(w)

Inv == TypeOK /\ (\A w \in Workers : WorkerInv(w)) /\ PartialWorkspaceHasCause

-----------------------------------------------------------------------------

\* Nothing of worker v changes.
Rests(v) ==
    /\ pc'[v] = pc[v] /\ sessions'[v] = sessions[v] /\ strays'[v] = strays[v]
    /\ current'[v] = current[v]
    /\ turn'[v] = turn[v] /\ active'[v] = active[v] /\ outcome'[v] = outcome[v]
    /\ runs'[v] = runs[v]

LEMMA InitInv == Init => Inv
<1> SUFFICES ASSUME Init PROVE Inv
  OBVIOUS
<1> USE ConstantsAssumption
<1>1. TypeOK
  BY DEF Init, TypeOK, Kinds
<1>2. ASSUME NEW w \in Workers PROVE WorkerInv(w)
  BY DEF Init, WorkerInv, AgentInv, StrayInv, RunInv, Allowed, Left, Unopened, TypeOK, CanFallback
<1>3. PartialWorkspaceHasCause
  BY DEF Init, PartialWorkspaceHasCause
<1> QED
  BY <1>1, <1>2, <1>3 DEF Inv

\* A worker that rests keeps what is known of it.
LEMMA RestsInv ==
    ASSUME NEW v \in Workers, WorkerInv(v), Rests(v), UNCHANGED config
    PROVE  WorkerInv(v)'
BY DEF WorkerInv, AgentInv, StrayInv, RunInv, Allowed, Left, CanFallback, Rests, config

\* A step of a worker that does not end the process: only w moves.
Moves(w) ==
    \/ CreateWorkspace(w)
    \/ \E ok \in BOOLEAN : \/ AfterCreate(w, ok)
                           \/ BeforeRun(w, ok)
                           \/ StartSession(w, ok)
                           \/ StartFallback(w, ok)
                           \/ ResumeTurn(w, ok)
    \/ SwitchAgent(w)
    \/ TurnThrows(w)
    \/ \E how \in {"failed", "cancelled", "timeout", "input_required"} : TurnEndsBadly(w, how)
    \/ TurnCompletes(w)
    \/ \E seen \in {"active", "inactive", "missing"} : Refreshed(w, seen)
    \/ RefreshFails(w)
    \/ StopSession(w)
    \/ AfterRun(w)

LEMMA MovesInv ==
    ASSUME NEW w \in Workers, Inv, Moves(w)
    PROVE  /\ TypeOK' /\ UNCHANGED config /\ WorkerInv(w)'
           /\ \A v \in Workers \ {w} : Rests(v)
           /\ turn'[w] > turn[w] /\ turn[w] > 0 => active'[w]
<1> DEFINE Goal == /\ TypeOK' /\ UNCHANGED config /\ WorkerInv(w)'
                   /\ \A v \in Workers \ {w} : Rests(v)
                   /\ turn'[w] > turn[w] /\ turn[w] > 0 => active'[w]
<1> SUFFICES Goal
  OBVIOUS
<1>0. TypeOK /\ WorkerInv(w) /\ fallback \in {"none", "other", "same"} /\ MaxTurns \in Nat
  BY ConstantsAssumption DEF Inv, TypeOK
<1> USE <1>0 DEF TypeOK, Rests, config, Kinds, Goto, Finish, Strands, WorkerInv, AgentInv,
                 StrayInv, RunInv, Allowed, Left, Unopened, CanFallback
<1>1. CASE CreateWorkspace(w)
  BY <1>1 DEF CreateWorkspace
<1>2. ASSUME NEW ok \in BOOLEAN, AfterCreate(w, ok) PROVE Goal
  BY <1>2 DEF AfterCreate
<1>3. ASSUME NEW ok \in BOOLEAN, BeforeRun(w, ok) PROVE Goal
  BY <1>3 DEF BeforeRun, StartAgent, Opened, BeginTurn
<1>4. ASSUME NEW ok \in BOOLEAN, StartSession(w, ok) PROVE Goal
  BY <1>4 DEF StartSession, StartAgent, Opened, BeginTurn
<1>5. ASSUME NEW ok \in BOOLEAN, StartFallback(w, ok) PROVE Goal
  BY <1>5 DEF StartFallback, Opened, BeginTurn
<1>6. ASSUME NEW ok \in BOOLEAN, ResumeTurn(w, ok) PROVE Goal
  BY <1>6 DEF ResumeTurn, Opened
<1>7. CASE SwitchAgent(w)
  BY <1>7 DEF SwitchAgent
<1>8. CASE TurnThrows(w)
  BY <1>8 DEF TurnThrows, InTurn
<1>9. ASSUME NEW how \in {"failed", "cancelled", "timeout", "input_required"}, TurnEndsBadly(w, how)
      PROVE  Goal
  BY <1>9 DEF TurnEndsBadly, InTurn, Status
<1>10. CASE TurnCompletes(w)
  BY <1>10 DEF TurnCompletes, InTurn
<1>11. ASSUME NEW seen \in {"active", "inactive", "missing"}, Refreshed(w, seen) PROVE Goal
  <2>1. active' \in [Workers -> BOOLEAN] /\ \A v \in Workers \ {w} : active'[v] = active[v]
    BY <1>11 DEF Refreshed
  <2>2. CASE active'[w]
    BY <1>11, <2>1, <2>2 DEF Refreshed, BeginTurn
  <2>3. CASE ~active'[w]
    BY <1>11, <2>1, <2>3 DEF Refreshed
  <2> QED
    BY <2>2, <2>3
<1>12. CASE RefreshFails(w)
  BY <1>12 DEF RefreshFails
<1>13. CASE StopSession(w)
  BY <1>13 DEF StopSession
<1>14. CASE AfterRun(w)
  BY <1>14 DEF AfterRun
<1> HIDE DEF Goal, TypeOK, WorkerInv, AgentInv, StrayInv, RunInv
<1> QED
  BY <1>1, <1>2, <1>3, <1>4, <1>5, <1>6, <1>7, <1>8, <1>9, <1>10, <1>11, <1>12, <1>13, <1>14
     DEF Moves
-----------------------------------------------------------------------------
(* The directory, and the steps that are no worker's *)

\* A directory that was created and not prepared stays accounted for: only its
\* creator gets it ready, and leaves it either prepared, or gone, or as its failure.
LEMMA MovesPartial ==
    ASSUME NEW w \in Workers, Inv, Moves(w)
    PROVE  PartialWorkspaceHasCause'
<1> DEFINE Kept == dir' = dir /\ (dir = w => pc[w] # "creating" /\ pc[w] # "done")
<1>0. TypeOK /\ PartialWorkspaceHasCause /\ Workers \cap {"absent", "file", "ready"} = {}
  BY ConstantsAssumption DEF Inv
<1>1. \A v \in Workers \ {w} : pc'[v] = pc[v] /\ outcome'[v] = outcome[v]
  BY MovesInv DEF Rests
<1>2. CASE CreateWorkspace(w)
  BY <1>0, <1>1, <1>2 DEF CreateWorkspace, PartialWorkspaceHasCause, TypeOK, Goto, Finish
<1>3. ASSUME NEW ok \in BOOLEAN, AfterCreate(w, ok) PROVE PartialWorkspaceHasCause'
  BY <1>0, <1>1, <1>3 DEF AfterCreate, PartialWorkspaceHasCause, TypeOK, Goto, Finish
<1>4. CASE Kept
  BY <1>0, <1>1, <1>4 DEF PartialWorkspaceHasCause
<1>5. CreateWorkspace(w) \/ (\E ok \in BOOLEAN : AfterCreate(w, ok)) \/ Kept
  BY DEF Moves, BeforeRun, StartSession, StartFallback, ResumeTurn, SwitchAgent, TurnThrows,
         TurnEndsBadly, TurnCompletes, Refreshed, RefreshFails, StopSession, AfterRun, InTurn
<1> QED
  BY <1>2, <1>3, <1>4, <1>5

\* Whoever dies with the process runs no agent and leaves a directory as lost.
LEMMA DieInv == ASSUME Inv, Die PROVE Inv'
<1>0. TypeOK /\ PartialWorkspaceHasCause /\ (\A w \in Workers : WorkerInv(w))
      /\ fallback \in {"none", "other", "same"} /\ MaxTurns \in Nat
  BY ConstantsAssumption DEF Inv, TypeOK
<1>1. TypeOK'
  <2>1. \A w \in Workers : Driven(w) \subseteq Kinds
    BY <1>0 DEF TypeOK, Driven, Kinds
  <2>2. strays' \in [Workers -> SUBSET Kinds] /\ sessions' \in [Workers -> SUBSET Kinds]
    BY <1>0, <2>1 DEF TypeOK, Die
  <2>3. current' \in [Workers -> Kinds \cup {"none"}] /\ UNCHANGED config
    BY <1>0 DEF TypeOK, Die, config
  <2>4. /\ pc' \in [Workers -> {"idle", "creating", "before", "starting", "fallbackStarting",
                               "turn", "rerun", "switching", "resuming", "refreshing",
                               "stopping", "after", "done"}]
        /\ outcome' \in [Workers -> {"none", "normal", "error", "cancelled", "timeout",
                                    "blocked", "lost"}]
    BY <1>0 DEF TypeOK, Die
  <2>5. turn' \in [Workers -> 0..MaxTurns] /\ runs' \in [Workers -> Nat]
    BY <1>0 DEF TypeOK, Die
  <2>6. active' \in [Workers -> BOOLEAN]
    BY <1>0 DEF TypeOK, Die
  <2>7. remover' = "idle" /\ dir' = dir
    BY DEF Die
  <2> HIDE DEF Kinds
  <2> QED
    BY <1>0, <2>2, <2>3, <2>4, <2>5, <2>6, <2>7 DEF TypeOK, config
<1>2. ASSUME NEW w \in Workers PROVE WorkerInv(w)'
  BY <1>0 DEF TypeOK, Die, Driven, config, WorkerInv, AgentInv, StrayInv, RunInv, Allowed, Left,
              Unopened, CanFallback
<1>3. PartialWorkspaceHasCause'
  BY <1>0 DEF TypeOK, Die, PartialWorkspaceHasCause
<1> QED
  BY <1>1, <1>2, <1>3 DEF Inv

LEMMA RemoverInv == ASSUME Inv, Remove \/ Removed PROVE Inv'
<1>0. TypeOK /\ PartialWorkspaceHasCause /\ (\A w \in Workers : WorkerInv(w))
  BY DEF Inv
<1>1. TypeOK'
  BY <1>0 DEF TypeOK, Remove, Removed, config
<1>2. UNCHANGED config /\ \A w \in Workers : Rests(w)
  BY DEF Remove, Removed, config, Rests
<1>3. PartialWorkspaceHasCause'
  BY <1>0, ConstantsAssumption DEF PartialWorkspaceHasCause, Remove, Removed
<1> QED
  BY <1>0, <1>1, <1>2, <1>3, RestsInv DEF Inv

LEMMA StepMoves ==
    ASSUME NEW w \in Workers, Step(w)
    PROVE  Moves(w) \/ Die
BY DEF Step, Moves, SpawnFails, WriteFails

LEMMA NextInv == Inv /\ [Next]_vars => Inv'
<1> SUFFICES ASSUME Inv, [Next]_vars PROVE Inv'
  OBVIOUS
<1>1. ASSUME NEW w \in Workers, Moves(w) PROVE Inv'
  <2>1. \A v \in Workers : WorkerInv(v)'
    BY <1>1, MovesInv, RestsInv DEF Inv
  <2> QED
    BY <1>1, <2>1, MovesInv, MovesPartial DEF Inv
<1>2. CASE Die
  BY <1>2, DieInv
<1>3. CASE Remove \/ Removed
  BY <1>3, RemoverInv
<1>4. CASE UNCHANGED vars
  <2>1. TypeOK' /\ PartialWorkspaceHasCause' /\ UNCHANGED config /\ \A w \in Workers : Rests(w)
    BY <1>4 DEF Inv, TypeOK, PartialWorkspaceHasCause, vars, config, Rests
  <2> QED
    BY <2>1, RestsInv DEF Inv
<1> QED
  BY <1>1, <1>2, <1>3, <1>4, StepMoves DEF Next, Crash

LEMMA Invariance == Spec => []Inv
BY InitInv, NextInv, PTL DEF Spec

-----------------------------------------------------------------------------
(* The theorems *)

\* Every variable keeps its type: in particular no worker goes past max_turns, whatever
\* agents take over from one another.
THEOREM TypeCorrect == Spec => []TypeOK
<1>1. Inv => TypeOK
  BY DEF Inv
<1> QED
  BY <1>1, Invariance, PTL

\* A worker never drives two agents, although FallbackAgentSession starts one in the middle
\* of a turn of the other.  What an agent may have beside it is the primary app-server whose
\* initialize() threw, and only if it is the fallback agent.
THEOREM OneAgent == Spec => []OneAgentDriven
<1>1. Inv => OneAgentDriven
  <2> SUFFICES ASSUME Inv, NEW w \in Workers
               PROVE  /\ Cardinality(Driven(w)) <= 1
                      /\ Driven(w) # {} => strays[w] \subseteq {"primary"} \ Driven(w)
    BY DEF OneAgentDriven
  <2>0. AgentInv(w) /\ StrayInv(w) /\ strays[w] \subseteq Kinds
    BY DEF Inv, WorkerInv, TypeOK
  <2>1. \/ Driven(w) = sessions[w]
        \/ Driven(w) = {"primary"} /\ pc[w] = "starting"
        \/ Driven(w) = {"fallback"} /\ pc[w] \in {"fallbackStarting", "resuming"}
    BY <2>0 DEF Driven, AgentInv, Unopened
  <2>2. sessions[w] = {} \/ sessions[w] = {current[w]}
    BY <2>0 DEF AgentInv
  <2>3. Driven(w) = {} \/ \E x : Driven(w) = {x}
    BY <2>1, <2>2
  <2>4. Cardinality(Driven(w)) <= 1
    <3>1. CASE Driven(w) = {}
      BY <3>1, FS_EmptySet
    <3>2. ASSUME NEW x, Driven(w) = {x} PROVE Cardinality(Driven(w)) <= 1
      BY <3>2, FS_Singleton
    <3> QED
      BY <2>3, <3>1, <3>2
  <2>5. Driven(w) # {} => strays[w] \subseteq {"primary"} \ Driven(w)
    BY <2>0, <2>1, <2>2 DEF StrayInv, Kinds
  <2> QED
    BY <2>4, <2>5
<1> QED
  BY <1>1, Invariance, PTL

\* However it ends, runWorker has stopped every agent that has initialized before after_run
\* and before its promise settles.  An app-server that has not is left behind only where the
\* fallback agent took over from it, or by a worker that reports an error or is lost.
THEOREM AgentsStopped == Spec => []AgentsStoppedBeforeAfterRun
<1>1. Inv => AgentsStoppedBeforeAfterRun
  <2> SUFFICES ASSUME Inv, NEW w \in Workers, pc[w] \in {"after", "done"}
               PROVE  /\ sessions[w] = {}
                      /\ \/ strays[w] = {}
                         \/ strays[w] = {"primary"} /\ current[w] = "fallback"
                         \/ outcome[w] \in {"error", "lost"}
    BY DEF AgentsStoppedBeforeAfterRun
  <2>1. AgentInv(w) /\ StrayInv(w) /\ strays[w] \subseteq Kinds /\ current[w] \in Kinds \cup {"none"}
    BY DEF Inv, WorkerInv, TypeOK
  <2>2. sessions[w] = {}
    BY <2>1 DEF AgentInv
  <2>3. current[w] = "none" => outcome[w] \in {"error", "lost"}
    BY <2>1 DEF StrayInv, Unopened
  <2> QED
    BY <2>1, <2>2, <2>3 DEF StrayInv, Kinds
<1> QED
  BY <1>1, Invariance, PTL

\* An attempt costs one run of an agent per turn and one more for the switch to a
\* fallback agent; only a fallback agent of the primary's kind doubles the price.
THEOREM RunsBounded == Spec => []RunsAreBounded
<1>1. Inv => RunsAreBounded
  <2> SUFFICES ASSUME Inv, NEW w \in Workers
               PROVE  runs[w] <= MaxTurns + CASE fallback = "none"  -> 0
                                              [] fallback = "other" -> 1
                                              [] fallback = "same"  -> MaxTurns
    BY DEF RunsAreBounded
  <2>1. /\ fallback \in {"none", "other", "same"} /\ MaxTurns \in Nat
        /\ turn[w] \in 0..MaxTurns /\ runs[w] \in Nat
    BY ConstantsAssumption DEF Inv, TypeOK
  <2>2. runs[w] + Left(w) <= Allowed(w)
    BY DEF Inv, WorkerInv, RunInv
  <2>3. Left(w) \in Nat
    BY DEF Left
  <2> QED
    BY <2>1, <2>2, <2>3 DEF Allowed
<1> QED
  BY <1>1, Invariance, PTL

\* A directory whose after_create has not succeeded is being prepared, or is what a
\* crash or a failed removal left behind; no worker goes on in it.
THEOREM PartialWorkspace == Spec => []PartialWorkspaceHasCause
<1>1. Inv => PartialWorkspaceHasCause
  BY DEF Inv
<1> QED
  BY <1>1, Invariance, PTL

\* After its first turn a worker begins one only for an issue the tracker has just
\* given an active state, or had given one before it left the issue out.
THEOREM TurnsNeedActiveIssue == Spec => NoTurnForInactiveIssue
<1> DEFINE Quiet == \A w \in Workers : turn'[w] > turn[w] /\ turn[w] > 0 => active'[w]
<1>1. Inv /\ [Next]_vars => [Quiet]_vars
  <2> SUFFICES ASSUME Inv, Next, NEW w \in Workers, turn'[w] > turn[w], turn[w] > 0
               PROVE  active'[w]
    OBVIOUS
  <2>0. turn[w] \in Nat
    BY DEF Inv, TypeOK
  <2>1. ASSUME NEW v \in Workers, Moves(v) PROVE active'[w]
    <3>1. v = w
      BY <2>0, <2>1, MovesInv DEF Rests
    <3> QED
      BY <2>1, <3>1, MovesInv
  <2>2. Crash \/ Die \/ Remove \/ Removed => turn'[w] = turn[w] \/ turn'[w] = 0
    BY DEF Crash, Die, Remove, Removed
  <2>3. PICK v \in Workers : Moves(v)
    BY <2>0, <2>2, StepMoves DEF Next
  <2> QED
    BY <2>1, <2>3
<1> QED
  BY <1>1, Invariance, PTL DEF Spec, NoTurnForInactiveIssue

-----------------------------------------------------------------------------
(* What a worker is lost to *)

\* Worker w has been given the workspace, or is preparing it, and may still start an
\* agent there.
InWorkspace(w) ==
    pc[w] \in {"creating", "before", "starting", "fallbackStarting", "turn", "rerun", "switching",
               "resuming", "refreshing"}

\* The directory is removed while a worker is in it: by the tick, for an issue that
\* was closed, or by another worker whose after_create has failed.
RemovedFromUnder ==
    /\ dir # "absent" /\ dir' = "absent"
    /\ \E w \in Workers : InWorkspace(w)'

InPlace == \A w \in Workers : InWorkspace(w) => dir # "absent"

\* A worker enters a workspace that is there, and no move of its own loses it.
LEMMA MovesInPlace ==
    ASSUME NEW w \in Workers, Inv, Moves(w)
    PROVE  /\ InWorkspace(w)' => InWorkspace(w) \/ dir' # "absent"
           /\ outcome'[w] = "lost" => outcome[w] = "lost"
<1> DEFINE Goal == /\ InWorkspace(w)' => InWorkspace(w) \/ dir' # "absent"
                   /\ outcome'[w] = "lost" => outcome[w] = "lost"
<1> SUFFICES Goal
  OBVIOUS
<1>0. TypeOK /\ Workers \cap {"absent", "file", "ready"} = {}
  BY ConstantsAssumption DEF Inv
<1> USE <1>0 DEF TypeOK, Kinds, Goto, Finish, InWorkspace
<1>1. CASE CreateWorkspace(w)
  BY <1>1 DEF CreateWorkspace
<1>2. ASSUME NEW ok \in BOOLEAN, AfterCreate(w, ok) PROVE Goal
  BY <1>2 DEF AfterCreate
<1>3. ASSUME NEW ok \in BOOLEAN, BeforeRun(w, ok) PROVE Goal
  BY <1>3 DEF BeforeRun, StartAgent, Opened, BeginTurn
<1>4. ASSUME NEW ok \in BOOLEAN, StartSession(w, ok) PROVE Goal
  BY <1>4 DEF StartSession, StartAgent, Opened, BeginTurn
<1>5. ASSUME NEW ok \in BOOLEAN, StartFallback(w, ok) PROVE Goal
  BY <1>5 DEF StartFallback, Opened, BeginTurn
<1>6. ASSUME NEW ok \in BOOLEAN, ResumeTurn(w, ok) PROVE Goal
  BY <1>6 DEF ResumeTurn, Opened
<1>7. CASE SwitchAgent(w)
  BY <1>7 DEF SwitchAgent
<1>8. CASE TurnThrows(w)
  BY <1>8 DEF TurnThrows, InTurn
<1>9. ASSUME NEW how \in {"failed", "cancelled", "timeout", "input_required"}, TurnEndsBadly(w, how)
      PROVE  Goal
  BY <1>9 DEF TurnEndsBadly, InTurn, Status
<1>10. CASE TurnCompletes(w)
  BY <1>10 DEF TurnCompletes, InTurn
<1>11. ASSUME NEW seen \in {"active", "inactive", "missing"}, Refreshed(w, seen) PROVE Goal
  BY <1>11 DEF Refreshed, BeginTurn
<1>12. CASE RefreshFails(w)
  BY <1>12 DEF RefreshFails
<1>13. CASE StopSession(w)
  BY <1>13 DEF StopSession
<1>14. CASE AfterRun(w)
  BY <1>14 DEF AfterRun
<1> HIDE DEF Goal, TypeOK, InWorkspace
<1> QED
  BY <1>1, <1>2, <1>3, <1>4, <1>5, <1>6, <1>7, <1>8, <1>9, <1>10, <1>11, <1>12, <1>13, <1>14
     DEF Moves

LEMMA NextInPlace ==
    Inv /\ InPlace /\ [Next]_vars /\ ~RemovedFromUnder => InPlace'
<1> SUFFICES ASSUME Inv, InPlace, [Next]_vars, ~RemovedFromUnder, NEW w \in Workers,
                    InWorkspace(w)', dir' = "absent"
             PROVE  FALSE
  BY DEF InPlace
<1>1. dir = "absent"
  BY DEF RemovedFromUnder
<1>2. ~InWorkspace(w)
  BY <1>1 DEF InPlace
<1>3. ASSUME NEW v \in Workers, Moves(v) PROVE FALSE
  <2>1. v = w
    BY <1>2, <1>3, MovesInv DEF Rests, InWorkspace
  <2> QED
    BY <1>2, <1>3, <2>1, MovesInPlace
<1>4. CASE Die \/ Crash
  BY <1>2, <1>4 DEF Die, Crash, InWorkspace
<1>5. CASE Remove \/ Removed \/ UNCHANGED vars
  BY <1>2, <1>5 DEF Remove, Removed, vars, InWorkspace
<1> QED
  BY <1>3, <1>4, <1>5, StepMoves DEF Next

\* As long as nobody removes the directory from under a worker, every agent is spawned in a
\* directory that is there; then a worker is lost only to what Failures names: to a process
\* that the system refuses, to an agent that dies when it is written to, or to a kill.
THEOREM LostWithDirectory ==
    Spec /\ [][~RemovedFromUnder]_vars =>
        /\ [](\A w \in Workers : Spawns(w) => CanSpawn)
        /\ []LostOnlyByKill
<1>1. Init => InPlace /\ LostOnlyByKill
  BY DEF Init, InPlace, InWorkspace, LostOnlyByKill
<1>2. Inv /\ InPlace /\ [Next]_vars /\ [~RemovedFromUnder]_vars => InPlace'
  <2>1. UNCHANGED vars => ~RemovedFromUnder
    BY DEF vars, RemovedFromUnder
  <2> QED
    BY <2>1, NextInPlace
<1>3. InPlace => \A w \in Workers : Spawns(w) => CanSpawn
  BY DEF InPlace, InWorkspace, Spawns, CanSpawn
<1>4. Inv /\ InPlace /\ LostOnlyByKill /\ [Next]_vars => LostOnlyByKill'
  <2> SUFFICES ASSUME Inv, InPlace, LostOnlyByKill, [Next]_vars, Failures = {}, NEW w \in Workers,
                      outcome'[w] = "lost"
               PROVE  FALSE
    BY DEF LostOnlyByKill
  <2>1. outcome[w] # "lost"
    BY DEF LostOnlyByKill
  <2>2. ASSUME NEW v \in Workers, Moves(v) PROVE FALSE
    <3>1. v = w
      BY <2>1, <2>2, MovesInv DEF Rests
    <3> QED
      BY <2>1, <2>2, <3>1, MovesInPlace
  <2>3. ASSUME NEW v \in Workers PROVE ~SpawnFails(v) /\ ~WriteFails(v)
    BY <1>3, <2>3 DEF SpawnFails, WriteFails
  <2>4. ~Crash /\ outcome' # outcome
    BY <2>1 DEF Crash
  <2> QED
    BY <2>2, <2>3, <2>4 DEF Next, Step, Moves, Remove, Removed, vars
<1> QED
  BY <1>1, <1>2, <1>3, <1>4, Invariance, PTL DEF Spec

-----------------------------------------------------------------------------
(* Why a worker returns *)

\* The awaits a worker has before it in its turn, at most: the first agent's run, its
\* stop(), the start of the other agent, that one's run, the tracker's answer, and the two
\* at the end.
Ahead(l) == CASE l = "done" -> 0
              [] l = "after" -> 1
              [] l = "stopping" -> 2
              [] l \in {"refreshing", "fallbackStarting"} -> 3
              [] l \in {"rerun", "starting"} -> 4
              [] l \in {"resuming", "before"} -> 5
              [] l \in {"switching", "creating"} -> 6
              [] l \in {"turn", "idle"} -> 7

\* All it has before it: the turns to come, of five awaits each, as well.
Ending(w) == pc[w] \in {"done", "after", "stopping"}
AwaitsLeft(w) == Ahead(pc[w]) + IF Ending(w) THEN 0 ELSE 5 * (MaxTurns - turn[w])

LEMMA AheadIs ==
    /\ Ahead("done") = 0 /\ Ahead("after") = 1 /\ Ahead("stopping") = 2
    /\ Ahead("refreshing") = 3 /\ Ahead("fallbackStarting") = 3
    /\ Ahead("rerun") = 4 /\ Ahead("starting") = 4
    /\ Ahead("resuming") = 5 /\ Ahead("before") = 5
    /\ Ahead("switching") = 6 /\ Ahead("creating") = 6
    /\ Ahead("turn") = 7 /\ Ahead("idle") = 7
BY DEF Ahead

LEMMA AwaitsAreBounded ==
    ASSUME TypeOK, NEW w \in Workers PROVE AwaitsLeft(w) \in 0..(5 * MaxTurns + 7)
<1>1. turn[w] \in 0..MaxTurns /\ MaxTurns \in Nat
  BY ConstantsAssumption DEF TypeOK
<1>2. pc[w] \in {"idle", "creating", "before", "starting", "fallbackStarting", "turn", "rerun",
                 "switching", "resuming", "refreshing", "stopping", "after", "done"}
  BY DEF TypeOK
<1>3. Ahead(pc[w]) \in 0..7
  BY <1>2, AheadIs
<1> QED
  BY <1>1, <1>3 DEF AwaitsLeft

\* The next turn, or the end, is nearer than the tracker's answer was.
LEMMA TurnForward ==
    ASSUME NEW w \in Workers, TypeOK, NEW k, BeginTurn(w, k),
           pc[w] \in {"refreshing", "fallbackStarting", "starting", "before"}
    PROVE  AwaitsLeft(w)' < AwaitsLeft(w)
<1>0. turn[w] \in 0..MaxTurns /\ MaxTurns \in Nat
  BY ConstantsAssumption DEF TypeOK
<1>1. Ahead(pc[w]) >= 3 /\ Ahead(pc[w]) \in Nat /\ ~Ending(w)
  BY AheadIs DEF Ending
<1>2. CASE pc'[w] = "turn" /\ turn'[w] = turn[w] + 1 /\ turn[w] < MaxTurns
  BY <1>0, <1>1, <1>2, AheadIs DEF AwaitsLeft, Ending
<1>3. CASE pc'[w] = "stopping"
  BY <1>0, <1>1, <1>3, AheadIs DEF AwaitsLeft, Ending
<1> QED
  BY <1>2, <1>3 DEF BeginTurn, Finish, Goto, TypeOK

\* So is whatever else follows without a turn in between.
LEMMA AwaitForward ==
    ASSUME NEW w \in Workers, TypeOK, TypeOK', turn'[w] = turn[w] \/ pc'[w] = "done",
           Ahead(pc'[w]) < Ahead(pc[w])
    PROVE  AwaitsLeft(w)' < AwaitsLeft(w)
<1> DEFINE Labels == {"idle", "creating", "before", "starting", "fallbackStarting", "turn", "rerun",
                      "switching", "resuming", "refreshing", "stopping", "after", "done"}
<1>0. turn[w] \in 0..MaxTurns /\ MaxTurns \in Nat /\ pc[w] \in Labels /\ pc'[w] \in Labels
  BY ConstantsAssumption DEF TypeOK
<1>1. \A l \in Labels : Ahead(l) \in Nat /\ (l \in {"done", "after", "stopping"} <=> Ahead(l) <= 2)
  BY AheadIs
<1>2. Ending(w) => Ending(w)'
  BY <1>0, <1>1 DEF Ending
<1> HIDE DEF Labels
<1>3. Ahead(pc[w]) \in Nat /\ Ahead(pc'[w]) \in Nat
  BY <1>0, <1>1
<1>4. CASE pc'[w] = "done"
  BY <1>0, <1>3, <1>4, AheadIs DEF AwaitsLeft, Ending
<1>5. CASE turn'[w] = turn[w]
  BY <1>0, <1>2, <1>3, <1>5 DEF AwaitsLeft
<1> QED
  BY <1>4, <1>5

LEMMA MovesForward ==
    ASSUME NEW w \in Workers, Inv, Moves(w) PROVE AwaitsLeft(w)' < AwaitsLeft(w)
<1> DEFINE Turns == /\ \E k \in Kinds \cup {"none"} : BeginTurn(w, k)
                    /\ pc[w] \in {"refreshing", "fallbackStarting", "starting", "before"}
           Goes  == /\ turn'[w] = turn[w] \/ pc'[w] = "done"
                    /\ Ahead(pc'[w]) < Ahead(pc[w])
           Goal  == Turns \/ Goes
<1>0. TypeOK /\ TypeOK'
  BY MovesInv DEF Inv
<1> SUFFICES Goal
  BY <1>0, TurnForward, AwaitForward
<1> USE <1>0, AheadIs DEF TypeOK, Kinds, Goto, Finish
<1>1. CASE CreateWorkspace(w)
  BY <1>1 DEF CreateWorkspace
<1>2. ASSUME NEW ok \in BOOLEAN, AfterCreate(w, ok) PROVE Goal
  BY <1>2 DEF AfterCreate
<1>3. ASSUME NEW ok \in BOOLEAN, BeforeRun(w, ok) PROVE Goal
  BY <1>3 DEF BeforeRun, StartAgent
<1>4. ASSUME NEW ok \in BOOLEAN, StartSession(w, ok) PROVE Goal
  BY <1>4 DEF StartSession, StartAgent
<1>5. ASSUME NEW ok \in BOOLEAN, StartFallback(w, ok) PROVE Goal
  BY <1>5 DEF StartFallback
<1>6. ASSUME NEW ok \in BOOLEAN, ResumeTurn(w, ok) PROVE Goal
  BY <1>6 DEF ResumeTurn
<1>7. CASE SwitchAgent(w)
  BY <1>7 DEF SwitchAgent
<1>8. CASE TurnThrows(w)
  BY <1>8 DEF TurnThrows, InTurn
<1>9. ASSUME NEW how \in {"failed", "cancelled", "timeout", "input_required"}, TurnEndsBadly(w, how)
      PROVE  Goal
  BY <1>9 DEF TurnEndsBadly, InTurn
<1>10. CASE TurnCompletes(w)
  BY <1>10 DEF TurnCompletes, InTurn
<1>11. ASSUME NEW seen \in {"active", "inactive", "missing"}, Refreshed(w, seen) PROVE Goal
  BY <1>11 DEF Refreshed
<1>12. CASE RefreshFails(w)
  BY <1>12 DEF RefreshFails
<1>13. CASE StopSession(w)
  BY <1>13 DEF StopSession
<1>14. CASE AfterRun(w)
  BY <1>14 DEF AfterRun
<1> HIDE DEF Goal, TypeOK
<1> QED
  BY <1>1, <1>2, <1>3, <1>4, <1>5, <1>6, <1>7, <1>8, <1>9, <1>10, <1>11, <1>12, <1>13, <1>14
     DEF Moves

\* runWorker is no loop without an end: every await of a worker that returns brings it closer
\* to its result, from which it is at most seven awaits and five for each turn away, and nothing
\* that happens beside it, the removal of its workspace, another worker, the end of the
\* process, takes it back.
THEOREM WorkersGoForward ==
    Spec => /\ [](\A w \in Workers : AwaitsLeft(w) \in 0..(5 * MaxTurns + 7))
            /\ [][\A w \in Workers : /\ AwaitsLeft(w)' <= AwaitsLeft(w)
                                     /\ Step(w) => AwaitsLeft(w)' < AwaitsLeft(w)]_vars
<1> DEFINE Forward == \A w \in Workers : /\ AwaitsLeft(w)' <= AwaitsLeft(w)
                                         /\ Step(w) => AwaitsLeft(w)' < AwaitsLeft(w)
<1>1. Inv /\ Inv' /\ [Next]_vars => [Forward]_vars
  <2> SUFFICES ASSUME Inv, Inv', Next, NEW w \in Workers
               PROVE  /\ AwaitsLeft(w)' <= AwaitsLeft(w)
                      /\ Step(w) => AwaitsLeft(w)' < AwaitsLeft(w)
    OBVIOUS
  <2>1. AwaitsLeft(w) \in Nat /\ AwaitsLeft(w)' \in Nat
    <3>1. TypeOK /\ TypeOK'
      BY DEF Inv
    <3>2. turn'[w] \in 0..MaxTurns /\ Ahead(pc'[w]) \in 0..7
      <4>1. pc'[w] \in {"idle", "creating", "before", "starting", "fallbackStarting", "turn", "rerun",
                        "switching", "resuming", "refreshing", "stopping", "after", "done"}
        BY <3>1 DEF TypeOK
      <4> QED
        BY <3>1, <4>1, AheadIs DEF TypeOK
    <3>3. AwaitsLeft(w) \in 0..(5 * MaxTurns + 7)
      BY <3>1, AwaitsAreBounded
    <3> QED
      BY <3>2, <3>3, ConstantsAssumption DEF AwaitsLeft
  <2>2. ASSUME UNCHANGED <<pc, turn>> PROVE AwaitsLeft(w)' = AwaitsLeft(w)
    BY <2>2 DEF AwaitsLeft, Ending
  <2>3. ASSUME Die PROVE AwaitsLeft(w)' <= AwaitsLeft(w)
    <3>1. CASE pc'[w] = "done"
      <4>1. AwaitsLeft(w)' = 0
        BY <3>1, AheadIs DEF AwaitsLeft, Ending
      <4> QED
        BY <2>1, <4>1
    <3>2. CASE pc'[w] = pc[w]
      BY <2>1, <2>3, <3>2 DEF Die, AwaitsLeft, Ending
    <3> QED
      BY <2>3, <3>1, <3>2 DEF Die
  <2>4. ASSUME SpawnFails(w) \/ WriteFails(w) PROVE AwaitsLeft(w)' < AwaitsLeft(w)
    <3>1. /\ pc[w] \in {"before", "starting", "fallbackStarting", "turn", "rerun", "switching",
                        "resuming", "refreshing"}
          /\ Die
      BY <2>4 DEF SpawnFails, Spawns, WriteFails, InTurn
    <3>2. AwaitsLeft(w)' = 0
      BY <3>1, AheadIs DEF Die, AwaitsLeft, Ending
    <3>3. AwaitsLeft(w) # 0
      <4>1. turn[w] \in 0..MaxTurns /\ MaxTurns \in Nat
        BY ConstantsAssumption DEF Inv, TypeOK
      <4>2. Ahead(pc[w]) \in 3..7 /\ ~Ending(w)
        BY <3>1, AheadIs DEF Ending
      <4> QED
        BY <4>1, <4>2 DEF AwaitsLeft
    <3> QED
      BY <2>1, <3>2, <3>3
  <2>5. ASSUME NEW v \in Workers, Moves(v) PROVE AwaitsLeft(w)' <= AwaitsLeft(w)
    <3>1. CASE v = w
      BY <2>1, <2>5, <3>1, MovesForward
    <3>2. CASE v # w
      <4>1. pc'[w] = pc[w] /\ turn'[w] = turn[w]
        BY <2>5, <3>2, MovesInv DEF Rests
      <4>2. AwaitsLeft(w)' = AwaitsLeft(w)
        BY <4>1 DEF AwaitsLeft, Ending
      <4> QED
        BY <2>1, <4>2
    <3> QED
      BY <3>1, <3>2
  <2>6. Step(w) => AwaitsLeft(w)' < AwaitsLeft(w)
    BY <2>4, MovesForward DEF Step, Moves
  <2>7. AwaitsLeft(w)' <= AwaitsLeft(w)
    BY <2>1, <2>2, <2>3, <2>5, StepMoves DEF Next, Crash, Remove, Removed
  <2> QED
    BY <2>6, <2>7
<1>2. Inv => \A w \in Workers : AwaitsLeft(w) \in 0..(5 * MaxTurns + 7)
  BY AwaitsAreBounded DEF Inv
<1> QED
  BY <1>1, <1>2, Invariance, PTL DEF Spec
=============================================================================
