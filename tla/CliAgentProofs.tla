--------------------------- MODULE CliAgentProofs ---------------------------
(***************************************************************************)
(* A session of an agent that is a process per turn, for any number of     *)
(* turns and of lines: its types, that a turn which ended has no process   *)
(* left, and that its caller sees an AgentSession.                         *)
(***************************************************************************)
EXTENDS CliAgent, SequenceTheorems, TLAPS

\* What is known of turn t in every state.
TurnInv(t) ==
    /\ turns[t].settling => turns[t].child = "gone"
    /\ turns[t].result # "none" => turns[t].child # "up"

\* Only the last turn can be without a result, and only while the caller awaits it.
CallInv ==
    /\ \A t \in 1..Len(turns) :
          turns[t].result = "none" => t = Len(turns) /\ pc \in {"turn", "crashed"}
    /\ pc = "turn" => turns # << >> /\ turns[Len(turns)].result = "none"
    /\ pc = "stopping" => turns # << >>

Inv == TypeOK /\ (\A t \in 1..Len(turns) : TurnInv(t)) /\ CallInv

-----------------------------------------------------------------------------
(* One turn is changed *)

LEMMA TurnType == ASSUME TypeOK, NEW t \in 1..Len(turns) PROVE turns[t] \in Turn
BY ElementOfSeq DEF TypeOK

\* A sequence of turns in which turn t is replaced by u.
LEMMA Replaced ==
    ASSUME TypeOK, NEW t \in 1..Len(turns), NEW u \in Turn,
           turns' = [turns EXCEPT ![t] = u]
    PROVE  /\ turns' \in Seq(Turn) /\ Len(turns') = Len(turns)
           /\ turns'[t] = u
           /\ \A s \in 1..Len(turns) : s # t => turns'[s] = turns[s]
BY ExceptSeq DEF TypeOK

-----------------------------------------------------------------------------
(* Whatever happens to a turn, seen from the turn and from the caller *)

\* Turn t becomes u, and the caller notices nothing; or its result, which it had not
\* yet, and no process is left of it; or that the process stop() waits for is gone.
Happens(t, u) ==
    /\ turns' = [turns EXCEPT ![t] = u]
    /\ u.settling => u.child = "gone"
    /\ turns[t].child # "up" => u.child # "up"
    /\ \/ u.result = turns[t].result /\ pc' = pc
       \/ /\ turns[t].result = "none" /\ u.result \in {"completed", "failed", "timeout"}
          /\ u.child # "up" /\ (u.result # "timeout" => turns[t].child # "up")
          /\ pc' = IF u.result = "completed" THEN "ready" ELSE "over"
       \/ /\ u.result = turns[t].result /\ u.child # "up"
          /\ pc = "stopping" /\ t = Len(turns) /\ pc' = "stopped"

\* Settle gives turn t, now u, its result, unless it has one.
LEMMA SettleHappens ==
    ASSUME TypeOK, NEW t \in 1..Len(turns), NEW u \in Turn, u.result = turns[t].result,
           u.settling => u.child = "gone", u.child # "up",
           NEW status \in {"completed", "failed", "timeout"},
           status # "timeout" => turns[t].child # "up", Settle(t, u, status)
    PROVE  \E v \in Turn : Happens(t, v)
<1>1. CASE turns[t].result = "none"
  <2> DEFINE v == [u EXCEPT !.result = status]
  <2>1. v \in Turn /\ v.settling = u.settling /\ v.child = u.child /\ v.result = status
    BY DEF Turn
  <2>2. turns' = [turns EXCEPT ![t] = v]
        /\ pc' = IF status = "completed" THEN "ready" ELSE "over"
    BY <1>1 DEF Settle
  <2> HIDE DEF v
  <2>3. Happens(t, v)
    BY <1>1, <2>1, <2>2 DEF Happens
  <2> QED
    BY <2>1, <2>3
<1>2. CASE turns[t].result # "none"
  BY <1>2 DEF Settle, Happens
<1> QED
  BY <1>1, <1>2

\* Every event of a turn, and every step of its child, is of this form.
LEMMA TurnHappens ==
    ASSUME TypeOK, NEW t \in 1..Len(turns), TurnInv(t), ChildStep(t) \/ LineArrives(t) \/ Event(t)
    PROVE  kind' = kind /\ \E u \in Turn : Happens(t, u)
<1> USE TurnType DEF TurnInv
<1>0. turns[t] \in Turn
  OBVIOUS
<1>1. ASSUME NEW line \in Line, ChildWrites(t, line)
      PROVE  kind' = kind /\ \E u \in Turn : Happens(t, u)
  <2> DEFINE u == [turns[t] EXCEPT !.pipe = Append(@, line)]
  <2>1. Append(turns[t].pipe, line) \in Seq(Line)
    BY <1>0 DEF Turn
  <2>2. u \in Turn /\ u.child = turns[t].child /\ u.result = turns[t].result
        /\ u.settling = turns[t].settling
    BY <1>0, <2>1 DEF Turn
  <2>3. turns' = [turns EXCEPT ![t] = u] /\ pc' = pc /\ kind' = kind
    BY <1>1 DEF ChildWrites
  <2> HIDE DEF u
  <2> QED
    BY <2>2, <2>3 DEF Happens
<1>2. ASSUME NEW clean \in BOOLEAN, ChildExits(t, clean)
      PROVE  kind' = kind /\ \E u \in Turn : Happens(t, u)
  <2> DEFINE u == [turns[t] EXCEPT !.child = "dead", !.clean = clean]
  <2>2. u \in Turn /\ u.child = "dead" /\ u.result = turns[t].result
        /\ u.settling = turns[t].settling /\ turns[t].child = "up"
    BY <1>0, <1>2 DEF Turn, ChildExits
  <2>3. turns' = [turns EXCEPT ![t] = u] /\ pc' = pc /\ kind' = kind
    BY <1>2 DEF ChildExits, TypeOK
  <2> HIDE DEF u
  <2> QED
    BY <2>2, <2>3 DEF Happens
<1>3. CASE LineArrives(t)
  <2> DEFINE done == turns[t].completed \/ (turns[t].open /\ kind = "codex"
                                              /\ Head(turns[t].pipe) = "done")
             u == [turns[t] EXCEPT !.pipe = Tail(@), !.completed = done]
  <2>1. Tail(turns[t].pipe) \in Seq(Line) /\ done \in BOOLEAN
    BY <1>0, <1>3 DEF Turn, LineArrives
  <2>3. turns' = [turns EXCEPT ![t] = u] /\ pc' = pc /\ kind' = kind
    BY <1>3 DEF LineArrives
  <2> HIDE DEF done
  <2>2. u \in Turn /\ u.child = turns[t].child /\ u.result = turns[t].result
        /\ u.settling = turns[t].settling
    BY <1>0, <2>1 DEF Turn
  <2> HIDE DEF u
  <2> QED
    BY <2>2, <2>3 DEF Happens
<1>4. CASE ExitEvent(t)
  <2> DEFINE u == [turns[t] EXCEPT !.child = "gone", !.timer = FALSE,
                                   !.open = (kind = "claude"), !.settling = (kind = "codex")]
  <2>1. u \in Turn /\ u.child = "gone" /\ u.result = turns[t].result
    BY <1>0 DEF Turn
  <2>2. turns[t].child = "dead" /\ kind' = kind
    BY <1>4 DEF ExitEvent
  <2>3. \/ turns' = [turns EXCEPT ![t] = u] /\ pc = "stopping" /\ t = Len(turns) /\ pc' = "stopped"
        \/ turns' = [turns EXCEPT ![t] = u] /\ pc' = pc
        \/ Settle(t, u, IF turns[t].clean THEN "completed" ELSE "failed")
    BY <1>4 DEF ExitEvent
  <2> HIDE DEF u
  <2>4. CASE turns' = [turns EXCEPT ![t] = u] /\ pc = "stopping" /\ t = Len(turns) /\ pc' = "stopped"
    BY <2>1, <2>2, <2>4 DEF Happens
  <2>5. CASE turns' = [turns EXCEPT ![t] = u] /\ pc' = pc
    BY <2>1, <2>2, <2>5 DEF Happens
  <2>6. CASE Settle(t, u, IF turns[t].clean THEN "completed" ELSE "failed")
    BY <2>1, <2>2, <2>6, SettleHappens
  <2> QED
    BY <2>2, <2>3, <2>4, <2>5, <2>6
<1>5. CASE OutputRead(t)
  <2> DEFINE u == [turns[t] EXCEPT !.settling = FALSE]
  <2>1. u \in Turn /\ u.child = "gone" /\ turns[t].child = "gone" /\ u.result = turns[t].result
    BY <1>0, <1>5 DEF Turn, OutputRead
  <2>2. kind' = kind
        /\ Settle(t, u, IF turns[t].clean \/ turns[t].completed THEN "completed" ELSE "failed")
    BY <1>5 DEF OutputRead
  <2> HIDE DEF u
  <2> QED
    BY <2>1, <2>2, SettleHappens
<1>6. CASE TurnTimeout(t)
  <2> DEFINE u == [turns[t] EXCEPT !.timer = FALSE, !.child = IF @ = "up" THEN "dead" ELSE @]
  <2>1. /\ u \in Turn /\ u.child # "up" /\ u.result = turns[t].result
        /\ u.settling => u.child = "gone"
    BY <1>0 DEF Turn
  <2>2. kind' = kind /\ Settle(t, u, "timeout")
    BY <1>6 DEF TurnTimeout
  <2> HIDE DEF u
  <2> QED
    BY <2>1, <2>2, SettleHappens
<1> QED
  BY <1>1, <1>2, <1>3, <1>4, <1>5, <1>6 DEF ChildStep, Event

\* So is the end of stop()'s patience.
LEMMA StopTimeoutHappens ==
    ASSUME TypeOK, turns # << >>, TurnInv(Len(turns)), StopTimeout
    PROVE  /\ Len(turns) \in 1..Len(turns) /\ kind' = kind
           /\ \E u \in Turn : Happens(Len(turns), u)
<1>1. Len(turns) \in 1..Len(turns)
  BY DEF TypeOK
<1> DEFINE t == Len(turns)
           u == [turns[t] EXCEPT !.child = IF @ = "up" THEN "dead" ELSE @]
<1>2. turns[t] \in Turn
  BY <1>1, TurnType
<1>3. /\ u \in Turn /\ u.child # "up" /\ u.result = turns[t].result
      /\ u.settling => u.child = "gone"
  BY <1>2 DEF Turn, TurnInv
<1>4. turns' = [turns EXCEPT ![t] = u] /\ pc = "stopping" /\ pc' = "stopped" /\ kind' = kind
  BY DEF StopTimeout
<1> HIDE DEF u
<1>5. Happens(t, u)
  BY <1>3, <1>4 DEF Happens
<1> QED
  BY <1>1, <1>3, <1>4, <1>5

-----------------------------------------------------------------------------
(* The invariant *)

LEMMA HappensKeepsInv ==
    ASSUME Inv, pc # "crashed", NEW t \in 1..Len(turns), NEW u \in Turn, Happens(t, u), kind' = kind
    PROVE  Inv'
<1>1. /\ turns' \in Seq(Turn) /\ Len(turns') = Len(turns) /\ turns'[t] = u
      /\ \A s \in 1..Len(turns) : s # t => turns'[s] = turns[s]
  BY Replaced DEF Inv, Happens
<1>2. TypeOK'
  BY <1>1 DEF Inv, TypeOK, Happens
<1>3. \A s \in 1..Len(turns) : TurnInv(s)'
  <2> TAKE s \in 1..Len(turns)
  <2>1. CASE s = t
    BY <1>1, <2>1 DEF Inv, TurnInv, Happens
  <2>2. CASE s # t
    BY <1>1, <2>2 DEF Inv, TurnInv
  <2> QED
    BY <2>1, <2>2
<1>4. turns # << >> /\ turns' # << >>
  BY <1>1 DEF Inv, TypeOK
<1>5. CallInv'
  <2>1. CASE u.result = turns[t].result /\ pc' = pc
    BY <1>1, <1>4, <2>1 DEF Inv, CallInv, TypeOK
  <2>2. CASE turns[t].result = "none" /\ u.result # "none" /\ pc' \in {"ready", "over"}
    BY <1>1, <1>4, <2>2 DEF Inv, CallInv, TypeOK
  <2>3. CASE u.result = turns[t].result /\ pc = "stopping" /\ pc' = "stopped"
    BY <1>1, <1>4, <2>3 DEF Inv, CallInv, TypeOK
  <2> QED
    BY <2>1, <2>2, <2>3 DEF Happens
<1> QED
  BY <1>1, <1>2, <1>3, <1>5 DEF Inv

LEMMA InitInv == Init => Inv
<1> SUFFICES ASSUME Init PROVE Inv
  OBVIOUS
<1>1. turns = << >> /\ turns \in Seq(Turn) /\ Len(turns) = 0
  BY DEF Init
<1> QED
  BY <1>1, BoundsAssumption DEF Init, Inv, TypeOK, CallInv

\* A new turn is appended: those before it have their results.
LEMMA RunTurnAppends ==
    ASSUME Inv, RunTurn
    PROVE  /\ Inv' /\ Len(turns') = Len(turns) + 1 /\ turns' # << >>
           /\ turns'[Len(turns')] = NewTurn
           /\ \A t \in 1..Len(turns) : turns'[t] = turns[t]
<1>1. NewTurn \in Turn
  BY DEF NewTurn, Turn
<1>2. turns \in Seq(Turn) /\ turns' = Append(turns, NewTurn) /\ pc' = "turn" /\ pc = "ready"
  BY DEF RunTurn, Inv, TypeOK
<1>3. /\ turns' \in Seq(Turn) /\ Len(turns') = Len(turns) + 1 /\ turns' # << >>
      /\ turns'[Len(turns')] = NewTurn
      /\ \A t \in 1..Len(turns) : turns'[t] = turns[t]
  BY <1>1, <1>2, AppendProperties
<1>4. TypeOK'
  BY <1>2, <1>3, BoundsAssumption DEF Inv, TypeOK, RunTurn
<1>5. \A t \in 1..Len(turns') : t \in 1..Len(turns) \/ t = Len(turns')
  BY <1>2, <1>3
<1>6. \A t \in 1..Len(turns') : TurnInv(t)'
  BY <1>3, <1>5 DEF Inv, TurnInv, NewTurn
<1>7. CallInv'
  BY <1>2, <1>3, <1>5 DEF Inv, CallInv, NewTurn
<1> QED
  BY <1>3, <1>4, <1>6, <1>7 DEF Inv

\* Steps that change no turn.
LEMMA CallerInv ==
    ASSUME Inv, \/ SpawnFails \/ (\E t \in 1..Len(turns) : PromptUnread(t)) \/ Stop
                \/ UNCHANGED vars
    PROVE  Inv'
<1>1. turns' = turns /\ kind' = kind /\ pc' \in {pc, "crashed", "stopped", "stopping"}
  BY DEF SpawnFails, PromptUnread, Stop, vars
<1>2. TypeOK'
  BY <1>1 DEF Inv, TypeOK
<1>3. \A t \in 1..Len(turns) : TurnInv(t)'
  BY <1>1 DEF Inv, TurnInv
<1>4. CallInv'
  <2>1. CASE SpawnFails \/ \E t \in 1..Len(turns) : PromptUnread(t)
    BY <1>1, <2>1 DEF Inv, CallInv, SpawnFails, PromptUnread
  <2>2. CASE Stop
    BY <1>1, <2>2 DEF Inv, CallInv, Stop
  <2>3. CASE UNCHANGED vars
    BY <1>1, <2>3 DEF Inv, CallInv, vars
  <2> QED
    BY <2>1, <2>2, <2>3
<1> QED
  BY <1>1, <1>2, <1>3, <1>4 DEF Inv

LEMMA NextInv == Inv /\ [Next]_vars => Inv'
<1> SUFFICES ASSUME Inv, [Next]_vars PROVE Inv'
  OBVIOUS
<1> USE DEF Inv
<1>1. ASSUME pc # "crashed", NEW t \in 1..Len(turns), ChildStep(t) \/ LineArrives(t) \/ Event(t)
      PROVE  Inv'
  BY <1>1, TurnHappens, HappensKeepsInv
<1>2. CASE RunTurn
  BY <1>2, RunTurnAppends
<1>3. CASE StopTimeout
  <2>1. pc # "crashed" /\ turns # << >>
    BY <1>3 DEF StopTimeout, CallInv
  <2>2. Len(turns) \in 1..Len(turns)
    BY <2>1 DEF TypeOK
  <2> QED
    BY <1>3, <2>1, <2>2, StopTimeoutHappens, HappensKeepsInv
<1> QED
  BY <1>1, <1>2, <1>3, CallerInv DEF Next

\* Every variable keeps its type, whatever the child prints and however it ends.
THEOREM TypeCorrect == Spec => []TypeOK
BY InitInv, NextInv, PTL DEF Spec, Inv

\* Once a turn has a result its process is dead.
THEOREM EndedTurnsHaveNoChild == Spec => []EndedTurnHasNoChild
<1>1. Inv => EndedTurnHasNoChild
  BY DEF Inv, TurnInv, EndedTurnHasNoChild
<1> QED
  BY <1>1, InitInv, NextInv, PTL DEF Spec

-----------------------------------------------------------------------------
(* The session its caller sees *)

LEMMA SessionInit == Init => Session!Init
<1> SUFFICES ASSUME Init PROVE Session!Init
  OBVIOUS
<1>1. turns = << >> /\ ~ \E t \in 1..Len(turns) : turns[t].child = "up"
  BY DEF Init
<1> QED
  BY <1>1 DEF Init, Session!Init

\* What happens to a turn is a step of the session: only the last turn can have a
\* process, and only while its result is awaited.
LEMMA SessionHappens ==
    ASSUME Inv, pc # "crashed", NEW t \in 1..Len(turns), NEW u \in Turn, Happens(t, u)
    PROVE  [Session!Next]_(Session!vars)
<1> DEFINE Alive == \E s \in 1..Len(turns) : turns[s].child = "up"
           Last  == turns[Len(turns)].result
<1>1. /\ turns' \in Seq(Turn) /\ Len(turns') = Len(turns) /\ turns'[t] = u
      /\ \A s \in 1..Len(turns) : s # t => turns'[s] = turns[s]
      /\ turns # << >> /\ turns' # << >> /\ Len(turns) \in 1..Len(turns)
  BY Replaced DEF Inv, Happens, TypeOK
<1>2. \A s \in 1..Len(turns) : turns[s].child = "up" => s = Len(turns) /\ pc = "turn"
  BY DEF Inv, TurnInv, CallInv
<1>3. Alive <=> turns[Len(turns)].child = "up"
  BY <1>1, <1>2
<1>4. Alive' <=> turns'[Len(turns)].child = "up"
  <2>1. \A s \in 1..Len(turns) : turns'[s].child = "up" => turns[s].child = "up"
    BY <1>1 DEF Happens
  <2> QED
    BY <1>1, <1>2, <2>1
<1>5. CASE u.result = turns[t].result /\ pc' = pc
  <2>1. Last' = Last
    BY <1>1, <1>5
  <2>2. Alive' => Alive
    BY <1>1, <1>3, <1>4 DEF Happens
  <2>3. CASE Alive /\ ~Alive'
    BY <1>1, <1>5, <2>1, <2>3 DEF Session!Next, Session!AgentDies
  <2>4. CASE Alive <=> Alive'
    BY <1>1, <1>5, <2>1, <2>4 DEF Session!vars
  <2> QED
    BY <2>2, <2>3, <2>4
<1>6. CASE /\ turns[t].result = "none" /\ u.result \in {"completed", "failed", "timeout"}
           /\ u.child # "up" /\ (u.result # "timeout" => turns[t].child # "up")
           /\ pc' = IF u.result = "completed" THEN "ready" ELSE "over"
  <2>1. t = Len(turns) /\ pc = "turn"
    BY <1>6 DEF Inv, CallInv
  <2>2. Last' = u.result /\ ~Alive' /\ (u.result # "timeout" => ~Alive)
    BY <1>1, <1>3, <1>4, <1>6, <2>1
  <2>3. Session!EndTurn(u.result)
    BY <1>1, <1>6, <2>1, <2>2 DEF Session!EndTurn
  <2>4. u.result \in Session!Results
    BY <1>6 DEF Session!Results
  <2> QED
    BY <2>3, <2>4 DEF Session!Next
<1>7. CASE /\ u.result = turns[t].result /\ u.child # "up"
           /\ pc = "stopping" /\ t = Len(turns) /\ pc' = "stopped"
  <2>1. Last' = Last /\ ~Alive'
    BY <1>1, <1>4, <1>7
  <2> QED
    BY <1>1, <1>7, <2>1 DEF Session!Next, Session!Stopped
<1> QED
  BY <1>5, <1>6, <1>7 DEF Happens

LEMMA SessionStep == Inv /\ [Next]_vars => [Session!Next]_(Session!vars)
<1> SUFFICES ASSUME Inv, [Next]_vars PROVE [Session!Next]_(Session!vars)
  OBVIOUS
<1> DEFINE Alive == \E s \in 1..Len(turns) : turns[s].child = "up"
<1>1. ASSUME pc # "crashed", NEW t \in 1..Len(turns), ChildStep(t) \/ LineArrives(t) \/ Event(t)
      PROVE  [Session!Next]_(Session!vars)
  BY <1>1, TurnHappens, SessionHappens DEF Inv
<1>2. CASE RunTurn
  <2>1. Len(turns') \in 1..Len(turns') /\ turns'[Len(turns')].child = "up"
        /\ turns'[Len(turns')].result = "none" /\ turns' # << >>
    BY <1>2, RunTurnAppends DEF Inv, TypeOK, NewTurn
  <2>2. Alive'
    BY <2>1
  <2> QED
    BY <1>2, <2>1, <2>2 DEF RunTurn, Session!Next, Session!RunTurn
<1>3. CASE StopTimeout
  <2>1. pc # "crashed" /\ turns # << >>
    BY <1>3 DEF StopTimeout, Inv, CallInv
  <2>2. Len(turns) \in 1..Len(turns)
    BY <2>1 DEF Inv, TypeOK
  <2> QED
    BY <1>3, <2>1, <2>2, StopTimeoutHappens, SessionHappens DEF Inv
<1>4. CASE pc # "crashed" /\ (SpawnFails \/ \E t \in 1..Len(turns) : PromptUnread(t))
  <2>1. turns' = turns /\ pc' = "crashed"
    BY <1>4 DEF SpawnFails, PromptUnread
  <2> QED
    BY <1>4, <2>1 DEF Session!Next, Session!Crash
<1>5. CASE Stop
  <2>1. turns' = turns
    BY <1>5 DEF Stop
  <2>2. CASE turns = << >>
    <3>1. ~Alive
      BY <2>2
    <3> QED
      BY <1>5, <2>1, <2>2, <3>1 DEF Stop, Session!Next, Session!Stopped
  <2>3. CASE turns # << >>
    BY <1>5, <2>1, <2>3 DEF Stop, Session!Next, Session!Stop
  <2> QED
    BY <2>2, <2>3
<1>6. CASE UNCHANGED vars
  BY <1>6 DEF vars, Session!vars
<1> QED
  BY <1>1, <1>2, <1>3, <1>4, <1>5, <1>6 DEF Next

\* The session implements AgentSession: late lines, a late exit and the turn's timer
\* change nothing for the caller once it has its result, and stop() leaves no process.
THEOREM SessionImplemented == Spec => ImplementsSession
BY InitInv, NextInv, SessionInit, SessionStep, PTL DEF Spec, ImplementsSession, Session!Spec
=============================================================================
