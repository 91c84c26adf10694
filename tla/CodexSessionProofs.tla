------------------------- MODULE CodexSessionProofs -------------------------
(***************************************************************************)
(* A session of `codex app-server`, for any number of turns, lines and     *)
(* stale readers: its types, the queue of lines and readers, that it       *)
(* streams the turn it asked for, that its caller sees an AgentSession,    *)
(* and what costs it an answer that came in time.                          *)
(***************************************************************************)
EXTENDS CodexSession, SequenceTheorems, TLAPS

\* A live reader is the last in the queue; it is there only while a loop reads and
\* the session is open.
ReaderInv ==
    \A k \in 1..Len(lineResolvers) :
        lineResolvers[k] = "live" =>
            k = Len(lineResolvers) /\ pc \in Reading \cup {"crashed"} /\ ~closed

\* What the child has written and the session not read, oldest first.
Unread == lineBuffer \o pipe

Responds(l) == l.kind \in {"response", "refusal"}
EndsTurn(l) == l.kind \in Terminal

\* A line answers or ends nothing that is still open: the answer to the last request
\* is unread only if the child owes none; the end of a turn only if it works on none,
\* and only once.
LineInv(q) ==
    \A k \in 1..Len(q) :
        /\ q[k].id <= request
        /\ Responds(q[k]) /\ q[k].id = request => owes = 0
        /\ EndsTurn(q[k]) => /\ working = 0 /\ owes = 0
                             /\ pc \notin {"initialize", "threadStart", "idle"}
                             /\ \A j \in 1..Len(q) : j # k => ~EndsTurn(q[j])

\* What the child has to do was asked by the last request.
ChildInv ==
    /\ owes \in {0, request} /\ working \in {0, request}
    /\ working # 0 => owes = 0
    /\ pc = "initialize" => request = 1
    /\ pc = "threadStart" => request = 2
    /\ pc \in {"initialize", "threadStart", "idle"} => working = 0
    /\ pc \in {"idle", "stream"} => owes = 0
    /\ pc = "stream" => turn_id = request
    /\ request >= 1

\* Only the exit of the child and stop() close the session.
ClosedInv == closed => child = "gone" \/ pc \in {"stopping", "stopped"}

Inv ==
    /\ TypeOK /\ NoReaderWhileBuffered /\ ReaderInv /\ NoStaleReaderForResponses
    /\ LineInv(Unread) /\ ChildInv /\ ClosedInv

-----------------------------------------------------------------------------
(* Lines in two queues are lines in one *)

LEMMA Written ==
    ASSUME NEW s \in Seq(Line), NEW t \in Seq(Line), NEW l \in Line
    PROVE  s \o Append(t, l) = Append(s \o t, l)
<1>1. Append(t, l) = t \o <<l>> /\ <<l>> \in Seq(Line) /\ s \o t \in Seq(Line)
  BY AppendIsConcat, ConcatProperties
<1>2. Append(s \o t, l) = (s \o t) \o <<l>>
  BY <1>1, AppendIsConcat
<1> QED
  BY <1>1, <1>2, ConcatAssociative

LEMMA Delivered ==
    ASSUME NEW s \in Seq(Line), NEW t \in Seq(Line), t # << >>
    PROVE  Append(s, Head(t)) \o Tail(t) = s \o t
<1>1. Head(t) \in Line /\ Tail(t) \in Seq(Line) /\ <<Head(t)>> \in Seq(Line)
  OBVIOUS
<1>2. <<Head(t)>> \o Tail(t) = t
  BY <1>1
<1>3. Append(s, Head(t)) = s \o <<Head(t)>>
  BY <1>1, AppendIsConcat
<1> QED
  BY <1>1, <1>2, <1>3, ConcatAssociative

LEMMA Taken ==
    ASSUME NEW s \in Seq(Line), NEW t \in Seq(Line), s # << >>
    PROVE  /\ Tail(s) \o t = Tail(s \o t) /\ Head(s) = Head(s \o t)
           /\ s \o t # << >> /\ s \o t \in Seq(Line)
<1>1. /\ s \o t \in Seq(Line) /\ Len(s \o t) = Len(s) + Len(t)
      /\ \A i \in 1..Len(s) + Len(t) : (s \o t)[i] = IF i <= Len(s) THEN s[i] ELSE t[i - Len(s)]
  BY ConcatProperties
<1>2. Tail(s) \in Seq(Line) /\ Len(Tail(s)) = Len(s) - 1
      /\ \A i \in 1..Len(s) - 1 : Tail(s)[i] = s[i + 1]
  OBVIOUS
<1>3. /\ Tail(s) \o t \in Seq(Line) /\ Len(Tail(s) \o t) = Len(s) - 1 + Len(t)
      /\ \A i \in 1..Len(s) - 1 + Len(t) :
            (Tail(s) \o t)[i] = IF i <= Len(s) - 1 THEN Tail(s)[i] ELSE t[i - (Len(s) - 1)]
  BY <1>2, ConcatProperties
<1>4. Len(s) \in Nat \ {0} /\ Len(t) \in Nat
  OBVIOUS
<1>5. Len(s \o t) # 0 /\ s \o t # << >>
  BY <1>1, <1>4
<1>6. Tail(s \o t) \in Seq(Line) /\ Len(Tail(s \o t)) = Len(s) + Len(t) - 1
      /\ \A i \in 1..Len(s) + Len(t) - 1 : Tail(s \o t)[i] = (s \o t)[i + 1]
  BY <1>1, <1>5
<1>7. \A i \in 1..Len(s) - 1 + Len(t) : (Tail(s) \o t)[i] = Tail(s \o t)[i]
  BY <1>1, <1>2, <1>3, <1>4, <1>6
<1>8. Tail(s) \o t = Tail(s \o t)
  BY <1>3, <1>6, <1>7, SeqEqual
<1>9. Head(s) = Head(s \o t)
  BY <1>1, <1>4, <1>5
<1> QED
  BY <1>1, <1>5, <1>8, <1>9

-----------------------------------------------------------------------------
(* What a step does to the readers *)

LEMMA InitInv == Init => Inv
<1> SUFFICES ASSUME Init PROVE Inv
  OBVIOUS
<1>1. pipe = << >> /\ lineBuffer = << >> /\ lineResolvers = << >> /\ Unread = << >>
      /\ Len(Unread) = 0 /\ Len(lineResolvers) = 0
  BY ConcatEmptySeq DEF Init, Unread
<1>2. pipe \in Seq(Line) /\ lineBuffer \in Seq(Line) /\ lineResolvers \in Seq({"live", "stale"})
      /\ 0 \in Ids /\ 1 \in Ids
  BY <1>1, BoundsAssumption, EmptySeq DEF Ids
<1>5. TypeOK
  BY <1>2 DEF Init, TypeOK, Reading, Responding
<1>3. ReaderInv /\ NoReaderWhileBuffered /\ NoStaleReaderForResponses /\ LineInv(Unread)
  BY <1>1 DEF ReaderInv, NoReaderWhileBuffered, NoStaleReaderForResponses, LineInv
<1>4. ChildInv /\ ClosedInv
  BY DEF Init, ChildInv, ClosedInv
<1> QED
  BY <1>3, <1>4, <1>5 DEF Inv

\* The reader a line is handed to first is either stale, or waits alone.
LEMMA FirstReader ==
    ASSUME Inv, lineResolvers # << >>, Head(lineResolvers) = "live"
    PROVE  Len(lineResolvers) = 1 /\ Tail(lineResolvers) = << >> /\ Waiting
           /\ pc \in Reading \cup {"crashed"} /\ ~closed
<1>1. lineResolvers \in Seq({"live", "stale"}) /\ Len(lineResolvers) \in Nat \ {0}
      /\ Head(lineResolvers) = lineResolvers[1]
  BY DEF Inv, TypeOK
<1>2. 1 \in 1..Len(lineResolvers) /\ lineResolvers[1] = "live"
  BY <1>1
<1>3. 1 = Len(lineResolvers) /\ pc \in Reading \cup {"crashed"} /\ ~closed
  BY <1>2 DEF Inv, ReaderInv
<1>4. Tail(lineResolvers) = << >>
  <2>1. Tail(lineResolvers) \in Seq({"live", "stale"}) /\ Len(Tail(lineResolvers)) = 0
    BY <1>1, <1>3, HeadTailProperties
  <2> QED
    BY <2>1, EmptySeq
<1> QED
  BY <1>2, <1>3, <1>4 DEF Waiting

LEMMA ReaderWaiting ==
    ASSUME Inv, Waiting
    PROVE  pc \in Reading \cup {"crashed"} /\ ~closed /\ lineBuffer = << >>
           /\ Len(lineResolvers) \in Nat \ {0}
<1>1. lineResolvers \in Seq({"live", "stale"}) /\ Len(lineResolvers) \in Nat \ {0}
      /\ Len(lineResolvers) \in 1..Len(lineResolvers)
  BY DEF Inv, TypeOK, Waiting
<1> QED
  BY <1>1 DEF Inv, ReaderInv, NoReaderWhileBuffered, Waiting

-----------------------------------------------------------------------------
(* What the session makes of a line *)

\* Line l is skipped, or it is the answer the loop reads for, or it ends the turn.
Takes(l) ==
    \/ UNCHANGED <<pc, request, owes, turn_id, late, result>>
    \/ /\ pc = "initialize" /\ Responds(l) /\ l.id = request
       /\ pc' = "threadStart" /\ request' = request + 1 /\ owes' = request + 1
       /\ late' = FALSE /\ UNCHANGED <<turn_id, result>>
    \/ /\ pc = "threadStart" /\ Responds(l) /\ l.id = request
       /\ pc' = "idle" /\ UNCHANGED <<request, owes, turn_id, late, result>>
    \/ /\ pc = "turnStart" /\ Responds(l) /\ l.id = request
       /\ pc' = "stream" /\ turn_id' = request /\ late' = FALSE
       /\ UNCHANGED <<request, owes, result>>
    \/ /\ pc \in {"initialize", "threadStart"} /\ pc' = "failed"
       /\ UNCHANGED <<request, owes, turn_id, late, result>>
    \/ /\ pc = "turnStart" /\ pc' = "over" /\ result' = "error"
       /\ UNCHANGED <<request, owes, turn_id, late>>
    \/ /\ pc = "stream" /\ EndsTurn(l) /\ result' = l.kind
       /\ pc' = IF l.kind = "completed" THEN "idle" ELSE "over"
       /\ UNCHANGED <<request, owes, turn_id, late>>

LEMMA TakeTakes ==
    ASSUME TypeOK, pc \in Reading, NEW l \in Line, Take(l)
    PROVE  Takes(l) /\ asking' \in BOOLEAN
<1>1. CASE pc = "stream"
  BY <1>1 DEF Take, TakeInStream, Takes, EndsTurn, TypeOK
<1>2. CASE pc # "stream"
  BY <1>2 DEF Take, TakeResponse, Advance, Send, Throw, Takes, Responds, TypeOK, Reading, Responding
<1> QED
  BY <1>1, <1>2

\* What a line the session takes is handed on from: the buffer, or the pipe.
TakesNext ==
    \E l \in Line :
        /\ pc \in Reading /\ Unread # << >> /\ l = Head(Unread) /\ Unread' = Tail(Unread)
        /\ Takes(l) /\ asking' \in BOOLEAN
        /\ UNCHANGED <<child, working, closed>>

\* A line is taken, or dropped by a stale reader, or moved to the buffer.
LEMMA ReadBufferedTakes ==
    ASSUME Inv, ReadBuffered
    PROVE  TakesNext /\ lineResolvers = << >> /\ UNCHANGED <<pipe, lineResolvers, told>>
           /\ lineBuffer' \in Seq(Line)
<1>1. lineBuffer \in Seq(Line) /\ pipe \in Seq(Line) /\ lineBuffer # << >>
  BY DEF Inv, TypeOK, ReadBuffered
<1>2. Head(lineBuffer) \in Line /\ Tail(lineBuffer) \in Seq(Line)
  BY <1>1
<1>3. Unread # << >> /\ Head(lineBuffer) = Head(Unread) /\ Unread' = Tail(Unread)
  BY <1>1, Taken DEF Unread, ReadBuffered
<1>4. Takes(Head(lineBuffer)) /\ asking' \in BOOLEAN
  BY <1>2, TakeTakes DEF Inv, ReadBuffered
<1> QED
  BY <1>1, <1>2, <1>3, <1>4 DEF TakesNext, ReadBuffered, Inv, NoReaderWhileBuffered

LEMMA LineArrivesTakes ==
    ASSUME Inv, pc # "crashed", LineArrives
    PROVE  /\ pipe' \in Seq(Line) /\ lineBuffer' \in Seq(Line)
           /\ told' \in Terminal \cup {told}
           /\ \/ /\ lineResolvers = << >> /\ lineBuffer' # << >> /\ Unread' = Unread
                 /\ UNCHANGED <<lineResolvers, child, owes, working, asking, closed, pc, request,
                                turn_id, late, result>>
              \/ /\ lineResolvers # << >> /\ Head(lineResolvers) # "live"
                 /\ lineResolvers' = Tail(lineResolvers) /\ lineBuffer = << >>
                 /\ Unread # << >> /\ Unread' = Tail(Unread)
                 /\ UNCHANGED <<lineBuffer, child, owes, working, asking, closed, pc, request,
                                turn_id, late, result>>
              \/ /\ lineResolvers # << >> /\ lineResolvers' = << >> /\ lineBuffer = << >>
                 /\ UNCHANGED lineBuffer
                 /\ TakesNext
<1>1. /\ lineBuffer \in Seq(Line) /\ pipe \in Seq(Line) /\ pipe # << >>
      /\ pipe' = Tail(pipe) /\ Head(pipe) \in Line /\ Tail(pipe) \in Seq(Line)
  BY DEF Inv, TypeOK, LineArrives
<1>2. told' \in Terminal \cup {told}
  BY DEF LineArrives
<1>3. CASE lineResolvers = << >>
  <2>1. lineBuffer' = Append(lineBuffer, Head(pipe))
    BY <1>3 DEF LineArrives
  <2>2. lineBuffer' \in Seq(Line) /\ lineBuffer' # << >>
    BY <1>1, <2>1, AppendProperties
  <2>3. Unread' = Unread
    BY <1>1, <2>1, Delivered DEF Unread
  <2> QED
    BY <1>1, <1>2, <1>3, <2>2, <2>3 DEF LineArrives
<1>4. CASE lineResolvers # << >>
  <2>1. lineBuffer = << >> /\ lineBuffer' = << >> /\ lineResolvers' = Tail(lineResolvers)
    BY <1>4 DEF LineArrives, Inv, NoReaderWhileBuffered
  <2>2. Unread = pipe /\ Unread' = Tail(pipe)
    BY <1>1, <2>1, ConcatEmptySeq DEF Unread
  <2>3. CASE Head(lineResolvers) # "live"
    BY <1>1, <1>2, <1>4, <2>1, <2>2, <2>3 DEF LineArrives
  <2>4. CASE Head(lineResolvers) = "live"
    <3>1. pc \in Reading /\ Tail(lineResolvers) = << >>
      BY <1>4, <2>4, FirstReader
    <3>2. Takes(Head(pipe)) /\ asking' \in BOOLEAN
      BY <1>1, <1>4, <2>4, <3>1, TakeTakes DEF LineArrives, Inv
    <3> QED
      BY <1>1, <1>2, <1>4, <2>1, <2>2, <3>1, <3>2 DEF LineArrives, TakesNext
  <2> QED
    BY <2>3, <2>4
<1> QED
  BY <1>3, <1>4

-----------------------------------------------------------------------------
(* Steps that leave the lines alone *)

\* Nothing is read or written; a loop may end, or the session be stopped.
Rests ==
    /\ UNCHANGED <<pipe, lineBuffer, owes, working, asking, request, turn_id, told>>
    /\ pc' \in {pc, "failed", "over", "stopping", "stopped", "crashed"}
    /\ late' \in BOOLEAN /\ closed' \in BOOLEAN

Silent ==
    \/ ChildDies \/ ReaderWaits \/ PortExit \/ LoopEnds \/ DeadlinePasses \/ ReaderTimesOut
    \/ ChildExit \/ Stop \/ StopTimeout \/ BrokenPipe \/ UNCHANGED vars

Writes ==
    \/ \E kind \in {"response", "refusal"} : ChildAnswers(kind)
    \/ \E kind \in Terminal : ChildEndsTurn(kind)
    \/ ChildAsks
    \/ ChildNotes

LEMMA NextCases ==
    ASSUME [Next]_vars
    PROVE  \/ pc # "crashed" /\ (Writes \/ ReadBuffered \/ LineArrives \/ RunTurn)
           \/ Silent
BY DEF Next, ChildStep, LoopStep, SessionStep, CallerStep, Writes, Silent

LEMMA SilentRests == ASSUME TypeOK, Silent PROVE Rests
<1>1. CASE ChildDies \/ ReaderWaits \/ DeadlinePasses \/ ChildExit \/ UNCHANGED vars
  BY <1>1 DEF TypeOK, ChildDies, ReaderWaits, DeadlinePasses, ChildExit, Rests, vars, outside,
              reading
<1>2. CASE PortExit \/ LoopEnds \/ ReaderTimesOut
  BY <1>2 DEF TypeOK, PortExit, LoopEnds, ReaderTimesOut, Throw, Rests, outside, reading
<1>3. CASE Stop \/ StopTimeout \/ BrokenPipe
  BY <1>3 DEF TypeOK, Stop, StopTimeout, BrokenPipe, Rests, outside, reading
<1> QED
  BY <1>1, <1>2, <1>3 DEF Silent

\* A line the child writes goes to the end of what is unread.
LEMMA WritesAppends ==
    ASSUME TypeOK, Writes
    PROVE  /\ UNCHANGED <<child, reading, pc, request, turn_id, late, result, told>>
           /\ pipe' \in Seq(Line) /\ owes' \in Ids /\ working' \in Ids /\ asking' \in BOOLEAN
           /\ \E l \in Line :
                 /\ Unread' = Append(Unread, l)
                 /\ \/ /\ Responds(l) /\ owes # 0 /\ l.id = owes /\ owes' = 0
                       /\ working' = working \/ (owes > 2 /\ working' = owes)
                    \/ /\ EndsTurn(l) /\ working # 0 /\ l.id = working
                       /\ working' = 0 /\ owes' = owes
                    \/ /\ l.kind \in {"ask", "note"} /\ l.id \in {0, working}
                       /\ UNCHANGED <<owes, working>>
<1> DEFINE Wrote(l) == /\ pipe' = Append(pipe, l)
                       /\ UNCHANGED <<child, reading, pc, request, turn_id, late, result, told>>
<1>0. pipe \in Seq(Line) /\ lineBuffer \in Seq(Line) /\ owes \in Ids /\ working \in Ids /\ 0 \in Ids
      /\ asking \in BOOLEAN
  BY BoundsAssumption DEF TypeOK, Ids
<1>1. ASSUME NEW l \in Line, Wrote(l)
      PROVE  Unread' = Append(Unread, l) /\ pipe' \in Seq(Line)
  BY <1>0, <1>1, Written, AppendProperties DEF Unread, reading
<1>2. ASSUME NEW kind \in {"response", "refusal"}, ChildAnswers(kind)
      PROVE  \E l \in Line : /\ Wrote(l) /\ Responds(l) /\ owes # 0 /\ l.id = owes /\ owes' = 0
                             /\ working' = working \/ (owes > 2 /\ working' = owes)
                             /\ asking' = asking
  <2> DEFINE l == [kind |-> kind, id |-> owes]
  <2>1. l \in Line /\ l.kind = kind /\ l.id = owes
    BY <1>0 DEF Line
  <2>2. pipe' = Append(pipe, l)
    BY <1>2 DEF ChildAnswers, Write
  <2> HIDE DEF l
  <2> QED
    BY <1>2, <2>1, <2>2 DEF ChildAnswers, Write, Responds
<1>3. ASSUME NEW kind \in Terminal, ChildEndsTurn(kind)
      PROVE  \E l \in Line : /\ Wrote(l) /\ EndsTurn(l) /\ working # 0 /\ l.id = working
                             /\ working' = 0 /\ owes' = owes /\ asking' = asking
  <2> DEFINE l == [kind |-> kind, id |-> working]
  <2>1. l \in Line /\ l.kind = kind /\ l.id = working
    BY <1>0 DEF Line
  <2>2. pipe' = Append(pipe, l)
    BY <1>3 DEF ChildEndsTurn, Write
  <2> HIDE DEF l
  <2> QED
    BY <1>3, <2>1, <2>2 DEF ChildEndsTurn, Write, EndsTurn
<1>4. ASSUME ChildAsks \/ ChildNotes
      PROVE  \E l \in Line : /\ Wrote(l) /\ l.kind \in {"ask", "note"} /\ l.id \in {0, working}
                             /\ UNCHANGED <<owes, working>> /\ asking' \in BOOLEAN
  <2> DEFINE a == [kind |-> "ask", id |-> working]
             n == [kind |-> "note", id |-> 0]
  <2>1. /\ a \in Line /\ a.kind = "ask" /\ a.id = working
        /\ n \in Line /\ n.kind = "note" /\ n.id = 0
    BY <1>0 DEF Line
  <2>2. CASE ChildAsks
    <3>1. pipe' = Append(pipe, a)
      BY <2>2 DEF ChildAsks, Write
    <3> HIDE DEF a
    <3> QED
      BY <2>1, <2>2, <3>1 DEF ChildAsks, Write
  <2>3. CASE ChildNotes
    <3>1. pipe' = Append(pipe, n)
      BY <2>3 DEF ChildNotes, Write
    <3> HIDE DEF n
    <3> QED
      BY <1>0, <2>1, <2>3, <3>1 DEF ChildNotes, Write
  <2> QED
    BY <1>4, <2>2, <2>3
<1> HIDE DEF Wrote
<1>5. PICK l \in Line :
         /\ Wrote(l) /\ owes' \in Ids /\ working' \in Ids /\ asking' \in BOOLEAN
         /\ \/ /\ Responds(l) /\ owes # 0 /\ l.id = owes /\ owes' = 0
               /\ working' = working \/ (owes > 2 /\ working' = owes)
            \/ EndsTurn(l) /\ working # 0 /\ l.id = working /\ working' = 0 /\ owes' = owes
            \/ /\ l.kind \in {"ask", "note"} /\ l.id \in {0, working}
               /\ UNCHANGED <<owes, working>>
  BY <1>0, <1>2, <1>3, <1>4 DEF Writes
<1>6. UNCHANGED <<child, reading, pc, request, turn_id, late, result, told>>
  BY <1>5 DEF Wrote
<1> QED
  BY <1>1, <1>5, <1>6

-----------------------------------------------------------------------------
(* The invariant *)

\* What a step that takes a line leaves behind has its type.
LEMMA TakesType ==
    ASSUME Inv, TakesNext
    PROVE  /\ child' = child /\ closed' = closed
           /\ owes' \in Ids /\ working' \in Ids /\ request' \in Ids /\ turn_id' \in Ids
           /\ asking' \in BOOLEAN /\ late' \in BOOLEAN
           /\ pc' \in Reading \cup {"idle", "failed", "over"}
           /\ result' \in Terminal \cup {"none", "timeout", "error"}
<1>1. PICK l \in Line : pc \in Reading /\ Takes(l) /\ asking' \in BOOLEAN
                        /\ UNCHANGED <<child, working, closed>>
  BY DEF TakesNext
<1>2. pc = "initialize" => request + 1 \in Ids
  BY BoundsAssumption DEF Inv, ChildInv, Ids
<1> QED
  BY <1>1, <1>2 DEF Takes, Inv, TypeOK, EndsTurn, Reading, Responding

LEMMA TypeStep == ASSUME Inv, [Next]_vars PROVE TypeOK'
<1>0. TypeOK
  BY DEF Inv
<1>1. CASE Writes
  <2>1. lineBuffer' = lineBuffer /\ lineResolvers' = lineResolvers /\ closed' = closed
    BY <1>0, <1>1, WritesAppends DEF reading
  <2> QED
    BY <1>0, <1>1, <2>1, WritesAppends DEF TypeOK
<1>2. CASE ReadBuffered
  BY <1>0, <1>2, ReadBufferedTakes, TakesType DEF TypeOK
<1>3. CASE pc # "crashed" /\ LineArrives
  <2>1. lineResolvers' \in Seq({"live", "stale"})
    <3>1. CASE lineResolvers = << >>
      BY <1>0, <1>3, <3>1 DEF LineArrives, TypeOK
    <3>2. CASE lineResolvers # << >>
      BY <1>0, <1>3, <3>2, HeadTailProperties DEF LineArrives, TypeOK
    <3> QED
      BY <3>1, <3>2
  <2> QED
    BY <1>0, <1>3, <2>1, LineArrivesTakes, TakesType DEF TypeOK
<1>4. CASE RunTurn
  <2>1. request + 1 \in Ids
    BY <1>0, <1>4, BoundsAssumption DEF RunTurn, TypeOK, Ids
  <2> QED
    BY <1>0, <1>4, <2>1 DEF RunTurn, Send, TypeOK, reading, Reading, Responding
<1>5. CASE Silent
  <2>1. Rests
    BY <1>0, <1>5, SilentRests
  <2>2. child' \in {"up", "dead", "gone"}
    BY <1>0, <1>5 DEF TypeOK, Silent, ChildDies, ReaderWaits, PortExit, LoopEnds, DeadlinePasses,
                      ReaderTimesOut, ChildExit, Stop, StopTimeout, BrokenPipe, vars, outside
  <2>3. result' \in {result, "failed", "timeout", "error"}
    BY <1>0, <1>5 DEF TypeOK, Silent, ChildDies, ReaderWaits, PortExit, LoopEnds, DeadlinePasses,
                      ReaderTimesOut, ChildExit, Stop, StopTimeout, BrokenPipe, vars, Throw
  <2>4. lineResolvers' \in Seq({"live", "stale"})
    <3>1. CASE ReaderWaits
      BY <1>0, <3>1, AppendProperties DEF TypeOK, ReaderWaits
    <3>2. CASE ReaderTimesOut
      BY <1>0, <3>2 DEF TypeOK, ReaderTimesOut, Waiting
    <3>3. CASE ChildExit
      BY <3>3, EmptySeq DEF ChildExit
    <3>4. CASE UNCHANGED lineResolvers
      BY <1>0, <3>4 DEF TypeOK
    <3> QED
      BY <1>5, <3>1, <3>2, <3>3, <3>4
         DEF Silent, ChildDies, PortExit, LoopEnds, DeadlinePasses, Stop, StopTimeout, BrokenPipe,
             vars, reading
  <2> QED
    BY <1>0, <2>1, <2>2, <2>3, <2>4 DEF TypeOK, Rests, Terminal
<1> QED
  BY <1>1, <1>2, <1>3, <1>4, <1>5, NextCases

\* Readers and lines never stand at the two sides of the queue at once, and a stale
\* reader is left only by a loop that reads again or has ended.
LEMMA ReaderStep ==
    ASSUME Inv, [Next]_vars
    PROVE  NoReaderWhileBuffered' /\ ReaderInv' /\ NoStaleReaderForResponses'
<1> DEFINE Goal == NoReaderWhileBuffered' /\ ReaderInv' /\ NoStaleReaderForResponses'
<1>0. /\ TypeOK /\ NoReaderWhileBuffered /\ ReaderInv /\ NoStaleReaderForResponses
      /\ lineResolvers \in Seq({"live", "stale"})
  BY DEF Inv, TypeOK
<1>1. ASSUME lineResolvers' = << >> PROVE Goal
  <2>1. Len(lineResolvers') = 0
    BY <1>1
  <2> QED
    BY <1>1, <2>1 DEF NoReaderWhileBuffered, ReaderInv, NoStaleReaderForResponses
\* The queue stays, and no reader waits.
<1>2. ASSUME UNCHANGED <<lineResolvers, lineBuffer>>, ~Waiting,
             pc' \in Responding \cup {"idle"} => pc \in Responding \cup {"idle"}
      PROVE  Goal
  <2>1. \A k \in 1..Len(lineResolvers) : lineResolvers[k] # "live"
    BY <1>0, <1>2 DEF ReaderInv, Waiting
  <2>2. Len(lineResolvers') = Len(lineResolvers) /\ \A k \in 1..Len(lineResolvers') :
           lineResolvers'[k] = lineResolvers[k]
    BY <1>2
  <2> QED
    BY <1>0, <1>2, <2>1, <2>2 DEF NoReaderWhileBuffered, ReaderInv, NoStaleReaderForResponses
\* The queue stays, and so does the loop, unless the process dies.
<1>3. ASSUME UNCHANGED <<lineResolvers, lineBuffer, closed>>, pc' \in {pc, "crashed"}
      PROVE  Goal
  BY <1>0, <1>3 DEF NoReaderWhileBuffered, ReaderInv, NoStaleReaderForResponses, Responding
<1>4. CASE Writes
  BY <1>0, <1>3, <1>4, WritesAppends DEF reading
<1>5. CASE ReadBuffered
  BY <1>1, <1>5, ReadBufferedTakes
<1>6. CASE pc # "crashed" /\ LineArrives
  <2>1. CASE lineResolvers' = << >>
    BY <1>1, <2>1
  <2>2. CASE /\ lineResolvers # << >> /\ Head(lineResolvers) # "live" /\ pc' = pc
             /\ closed' = closed /\ lineBuffer' = << >> /\ lineResolvers' = Tail(lineResolvers)
    <3>1. /\ Len(lineResolvers') = Len(lineResolvers) - 1 /\ Len(lineResolvers) \in Nat \ {0}
          /\ \A k \in 1..Len(lineResolvers') : lineResolvers'[k] = lineResolvers[k + 1]
      BY <1>0, <2>2, HeadTailProperties
    <3>2. ReaderInv'
      <4> SUFFICES ASSUME NEW k \in 1..Len(lineResolvers'), lineResolvers'[k] = "live"
                   PROVE  /\ k = Len(lineResolvers') /\ pc \in Reading \cup {"crashed"}
                          /\ ~closed
        BY <2>2 DEF ReaderInv
      <4>1. k + 1 \in 1..Len(lineResolvers) /\ lineResolvers[k + 1] = "live"
        BY <3>1
      <4>2. k + 1 = Len(lineResolvers) /\ pc \in Reading \cup {"crashed"} /\ ~closed
        BY <1>0, <4>1 DEF ReaderInv
      <4> QED
        BY <3>1, <4>2
    <3>3. pc \notin Responding \cup {"idle"}
      <4>1. 1 \in 1..Len(lineResolvers) /\ lineResolvers[1] # "live"
        BY <2>2, <3>1
      <4> QED
        BY <1>0, <4>1 DEF NoStaleReaderForResponses
    <3> QED
      BY <2>2, <3>2, <3>3 DEF NoReaderWhileBuffered, NoStaleReaderForResponses
  <2> QED
    BY <1>6, <2>1, <2>2, LineArrivesTakes
<1>7. CASE RunTurn
  <2>1. ~Waiting
    BY <1>7, ReaderWaiting DEF RunTurn, Reading, Responding
  <2> QED
    BY <1>2, <1>7, <2>1 DEF RunTurn, reading
<1>8. CASE ReaderWaits
  <2>1. \A k \in 1..Len(lineResolvers) : lineResolvers[k] # "live"
    BY <1>0, <1>8 DEF ReaderInv, ReaderWaits, Waiting
  <2>2. /\ Len(lineResolvers') = Len(lineResolvers) + 1 /\ Len(lineResolvers) \in Nat
        /\ lineResolvers'[Len(lineResolvers) + 1] = "live"
        /\ \A k \in 1..Len(lineResolvers) : lineResolvers'[k] = lineResolvers[k]
    BY <1>0, <1>8, AppendProperties DEF ReaderWaits
  <2>3. pc' = pc /\ pc \in Reading /\ closed' = closed /\ ~closed /\ lineBuffer' = << >>
    BY <1>8 DEF ReaderWaits
  <2>4. ReaderInv' /\ NoReaderWhileBuffered'
    BY <2>1, <2>2, <2>3 DEF ReaderInv, NoReaderWhileBuffered
  <2>5. NoStaleReaderForResponses'
    <3>1. pc \in Responding \cup {"idle"} => Len(lineResolvers) = 0
      BY <1>0, <2>1, <2>2 DEF NoStaleReaderForResponses
    <3> QED
      BY <2>2, <2>3, <3>1 DEF NoStaleReaderForResponses
  <2> QED
    BY <2>4, <2>5
<1>9. CASE ReaderTimesOut
  <2>1. Len(lineResolvers) \in 1..Len(lineResolvers) /\ lineBuffer' = << >> /\ Waiting
    BY <1>9, ReaderWaiting DEF ReaderTimesOut
  <2>2. Len(lineResolvers') = Len(lineResolvers)
        /\ \A k \in 1..Len(lineResolvers') : lineResolvers'[k] # "live"
    BY <1>0, <1>9, <2>1 DEF ReaderTimesOut, ReaderInv
  <2>3. pc' \notin Responding \cup {"idle"}
    BY <1>9 DEF ReaderTimesOut, Throw, Responding, Reading
  <2> QED
    BY <2>1, <2>2, <2>3 DEF NoReaderWhileBuffered, ReaderInv, NoStaleReaderForResponses
<1>10. CASE PortExit \/ LoopEnds
  BY <1>2, <1>10 DEF PortExit, LoopEnds, Throw, reading, Reading, Responding
<1>11. CASE Stop
  <2>1. ~Waiting
    BY <1>11, ReaderWaiting DEF Stop, Reading, Responding
  <2> QED
    BY <1>2, <1>11, <2>1 DEF Stop, Responding
<1>12. CASE StopTimeout
  <2>1. ~Waiting
    BY <1>12, ReaderWaiting DEF StopTimeout, Reading, Responding
  <2> QED
    BY <1>2, <1>12, <2>1 DEF StopTimeout, reading, Responding
<1>13. CASE ChildDies \/ DeadlinePasses \/ BrokenPipe \/ UNCHANGED vars
  BY <1>3, <1>13 DEF ChildDies, DeadlinePasses, BrokenPipe, vars, reading
<1>14. CASE ChildExit
  BY <1>1, <1>14 DEF ChildExit
<1> QED
  BY <1>4, <1>5, <1>6, <1>7, <1>8, <1>9, <1>10, <1>11, <1>12, <1>13, <1>14, NextCases DEF Silent

\* The unread lines: what one step makes of a queue of lines.
LEMMA UnreadSeq == ASSUME Inv PROVE Unread \in Seq(Line)
BY ConcatProperties DEF Inv, TypeOK, Unread

LEMMA RestsLines ==
    ASSUME Inv, UNCHANGED <<owes, working, request, turn_id>>, Unread' = Unread \/ Unread' = Tail(Unread),
           Unread' # Unread => Unread # << >>,
           pc' \in {pc, "failed", "over", "stopping", "stopped", "crashed"}
    PROVE  LineInv(Unread)' /\ ChildInv'
<1>1. ChildInv'
  BY DEF Inv, ChildInv
<1>2. CASE Unread' = Unread
  BY <1>1, <1>2 DEF Inv, LineInv, EndsTurn, Responds
<1>3. CASE Unread' = Tail(Unread) /\ Unread # << >>
  <2>1. Len(Unread') = Len(Unread) - 1 /\ Len(Unread) \in Nat
        /\ \A k \in 1..Len(Unread') : Unread'[k] = Unread[k + 1] /\ k + 1 \in 1..Len(Unread)
    BY <1>3, UnreadSeq, HeadTailProperties
  <2> QED
    <3> SUFFICES ASSUME NEW k \in 1..Len(Unread')
                 PROVE  /\ Unread'[k].id <= request
                        /\ Responds(Unread'[k]) /\ Unread'[k].id = request => owes = 0
                        /\ EndsTurn(Unread'[k]) =>
                              /\ working = 0 /\ owes = 0
                              /\ pc' \notin {"initialize", "threadStart", "idle"}
                              /\ \A j \in 1..Len(Unread') : j # k => ~EndsTurn(Unread'[j])
      BY <1>1 DEF LineInv, EndsTurn, Responds
    <3>1. /\ Unread'[k] = Unread[k + 1] /\ k + 1 \in 1..Len(Unread)
          /\ \A j \in 1..Len(Unread') : j # k =>
                Unread'[j] = Unread[j + 1] /\ j + 1 \in 1..Len(Unread) /\ j + 1 # k + 1
      BY <2>1
    <3> QED
      BY <3>1 DEF Inv, LineInv
<1> QED
  BY <1>1, <1>2, <1>3

LEMMA WritesLines == ASSUME Inv, Writes PROVE LineInv(Unread)' /\ ChildInv'
<1>0. TypeOK /\ LineInv(Unread) /\ ChildInv /\ owes \in Nat /\ working \in Nat /\ request \in Nat
  BY BoundsAssumption DEF Inv, TypeOK, Ids
<1>1. UNCHANGED <<pc, request, turn_id>>
  BY <1>0, WritesAppends
<1>2. PICK l \in Line :
         /\ Unread' = Append(Unread, l)
         /\ \/ /\ Responds(l) /\ owes # 0 /\ l.id = owes /\ owes' = 0
               /\ working' = working \/ (owes > 2 /\ working' = owes)
            \/ EndsTurn(l) /\ working # 0 /\ l.id = working /\ working' = 0 /\ owes' = owes
            \/ /\ l.kind \in {"ask", "note"} /\ l.id \in {0, working}
               /\ UNCHANGED <<owes, working>>
  BY <1>0, WritesAppends
<1>3. /\ Len(Unread') = Len(Unread) + 1 /\ Len(Unread) \in Nat
      /\ Unread'[Len(Unread) + 1] = l
      /\ \A k \in 1..Len(Unread) : Unread'[k] = Unread[k]
  BY <1>2, UnreadSeq, AppendProperties
<1>4. ChildInv'
  BY <1>0, <1>1, <1>2 DEF ChildInv
<1>5. Responds(l) => ~EndsTurn(l)
  BY DEF Responds, EndsTurn, Terminal
<1>6. l.kind \in {"ask", "note"} => ~Responds(l) /\ ~EndsTurn(l)
  BY DEF Responds, EndsTurn, Terminal
<1>7. l.id <= request
  BY <1>0, <1>2 DEF ChildInv
\* A turn ends once: while the child works, no end of a turn is unread.
<1>8. \A k \in 1..Len(Unread) : EndsTurn(Unread[k]) => working = 0 /\ owes = 0
  BY <1>0 DEF LineInv
<1>9. LineInv(Unread)'
  <2> SUFFICES ASSUME NEW k \in 1..Len(Unread')
               PROVE  /\ Unread'[k].id <= request
                      /\ Responds(Unread'[k]) /\ Unread'[k].id = request => owes' = 0
                      /\ EndsTurn(Unread'[k]) =>
                            /\ working' = 0 /\ owes' = 0
                            /\ pc \notin {"initialize", "threadStart", "idle"}
                            /\ \A j \in 1..Len(Unread') : j # k => ~EndsTurn(Unread'[j])
    BY <1>1 DEF LineInv, Responds, EndsTurn
  <2>1. CASE k \in 1..Len(Unread)
    BY <1>0, <1>2, <1>3, <1>5, <1>6, <1>8, <2>1 DEF LineInv
  <2>2. CASE k = Len(Unread) + 1
    BY <1>0, <1>2, <1>3, <1>5, <1>6, <1>7, <1>8, <2>2 DEF LineInv, ChildInv
  <2> QED
    BY <1>3, <2>1, <2>2
<1> QED
  BY <1>4, <1>9

LEMMA TakesLines == ASSUME Inv, TakesNext PROVE LineInv(Unread)' /\ ChildInv'
<1>0. LineInv(Unread) /\ ChildInv /\ request \in Nat /\ Unread \in Seq(Line)
  BY UnreadSeq, BoundsAssumption DEF Inv, TypeOK, Ids
<1>1. PICK l \in Line :
         /\ pc \in Reading /\ Unread # << >> /\ l = Head(Unread) /\ Unread' = Tail(Unread)
         /\ Takes(l) /\ working' = working
  BY DEF TakesNext
<1>2. /\ Len(Unread') = Len(Unread) - 1 /\ Len(Unread) \in Nat \ {0}
      /\ \A k \in 1..Len(Unread') : Unread'[k] = Unread[k + 1] /\ k + 1 \in 1..Len(Unread)
      /\ 1 \in 1..Len(Unread) /\ Unread[1] = l
  BY <1>0, <1>1, HeadTailProperties
<1>3. CASE UNCHANGED <<owes, request, turn_id>> /\ pc' \in {pc, "failed", "over"}
  BY <1>1, <1>3, RestsLines
<1>4. CASE /\ pc = "initialize" /\ pc' = "threadStart" /\ request' = request + 1
           /\ owes' = request + 1
  <2>1. request = 1 /\ working = 0
    BY <1>0, <1>4 DEF ChildInv
  <2>2. ChildInv'
    BY <1>1, <1>4, <2>1 DEF ChildInv
  <2>3. LineInv(Unread)'
    <3> SUFFICES ASSUME NEW k \in 1..Len(Unread')
                 PROVE  Unread'[k].id <= request /\ ~EndsTurn(Unread'[k]) /\ Unread'[k].id \in Nat
      BY <1>0, <1>4 DEF LineInv, EndsTurn, Responds
    <3>1. Unread[k + 1] \in Line
      BY <1>0, <1>2, ElementOfSeq
    <3>2. Unread[k + 1].id \in Nat
      BY <3>1, BoundsAssumption DEF Line, Ids
    <3> QED
      BY <1>0, <1>2, <1>4, <3>2 DEF LineInv
  <2> QED
    BY <2>2, <2>3
\* The response was unread until now, so that the child owes nothing.
<1>5. CASE /\ pc = "threadStart" /\ Responds(l) /\ l.id = request /\ pc' = "idle"
           /\ UNCHANGED <<request, owes, turn_id>>
  <2>1. owes = 0
    BY <1>0, <1>2, <1>5 DEF LineInv
  <2>2. ChildInv'
    BY <1>0, <1>1, <1>5, <2>1 DEF ChildInv
  <2>3. LineInv(Unread)'
    <3> SUFFICES ASSUME NEW k \in 1..Len(Unread')
                 PROVE  Unread'[k].id <= request /\ ~EndsTurn(Unread'[k])
      BY <1>5, <2>1 DEF LineInv, EndsTurn, Responds
    <3> QED
      BY <1>0, <1>2, <1>5 DEF LineInv
  <2> QED
    BY <2>2, <2>3
<1>6. CASE /\ pc = "turnStart" /\ Responds(l) /\ l.id = request /\ pc' = "stream"
           /\ turn_id' = request /\ UNCHANGED <<request, owes>>
  <2>1. owes = 0
    BY <1>0, <1>2, <1>6 DEF LineInv
  <2>2. ChildInv'
    BY <1>0, <1>1, <1>6, <2>1 DEF ChildInv
  <2>3. LineInv(Unread)'
    BY <1>0, <1>1, <1>2, <1>6 DEF LineInv, EndsTurn, Responds
  <2> QED
    BY <2>2, <2>3
\* The one end of the turn was unread until now: no other is left.
<1>7. CASE pc = "stream" /\ EndsTurn(l) /\ pc' = "idle" /\ UNCHANGED <<request, owes, turn_id>>
  <2>1. working = 0 /\ owes = 0
    BY <1>0, <1>2, <1>7 DEF LineInv
  <2>2. ChildInv'
    BY <1>0, <1>1, <1>7, <2>1 DEF ChildInv
  <2>3. LineInv(Unread)'
    <3> SUFFICES ASSUME NEW k \in 1..Len(Unread')
                 PROVE  Unread'[k].id <= request /\ ~EndsTurn(Unread'[k])
      BY <1>7, <2>1 DEF LineInv, EndsTurn, Responds
    <3>1. k + 1 # 1 /\ k + 1 \in 1..Len(Unread) /\ Unread'[k] = Unread[k + 1]
      BY <1>2
    <3> QED
      BY <1>0, <1>2, <1>7, <3>1 DEF LineInv
  <2> QED
    BY <2>2, <2>3
<1> QED
  BY <1>1, <1>3, <1>4, <1>5, <1>6, <1>7 DEF Takes

LEMMA RunTurnLines == ASSUME Inv, RunTurn PROVE LineInv(Unread)' /\ ChildInv'
<1>0. LineInv(Unread) /\ ChildInv /\ request \in Nat /\ Unread \in Seq(Line)
  BY UnreadSeq, BoundsAssumption DEF Inv, TypeOK, Ids
<1>1. /\ pc = "idle" /\ pc' = "turnStart" /\ request' = request + 1 /\ owes' = request + 1
      /\ working' = working /\ Unread' = Unread
  BY DEF RunTurn, Send, Unread, reading
<1>2. ChildInv'
  BY <1>0, <1>1 DEF ChildInv
<1>3. \A k \in 1..Len(Unread) :
         Unread[k].id <= request /\ ~EndsTurn(Unread[k]) /\ Unread[k].id \in Nat
  <2> TAKE k \in 1..Len(Unread)
  <2>1. Unread[k] \in Line
    BY <1>0, ElementOfSeq
  <2>2. Unread[k].id \in Nat
    BY <2>1, BoundsAssumption DEF Line, Ids
  <2> QED
    BY <1>0, <1>1, <2>2 DEF LineInv
<1>4. LineInv(Unread)'
  BY <1>0, <1>1, <1>3 DEF LineInv, EndsTurn, Responds
<1> QED
  BY <1>2, <1>4

\* The child answers what was asked last and ends the turn it was asked for.
LEMMA LineStep == ASSUME Inv, [Next]_vars PROVE LineInv(Unread)' /\ ChildInv'
<1>1. CASE pc # "crashed" /\ LineArrives
  BY <1>1, LineArrivesTakes, TakesLines, RestsLines
<1>2. CASE Silent
  <2>1. Rests
    BY <1>2, SilentRests DEF Inv
  <2> QED
    BY <2>1, RestsLines DEF Rests, Unread
<1> QED
  BY <1>1, <1>2, NextCases, WritesLines, ReadBufferedTakes, TakesLines, RunTurnLines

LEMMA ClosedStep == ASSUME Inv, [Next]_vars PROVE ClosedInv'
<1>0. TypeOK /\ ClosedInv
  BY DEF Inv
<1>1. CASE Writes
  BY <1>0, <1>1, WritesAppends DEF ClosedInv, reading
<1>2. ASSUME TakesNext PROVE ClosedInv'
  BY <1>0, <1>2, TakesType DEF ClosedInv, TakesNext, Reading, Responding
<1>3. CASE ReadBuffered
  BY <1>2, <1>3, ReadBufferedTakes
<1>4. CASE pc # "crashed" /\ LineArrives
  BY <1>0, <1>2, <1>4, LineArrivesTakes DEF ClosedInv
<1>5. CASE RunTurn
  BY <1>0, <1>5 DEF ClosedInv, RunTurn, reading
<1>6. CASE Silent
  BY <1>0, <1>6
     DEF ClosedInv, Silent, ChildDies, ReaderWaits, PortExit, LoopEnds, DeadlinePasses,
         ReaderTimesOut, ChildExit, Stop, StopTimeout, BrokenPipe, AboutToWrite, Throw, vars,
         outside, reading, Reading, Responding
<1> QED
  BY <1>1, <1>3, <1>4, <1>5, <1>6, NextCases

LEMMA Invariance == Spec => []Inv
<1>1. Inv /\ [Next]_vars => Inv'
  BY TypeStep, ReaderStep, LineStep, ClosedStep DEF Inv
<1> QED
  BY <1>1, InitInv, PTL DEF Spec

-----------------------------------------------------------------------------
(* The theorems *)

\* Every variable keeps its type, whatever the child writes.
THEOREM TypeCorrect == Spec => []TypeOK
<1>1. Inv => TypeOK
  BY DEF Inv
<1> QED
  BY <1>1, Invariance, PTL

\* nextLine() and the `line` event never leave a line and a reader for one another.
THEOREM LinesFindReaders == Spec => []NoReaderWhileBuffered
<1>1. Inv => NoReaderWhileBuffered
  BY DEF Inv
<1> QED
  BY <1>1, Invariance, PTL

\* However many readers of a stream timed out, readResponse meets none of them.
THEOREM ResponsesFindReaders == Spec => []NoStaleReaderForResponses
<1>1. Inv => NoStaleReaderForResponses
  BY DEF Inv
<1> QED
  BY <1>1, Invariance, PTL

\* Whatever was left unread by the turns before, the stream is that of the turn asked
\* for last.
THEOREM StreamsRightTurn == Spec => []StreamsTheTurnAskedFor
<1>1. Inv => StreamsTheTurnAskedFor
  BY DEF Inv, ChildInv, StreamsTheTurnAskedFor
<1> QED
  BY <1>1, Invariance, PTL

\* The exit of the child and stop() leave nobody waiting for a line.
THEOREM ClosedLeavesNoReader == Spec => []ClosedWakesReaders
<1>1. Inv => ClosedWakesReaders
  BY ReaderWaiting DEF ClosedWakesReaders
<1> QED
  BY <1>1, Invariance, PTL

-----------------------------------------------------------------------------
(* What makes a turn that was answered time out *)

\* As long as no reader gives up before the deadline, the readers of a stream are live,
\* and the last word of a turn ends it.
PatientInv ==
    /\ pc \in {"turnStart", "stream"} => told = "none"
    /\ pc = "stream" /\ ~late => \A k \in 1..Len(lineResolvers) : lineResolvers[k] = "live"
    /\ result = "timeout" => told = "none"

GivesUpEarly == ReaderTimesOut /\ ~late

\* A line the session takes: if it opens the stream, it was the only reader's.
LEMMA TakesPatient ==
    ASSUME PatientInv, TakesNext, lineResolvers' = << >>, told' = told
    PROVE  PatientInv'
<1>1. Len(lineResolvers') = 0
  OBVIOUS
<1>2. PICK l \in Line : Takes(l)
  BY DEF TakesNext
<1> QED
  BY <1>1, <1>2 DEF Takes, PatientInv, EndsTurn, Terminal

\* The last word comes while a reader waits: that reader is the first, and the turn ends.
LEMMA LastWordEndsTurn ==
    ASSUME Inv, PatientInv, LineArrives, told' # told
    PROVE  pc' # "stream" /\ pc' # "turnStart" /\ result' # "timeout"
<1>1. pc = "stream" /\ Waiting /\ ~late /\ Head(pipe).kind \in Terminal
  BY DEF LineArrives
<1>2. lineResolvers # << >> /\ Head(lineResolvers) = "live"
  <2>1. lineResolvers \in Seq({"live", "stale"}) /\ lineResolvers # << >>
    BY <1>1 DEF Inv, TypeOK, Waiting
  <2>2. 1 \in 1..Len(lineResolvers) /\ Head(lineResolvers) = lineResolvers[1]
    BY <2>1
  <2> QED
    BY <1>1, <2>1, <2>2 DEF PatientInv
<1>3. TakeInStream(Head(pipe))
  BY <1>1, <1>2 DEF LineArrives, Take
<1> QED
  BY <1>1, <1>3 DEF TakeInStream, Terminal

LEMMA PatientStep ==
    ASSUME Inv, PatientInv, [Next]_vars, ~GivesUpEarly PROVE PatientInv'
<1>0. lineResolvers \in Seq({"live", "stale"})
  BY DEF Inv, TypeOK
<1>1. ASSUME UNCHANGED <<pc, late, result, told, lineResolvers>> PROVE PatientInv'
  BY <1>1 DEF PatientInv
<1>2. CASE Writes
  BY <1>1, <1>2, WritesAppends DEF Inv, reading
<1>3. CASE ReadBuffered
  BY <1>3, ReadBufferedTakes, TakesPatient
<1>4. CASE pc # "crashed" /\ LineArrives
  <2>1. CASE told' # told
    BY <1>4, <2>1, LastWordEndsTurn DEF PatientInv
  <2>2. CASE told' = told /\ lineResolvers' # << >> /\ lineResolvers # << >>
    <3>1. /\ Head(lineResolvers) # "live" /\ lineResolvers' = Tail(lineResolvers)
          /\ UNCHANGED <<pc, late, result>>
      BY <1>4, <2>2, LineArrivesTakes
    <3>2. Len(lineResolvers') = Len(lineResolvers) - 1 /\ Len(lineResolvers) \in Nat
          /\ \A k \in 1..Len(lineResolvers') :
                lineResolvers'[k] = lineResolvers[k + 1] /\ k + 1 \in 1..Len(lineResolvers)
      BY <1>0, <2>2, <3>1, HeadTailProperties
    <3> QED
      BY <2>2, <3>1, <3>2 DEF PatientInv
  <2>3. CASE told' = told /\ lineResolvers' = << >> /\ TakesNext
    BY <2>3, TakesPatient
  <2>4. CASE told' = told /\ lineResolvers' = << >> /\ UNCHANGED <<pc, late, result>>
    <3>1. Len(lineResolvers') = 0
      BY <2>4
    <3> QED
      BY <2>4, <3>1 DEF PatientInv
  <2> QED
    BY <1>1, <1>4, <2>1, <2>2, <2>3, <2>4, LineArrivesTakes
<1>5. CASE RunTurn
  BY <1>5 DEF RunTurn, PatientInv
<1>6. CASE ReaderWaits
  <2>1. lineResolvers' = Append(lineResolvers, "live") /\ UNCHANGED <<pc, late, result, told>>
    BY <1>6 DEF ReaderWaits
  <2>2. Len(lineResolvers') = Len(lineResolvers) + 1 /\ Len(lineResolvers) \in Nat
        /\ lineResolvers'[Len(lineResolvers) + 1] = "live"
        /\ \A k \in 1..Len(lineResolvers) : lineResolvers'[k] = lineResolvers[k]
    BY <1>0, <2>1, AppendProperties
  <2> QED
    BY <2>1, <2>2 DEF PatientInv
\* A reader that times out at the deadline leaves a stream that will not look again.
<1>7. CASE ReaderTimesOut
  BY <1>7 DEF GivesUpEarly, ReaderTimesOut, Throw, PatientInv
<1>8. CASE PortExit \/ LoopEnds
  BY <1>8 DEF PortExit, LoopEnds, Throw, reading, PatientInv
<1>9. CASE DeadlinePasses
  BY <1>9 DEF DeadlinePasses, reading, PatientInv
<1>10. CASE ChildExit
  <2>1. Len(lineResolvers') = 0
    BY <1>10 DEF ChildExit
  <2> QED
    BY <1>10, <2>1 DEF ChildExit, PatientInv
<1>11. CASE Stop \/ StopTimeout \/ BrokenPipe
  BY <1>11 DEF Stop, StopTimeout, BrokenPipe, reading, PatientInv
<1>12. CASE ChildDies \/ UNCHANGED vars
  BY <1>1, <1>12 DEF ChildDies, vars, reading
<1> QED
  BY <1>2, <1>3, <1>4, <1>5, <1>6, <1>7, <1>8, <1>9, <1>10, <1>11, <1>12, NextCases DEF Silent

\* A turn that was answered in time is reported as timed out only where a reader has
\* timed out before the deadline: nothing else that the child, the timers and the exit
\* do, in any order, takes the last word of a turn away from the stream that waits for it.
THEOREM PatienceMeansSilence ==
    Spec /\ [][~GivesUpEarly]_vars => []TimeoutMeansSilence
<1>1. Init => PatientInv
  BY DEF Init, PatientInv
<1>2. Inv /\ PatientInv /\ [Next]_vars /\ [~GivesUpEarly]_vars => PatientInv'
  <2>1. ASSUME PatientInv, UNCHANGED vars PROVE PatientInv'
    BY <2>1 DEF vars, reading, PatientInv
  <2> QED
    BY <2>1, PatientStep
<1>3. PatientInv => TimeoutMeansSilence
  BY DEF PatientInv, TimeoutMeansSilence
<1> QED
  BY <1>1, <1>2, <1>3, Invariance, PTL DEF Spec

-----------------------------------------------------------------------------
(* The session its caller sees *)

LEMMA SessionInit == Init => Session!Init
BY DEF Init, Session!Init

\* A loop that ends ends the turn, or the start of the session.
LEMMA SessionTakes == ASSUME Inv, TakesNext, NEW l \in Line, Takes(l), UNCHANGED child, pc \in Reading
                      PROVE  [Session!Next]_(Session!vars)
<1>1. CASE UNCHANGED <<pc, result>>
  BY <1>1 DEF Session!vars
<1>2. CASE pc = "initialize" /\ pc' = "threadStart" /\ UNCHANGED result
  BY <1>2 DEF Session!vars
<1>3. CASE pc = "turnStart" /\ pc' = "stream" /\ UNCHANGED result
  BY <1>3 DEF Session!vars
<1>4. CASE pc \in {"initialize", "threadStart"} /\ pc' \in {"idle", "failed"} /\ UNCHANGED result
  BY <1>4 DEF Session!Next, Session!Open
<1>5. CASE pc = "turnStart" /\ pc' = "over" /\ result' = "error"
  <2>1. Session!EndTurn("error") /\ "error" \in Session!Results
    BY <1>5 DEF Session!EndTurn, Session!Results
  <2> QED
    BY <2>1 DEF Session!Next
<1>6. CASE pc = "stream" /\ EndsTurn(l) /\ result' = l.kind
           /\ pc' = IF l.kind = "completed" THEN "idle" ELSE "over"
  <2>1. Session!EndTurn(l.kind) /\ l.kind \in Session!Results
    BY <1>6 DEF Session!EndTurn, Session!Results, EndsTurn, Terminal
  <2> QED
    BY <2>1 DEF Session!Next
<1> QED
  BY <1>1, <1>2, <1>3, <1>4, <1>5, <1>6 DEF Takes

\* So does a loop that gives up.
LEMMA SessionGivesUp ==
    ASSUME Inv, PortExit \/ LoopEnds \/ ReaderTimesOut
    PROVE  [Session!Next]_(Session!vars)
<1>1. child' = child /\ pc \in Reading
  BY DEF PortExit, LoopEnds, ReaderTimesOut, outside
<1>2. CASE UNCHANGED <<pc, result>>
  BY <1>1, <1>2 DEF Session!vars
<1>3. CASE pc \in {"initialize", "threadStart"} /\ pc' = "failed" /\ UNCHANGED result
  BY <1>1, <1>3 DEF Session!Next, Session!Open
<1>4. ASSUME NEW how \in {"error", "failed", "timeout"}, pc \in {"turnStart", "stream"},
             pc' = "over", result' = how
      PROVE  [Session!Next]_(Session!vars)
  <2>1. Session!EndTurn(how) /\ how \in Session!Results
    BY <1>1, <1>4 DEF Session!EndTurn, Session!Results
  <2> QED
    BY <2>1 DEF Session!Next
<1> QED
  BY <1>1, <1>2, <1>3, <1>4 DEF PortExit, LoopEnds, ReaderTimesOut, Throw, Reading, Responding

LEMMA SessionSteps == Inv /\ [Next]_vars => [Session!Next]_(Session!vars)
<1> SUFFICES ASSUME Inv, [Next]_vars PROVE [Session!Next]_(Session!vars)
  OBVIOUS
<1>0. TypeOK /\ ClosedInv
  BY DEF Inv
<1>1. ASSUME UNCHANGED <<child, pc, result>> PROVE [Session!Next]_(Session!vars)
  BY <1>1 DEF Session!vars
<1>2. CASE Writes
  BY <1>0, <1>1, <1>2, WritesAppends
<1>3. ASSUME TakesNext PROVE [Session!Next]_(Session!vars)
  BY <1>3, SessionTakes DEF TakesNext
<1>4. CASE ReadBuffered
  BY <1>3, <1>4, ReadBufferedTakes
<1>5. CASE pc # "crashed" /\ LineArrives
  BY <1>1, <1>3, <1>5, LineArrivesTakes
<1>6. CASE RunTurn
  BY <1>6 DEF RunTurn, Session!Next, Session!RunTurn
<1>7. CASE ChildDies
  BY <1>7 DEF ChildDies, Session!Next, Session!AgentDies
<1>8. CASE PortExit \/ LoopEnds \/ ReaderTimesOut
  BY <1>8, SessionGivesUp
<1>9. CASE ReaderWaits \/ DeadlinePasses \/ UNCHANGED vars
  BY <1>1, <1>9 DEF ReaderWaits, DeadlinePasses, outside, vars
<1>10. CASE ChildExit
  <2>1. CASE pc = "stopping"
    BY <1>10, <2>1 DEF ChildExit, Session!Next, Session!Stopped
  <2>2. CASE pc # "stopping"
    BY <1>10, <2>2 DEF ChildExit, Session!vars
  <2> QED
    BY <2>1, <2>2
<1>11. CASE Stop
  <2>1. CASE closed
    BY <1>0, <1>11, <2>1 DEF Stop, ClosedInv, outside, Session!Next, Session!Stopped
  <2>2. CASE ~closed
    BY <1>11, <2>2 DEF Stop, outside, Session!Next, Session!Stop
  <2> QED
    BY <2>1, <2>2
<1>12. CASE StopTimeout
  BY <1>12 DEF StopTimeout, Session!Next, Session!Stopped
<1>13. CASE BrokenPipe
  <2>1. pc # "crashed"
    BY <1>13 DEF BrokenPipe, AboutToWrite, Reading, Responding
  <2> QED
    BY <1>13, <2>1 DEF BrokenPipe, outside, Reading, Responding, Session!Next, Session!Crash
<1> QED
  BY <1>2, <1>4, <1>5, <1>6, <1>7, <1>8, <1>9, <1>10, <1>11, <1>12, <1>13, NextCases DEF Silent

\* The session implements AgentSession: stale readers, buffered lines and a broken pipe
\* are nothing its caller can tell from an agent that answers, is late or dies.
THEOREM SessionImplemented == Spec => ImplementsSession
BY Invariance, SessionInit, SessionSteps, PTL DEF Spec, ImplementsSession, Session!Spec
=============================================================================
