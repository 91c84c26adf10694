---------------------------- MODULE TickIOProofs ----------------------------
(***************************************************************************)
(* The tick, the workers and the shared memory beside them, for any number *)
(* of issues, slots, pages and jobs: git is used by one job at a time,     *)
(* what agents write reaches the remote with the next push that succeeds,  *)
(* no listing overlooks an issue, and listings and pulls come nearer to    *)
(* their end with every step of theirs.                                    *)
(***************************************************************************)
EXTENDS TickIO, LinearClientProofs

Committing == {"status", "add", "commit", "push"}

\* Only the first job in line works, and each on the commands of its kind.
JobInv ==
    \A j \in 1..Len(queue) :
        /\ queue[j].step # "queued" => j = 1
        /\ queue[j].step = "pull" => queue[j].label = "before_dispatch"
        /\ queue[j].step \in Committing => queue[j].label = "after_run"

At(step) == queue # << >> /\ queue[1].step = step

\* What is staged is being committed, what is committed being pushed; whatever a failure
\* left staged is in the next commit.
RepoInv ==
    /\ staged => At("commit") \/ (failed /\ ~At("push"))
    /\ ahead => failed \/ At("push")

Idle == \A i \in Issues : working[i] = 0

\* A job that will stage the notes stands in line.
Promised == \E j \in 1..Len(queue) :
                queue[j].label = "after_run" /\ queue[j].step \in {"queued", "status", "add"}

\* Notes that a failure left lying are in the next commit, too: those beside a commit or a
\* push were written after its git add, and their own worker's job is behind.
NotesInv ==
    notes /\ enabled /\ Idle =>
        unsynced \/ Promised \/ (failed /\ ~At("commit") /\ ~At("push"))

Types == MemoryTypeOK /\ working \in [Issues -> Nat] /\ unsynced \in BOOLEAN

Inv == Types /\ JobInv /\ RepoInv /\ NotesInv

\* The listing of the start-up is never one of candidates.
ReadInv == ClientInv /\ (tick = "startup" => asked # "active")

\* An issue with an entry has its worker, the others at it are few; what the tick is
\* about to dispatch it chose among the issues without an entry.
RunsInv ==
    /\ tick \in {"startup", "armed", "refreshing", "listing", "syncing"}
    /\ eligible \subseteq Issues /\ running \subseteq Issues
    /\ working \in [Issues -> Nat]
    /\ \A i \in running : working[i] > 0
    /\ \A i \in Issues : Zombies(i) <= MaxZombies
    /\ eligible \cap running = {}
    /\ tick # "syncing" => eligible = {}

-----------------------------------------------------------------------------
(* What happens to the line of jobs *)

LEMMA Moved ==
    ASSUME queue \in Seq(Job), NEW j \in 1..Len(queue), NEW step \in Steps,
           queue' = [queue EXCEPT ![j].step = step]
    PROVE  /\ queue' \in Seq(Job) /\ Len(queue') = Len(queue)
           /\ queue'[j].step = step /\ queue'[j].label = queue[j].label
           /\ \A k \in 1..Len(queue) : k # j => queue'[k] = queue[k]
<1> DEFINE job == [queue[j] EXCEPT !.step = step]
<1>1. queue[j] \in Job
  BY ElementOfSeq
<1>2. job \in Job /\ job.step = step /\ job.label = queue[j].label
  BY <1>1 DEF Job
<1>3. queue' = [queue EXCEPT ![j] = job]
  OBVIOUS
<1> HIDE DEF job
<1> QED
  BY <1>2, <1>3, ExceptSeq

LEMMA Ended ==
    ASSUME queue \in Seq(Job), 1 \in 1..Len(queue), End(1)
    PROVE  /\ queue' \in Seq(Job) /\ Len(queue') = Len(queue) - 1
           /\ \A k \in 1..Len(queue') : queue'[k] = queue[k + 1]
<1>1. queue' = SubSeq(queue, 1, 0) \o SubSeq(queue, 2, Len(queue)) /\ queue # << >>
  BY DEF End
<1>2. SubSeq(queue, 1, 0) = << >>
  BY SubSeqEmpty
<1>3. SubSeq(queue, 2, Len(queue)) = Tail(queue) /\ Tail(queue) \in Seq(Job)
  BY <1>1, TailIsSubSeq, HeadTailProperties
<1>4. queue' = Tail(queue)
  BY <1>1, <1>2, <1>3, ConcatEmptySeq
<1> QED
  BY <1>1, <1>4, HeadTailProperties

LEMMA Enqueued ==
    ASSUME queue \in Seq(Job), NEW label \in {"before_dispatch", "after_run"}, Enqueue(label)
    PROVE  /\ queue' \in Seq(Job) /\ Len(queue') = Len(queue) + 1 /\ queue' # << >>
           /\ queue'[Len(queue) + 1].label = label /\ queue'[Len(queue) + 1].step = "queued"
           /\ \A k \in 1..Len(queue) : queue'[k] = queue[k]
<1> DEFINE job == [label |-> label, step |-> "queued"]
<1>1. job \in Job /\ job.label = label /\ job.step = "queued"
  BY DEF Job, Steps
<1>2. queue' = Append(queue, job)
  BY DEF Enqueue
<1> HIDE DEF job
<1> QED
  BY <1>1, <1>2, AppendProperties

-----------------------------------------------------------------------------
(* The steps *)

LEMMA InitInv == Init => Inv
<1> SUFFICES ASSUME Init PROVE Inv
  OBVIOUS
<1>1. queue = << >> /\ queue \in Seq(Job) /\ Len(queue) = 0
  BY EmptySeq DEF Init, MemoryInit
<1>2. enabled \in BOOLEAN /\ notes = FALSE /\ staged = FALSE /\ ahead = FALSE /\ broken = FALSE
      /\ failed = FALSE
  BY DEF Init, MemoryInit
<1>3. Types
  BY <1>1, <1>2 DEF Init, Types, MemoryTypeOK
<1>4. JobInv /\ RepoInv /\ NotesInv
  BY <1>1, <1>2 DEF JobInv, RepoInv, NotesInv
<1> QED
  BY <1>3, <1>4 DEF Inv

\* A step that leaves the jobs and the repository alone, and may dispatch.
LEMMA RestsInv ==
    ASSUME Inv, UNCHANGED <<memory, unsynced>>, working' \in [Issues -> Nat], Idle' => Idle
    PROVE  Inv'
BY DEF Inv, Types, MemoryTypeOK, JobInv, RepoInv, At, NotesInv, Promised, memory, repository

\* A job is appended: nothing that holds of the line is disturbed.
LEMMA EnqueueInv ==
    ASSUME Inv, NEW label \in {"before_dispatch", "after_run"}, Enqueue(label),
           UNCHANGED <<enabled, repository, failed>>, working' \in [Issues -> Nat],
           unsynced' \in BOOLEAN,
           label = "after_run" \/ ((Idle' => Idle) /\ unsynced' = unsynced)
    PROVE  Inv'
<1>0. queue \in Seq(Job) /\ Len(queue) \in Nat
  BY DEF Inv, Types, MemoryTypeOK
<1>1. /\ queue' \in Seq(Job) /\ Len(queue') = Len(queue) + 1 /\ queue' # << >>
      /\ queue'[Len(queue) + 1].label = label /\ queue'[Len(queue) + 1].step = "queued"
      /\ \A k \in 1..Len(queue) : queue'[k] = queue[k]
  BY <1>0, Enqueued
<1>2. Types'
  BY <1>1 DEF Inv, Types, MemoryTypeOK, repository
<1>3. JobInv'
  BY <1>0, <1>1 DEF Inv, JobInv, Committing
<1>4. \A step \in Steps \ {"queued"} : At(step)' <=> At(step)
  BY <1>0, <1>1 DEF At
<1>5. RepoInv'
  BY <1>4 DEF Inv, RepoInv, repository, Steps
<1>6. Promised => Promised'
  BY <1>0, <1>1 DEF Promised
<1>7. label = "after_run" => Promised'
  BY <1>0, <1>1 DEF Promised
<1>8. NotesInv'
  BY <1>4, <1>6, <1>7 DEF Inv, NotesInv, repository, Steps
<1> QED
  BY <1>2, <1>3, <1>5, <1>8 DEF Inv

\* A command of git, or the start of a job: only the first job in line moves.
LEMMA GitInv == ASSUME Inv, NEW j \in 1..Len(queue), GitStep(j), UNCHANGED <<working, unsynced>>
                PROVE  Inv'
<1>0. /\ queue \in Seq(Job) /\ Len(queue) \in Nat /\ queue # << >> /\ queue[j] \in Job
      /\ Types /\ JobInv /\ RepoInv /\ NotesInv
  BY ElementOfSeq DEF Inv, Types, MemoryTypeOK
<1>1. j = 1
  BY <1>0 DEF GitStep, Start, Pull, Push, Status, Add, Commit, CommandFails, JobInv
\* The job goes to its next command.
<1>2. ASSUME NEW step \in Steps \ {"queued"}, Goto(1, step),
             step = "pull" => queue[1].label = "before_dispatch",
             step \in Committing => queue[1].label = "after_run",
             notes' \in BOOLEAN, staged' \in BOOLEAN, ahead' \in BOOLEAN, enabled' = enabled,
             broken' = broken,
             staged' => step = "commit" \/ (failed /\ step # "push"),
             ahead' => failed \/ step = "push",
             notes' => notes, notes' /\ step \in {"commit", "push"} => queue[1].step = "commit",
             notes' /\ queue[1].label = "after_run" /\ queue[1].step \in {"queued", "status", "add"}
                => step \in {"status", "add"}
      PROVE  Inv'
  <2>1. /\ queue' \in Seq(Job) /\ Len(queue') = Len(queue)
        /\ queue'[1].step = step /\ queue'[1].label = queue[1].label
        /\ \A k \in 1..Len(queue) : k # 1 => queue'[k] = queue[k]
    BY <1>0, <1>1, <1>2, Moved DEF Goto
  <2>2. failed' = failed /\ queue' # << >>
    BY <1>0, <1>2, <2>1 DEF Goto
  <2>3. Types'
    BY <1>0, <1>2, <2>1, <2>2 DEF Types, MemoryTypeOK
  <2>4. JobInv'
    BY <1>0, <1>2, <2>1 DEF JobInv
  <2>5. RepoInv'
    BY <1>2, <2>1, <2>2 DEF RepoInv, At
  <2>6. notes' /\ Promised => Promised'
    <3> SUFFICES ASSUME notes', NEW k \in 1..Len(queue), queue[k].label = "after_run",
                        queue[k].step \in {"queued", "status", "add"}
                 PROVE  Promised'
      BY DEF Promised
    <3>1. k \in 1..Len(queue') /\ queue'[k].label = "after_run"
          /\ queue'[k].step \in {"queued", "status", "add"}
      BY <1>2, <2>1
    <3> QED
      BY <3>1 DEF Promised
  <2>7. NotesInv'
    BY <1>0, <1>2, <2>1, <2>2, <2>6 DEF NotesInv, Idle, At
  <2> QED
    BY <2>3, <2>4, <2>5, <2>7 DEF Inv
\* The job ends.
<1>3. ASSUME End(1), enabled' = enabled, notes' = notes, staged' = staged,
             ahead' \in BOOLEAN, broken' \in BOOLEAN, failed' \in BOOLEAN,
             ~failed' => ~staged /\ ~ahead',
             ~failed' /\ notes => /\ queue[1].step \notin {"queued", "status", "add"}
                                  /\ failed => At("push")
      PROVE  Inv'
  <2>0. 1 \in 1..Len(queue)
    BY <1>1
  <2>1. /\ queue' \in Seq(Job) /\ Len(queue') = Len(queue) - 1
        /\ \A k \in 1..Len(queue') : queue'[k] = queue[k + 1]
    BY <1>0, <1>3, <2>0, Ended
  <2>2. Types'
    BY <1>0, <1>3, <2>1 DEF Types, MemoryTypeOK
  <2>3. \A k \in 1..Len(queue') : k + 1 \in 1..Len(queue) /\ k + 1 # 1
    BY <1>0, <2>1
  <2>4. JobInv'
    BY <1>0, <2>1, <2>3 DEF JobInv, Committing
  <2>5. ~At("commit")' /\ ~At("push")'
    <3>1. ASSUME queue' # << >> PROVE queue'[1].step = "queued"
      <4>1. Len(queue') \in Nat /\ Len(queue') # 0
        BY <2>1, <3>1, EmptySeq
      <4> QED
        BY <1>0, <2>1, <2>3, <4>1 DEF JobInv
    <3> QED
      BY <3>1 DEF At
  <2>6. RepoInv'
    BY <1>0, <1>3, <2>5 DEF RepoInv
  <2>7. ~failed' /\ notes /\ Promised => Promised'
    <3> SUFFICES ASSUME ~failed', notes, NEW k \in 1..Len(queue), queue[k].label = "after_run",
                        queue[k].step \in {"queued", "status", "add"}
                 PROVE  Promised'
      BY DEF Promised
    <3>1. k # 1
      BY <1>3
    <3>2. k - 1 \in 1..Len(queue') /\ queue'[k - 1] = queue[k]
      BY <1>0, <2>1, <3>1
    <3> QED
      BY <3>2 DEF Promised
  <2>8. NotesInv'
    BY <1>0, <1>3, <2>5, <2>7 DEF NotesInv, Idle
  <2> QED
    BY <2>2, <2>4, <2>6, <2>8 DEF Inv
<1>4. CASE Start(j)
  BY <1>0, <1>1, <1>2, <1>4
     DEF Start, Steps, Committing, RepoInv, At, Types, MemoryTypeOK, repository, Job
<1>5. ASSUME NEW ok \in BOOLEAN, Pull(j, ok) PROVE Inv'
  BY <1>0, <1>1, <1>3, <1>5 DEF Pull, RepoInv, At, Types, MemoryTypeOK
<1>6. ASSUME NEW ok \in BOOLEAN, Push(j, ok) PROVE Inv'
  BY <1>0, <1>1, <1>3, <1>6 DEF Push, RepoInv, At, Types, MemoryTypeOK
<1>7. CASE Status(j)
  BY <1>0, <1>1, <1>2, <1>3, <1>7
     DEF Status, Steps, Committing, JobInv, RepoInv, At, Types, MemoryTypeOK, repository
<1>8. CASE Add(j)
  BY <1>0, <1>1, <1>2, <1>8 DEF Add, Steps, Committing, JobInv, RepoInv, At, Types, MemoryTypeOK
<1>9. CASE Commit(j)
  BY <1>0, <1>1, <1>2, <1>9 DEF Commit, Steps, Committing, JobInv, RepoInv, At, Types, MemoryTypeOK
<1>10. CASE CommandFails(j)
  BY <1>0, <1>1, <1>3, <1>10 DEF CommandFails, Types, MemoryTypeOK, repository
<1> QED
  BY <1>4, <1>5, <1>6, <1>7, <1>8, <1>9, <1>10 DEF GitStep

\* A worker ends: its job joins the line, or there is none because its run was
\* terminated.
LEMMA ExitInv == ASSUME Inv, NEW i \in Issues, WorkerExit(i) PROVE Inv'
<1>0. Types
  BY DEF Inv
<1>1. /\ working' \in [Issues -> Nat] /\ unsynced' = (i \notin running)
      /\ UNCHANGED <<enabled, repository, failed>>
  BY <1>0 DEF WorkerExit, Types
<1>2. CASE i \in running /\ enabled
  <2>1. Enqueue("after_run")
    BY <1>2 DEF WorkerExit, SyncAfterRun
  <2> QED
    BY <1>1, <2>1, EnqueueInv
<1>3. CASE i \notin running \/ ~enabled
  <2>1. queue' = queue
    BY <1>3 DEF WorkerExit, SyncAfterRun
  <2>2. Types'
    BY <1>0, <1>1, <2>1 DEF Types, MemoryTypeOK, repository
  <2>3. JobInv' /\ RepoInv'
    BY <1>1, <2>1 DEF Inv, JobInv, RepoInv, At, repository
  <2>4. NotesInv'
    BY <1>1, <1>3 DEF NotesInv
  <2> QED
    BY <2>2, <2>3, <2>4 DEF Inv
<1> QED
  BY <1>2, <1>3

\* Dispatching can only add workers.
LEMMA DispatchAdds ==
    ASSUME Types, NEW S, DispatchSome(S)
    PROVE  working' \in [Issues -> Nat] /\ (Idle' => Idle)
<1>1. PICK T : working' = [i \in Issues |-> working[i] + IF i \in T THEN 1 ELSE 0]
  BY DEF DispatchSome
<1> QED
  BY <1>1 DEF Types, Idle

LEMMA TickInv == ASSUME Inv, TickStep PROVE Inv'
<1>0. Types
  BY DEF Inv
<1>1. CASE StartupCleanup \/ TickBegins
  BY <1>0, <1>1, RestsInv DEF StartupCleanup, TickBegins, runs, Types, Idle
<1>2. CASE Refreshed
  BY <1>0, <1>2, RestsInv DEF Refreshed, Types, Idle
<1>3. CASE ReadCandidates
  <2>1. UNCHANGED <<enabled, repository, failed, unsynced>>
    BY <1>3 DEF ReadCandidates, Listed, runs
  <2>2. CASE UNCHANGED <<queue, runs>>
    BY <1>0, <2>1, <2>2, RestsInv DEF runs, memory, Types, Idle
  <2>3. CASE Enqueue("before_dispatch") /\ UNCHANGED working
    BY <1>0, <2>1, <2>3, EnqueueInv DEF Types, Idle
  <2>4. ASSUME NEW S, DispatchSome(S), UNCHANGED queue PROVE Inv'
    BY <1>0, <2>1, <2>4, DispatchAdds, RestsInv DEF memory
  <2> QED
    BY <1>3, <2>2, <2>3, <2>4 DEF ReadCandidates, Listed
<1>4. CASE Synced
  BY <1>0, <1>4, DispatchAdds, RestsInv DEF Synced
<1> QED
  BY <1>1, <1>2, <1>3, <1>4 DEF TickStep

LEMMA WritesInv == ASSUME Inv, AgentWrites PROVE Inv'
<1>1. /\ UNCHANGED <<enabled, queue, staged, ahead, broken, failed, working, unsynced>>
      /\ notes' = TRUE /\ \E i \in Issues : working[i] > 0
  BY DEF AgentWrites, runs
<1>2. ~Idle'
  BY <1>1 DEF Inv, Types, Idle
<1>3. Types'
  BY <1>1 DEF Inv, Types, MemoryTypeOK
<1>4. JobInv' /\ RepoInv'
  BY <1>1 DEF Inv, JobInv, RepoInv, At
<1> QED
  BY <1>2, <1>3, <1>4 DEF Inv, NotesInv

LEMMA Invariance == Spec => []Inv
<1>1. Inv /\ [Next]_vars => Inv'
  <2> SUFFICES ASSUME Inv, [Next]_vars PROVE Inv'
    OBVIOUS
  <2>1. CASE Git
    BY <2>1, GitInv DEF Git, runs
  <2>2. CASE IssueChanges \/ UNCHANGED vars
    BY <2>2, RestsInv DEF IssueChanges, runs, vars, Inv, Types, Idle
  <2> QED
    BY <2>1, <2>2, TickInv, WritesInv, ExitInv DEF Next
<1> QED
  BY <1>1, InitInv, PTL DEF Spec

-----------------------------------------------------------------------------
(* The listing and the runs beside it *)

LEMMA Dispatched ==
    ASSUME RunsInv, NEW S \in SUBSET Issues, S \cap running = {}, DispatchSome(S)
    PROVE  /\ running' \subseteq running \cup S
           /\ working' \in [Issues -> Nat]
           /\ \A i \in running' : working'[i] > 0
           /\ \A i \in Issues : Zombies(i)' <= MaxZombies
<1>1. PICK T \in SUBSET S :
          /\ running' = running \cup T
          /\ working' = [i \in Issues |-> working[i] + IF i \in T THEN 1 ELSE 0]
  BY DEF DispatchSome
<1>2. working' \in [Issues -> Nat] /\ \A i \in running' : working'[i] > 0
  BY <1>1 DEF RunsInv
<1>3. ASSUME NEW i \in Issues PROVE Zombies(i)' <= MaxZombies
  <2>1. Zombies(i)' = Zombies(i)
    BY <1>1 DEF RunsInv, Zombies
  <2> QED
    BY <2>1 DEF RunsInv
<1> QED
  BY <1>1, <1>2, <1>3

LEMMA InitReads == Init => ReadInv /\ RunsInv
<1> SUFFICES ASSUME Init PROVE ReadInv /\ RunsInv
  OBVIOUS
<1>1. ClientTypeOK
  BY EmptySeq DEF Init, ClientTypeOK
<1>2. ToSet(all) = {} /\ IsInjective(all)
  BY EmptySeq DEF Init, ToSet, IsInjective
<1>3. \A i \in stayed : ~(i <= cursor)
  BY <1>1, IssuesAssumption DEF Init, ClientTypeOK
<1>4. ReadInv
  BY <1>1, <1>2, <1>3 DEF Init, ReadInv, ClientInv, ListingInv, Matching
<1>5. RunsInv
  BY SlotsAssumption DEF Init, RunsInv, Zombies
<1> QED
  BY <1>4, <1>5

\* What the tick may do to the listing, and the rest.
LEMMA ReadsKept == ASSUME ReadInv, [Next]_vars PROVE ReadInv'
<1>0. ClientInv
  BY DEF ReadInv
<1>1. CASE UNCHANGED <<open, listing>> /\ (tick' = "startup" => tick = "startup")
  BY <1>0, <1>1, RestsClientInv DEF ReadInv, listing
<1>2. CASE IssueChanges
  BY <1>0, <1>2, ChangeInv DEF IssueChanges, ReadInv, Change
<1>3. CASE StartupCleanup
  <2>1. CASE NextPage /\ UNCHANGED tick
    BY <1>0, <1>3, <2>1, NextPageInv DEF StartupCleanup, ReadInv, NextPage
  <2>2. CASE (LastPage \/ ListingFails) /\ tick' = "armed"
    BY <1>0, <1>3, <2>2, OverInv DEF StartupCleanup, ReadInv, LastPage, ListingFails
  <2> QED
    BY <1>3, <2>1, <2>2 DEF StartupCleanup
<1>4. CASE Validate /\ open' = open
  <2>1. CASE tick' = "listing" /\ BeginListing("active")
    BY <1>0, <1>4, <2>1, BeginInv DEF ReadInv
  <2>2. CASE tick' = "armed" /\ UNCHANGED listing
    BY <1>1, <1>4, <2>2
  <2> QED
    BY <1>4, <2>1, <2>2 DEF Validate
<1>5. CASE ReadCandidates
  <2>1. CASE NextPage /\ UNCHANGED tick
    BY <1>0, <1>5, <2>1, NextPageInv DEF ReadCandidates, ReadInv, NextPage
  <2>2. CASE (LastPage \/ ListingFails) /\ tick' # "startup"
    BY <1>0, <1>5, <2>2, OverInv DEF ReadCandidates, ReadInv, LastPage, ListingFails
  <2> QED
    BY <1>5, <2>1, <2>2 DEF ReadCandidates, Listed, runs
<1>6. CASE TickBegins
  BY <1>1, <1>4, <1>6 DEF TickBegins
<1>7. CASE Refreshed
  BY <1>4, <1>7 DEF Refreshed
<1>8. CASE Synced
  BY <1>1, <1>8 DEF Synced
<1>9. CASE AgentWrites
  BY <1>1, <1>9 DEF AgentWrites
<1>10. CASE \E i \in Issues : WorkerExit(i)
  BY <1>1, <1>10 DEF WorkerExit
<1>11. CASE Git
  BY <1>1, <1>11 DEF Git
<1>12. CASE UNCHANGED vars
  BY <1>1, <1>12 DEF vars
<1> QED
  BY <1>2, <1>3, <1>5, <1>6, <1>7, <1>8, <1>9, <1>10, <1>11, <1>12 DEF Next, TickStep

LEMMA CandidatesFree ==
    ASSUME ReadInv, LastPage, NEW S \in Candidates
    PROVE  S \in SUBSET Issues /\ S \cap running = {}
<1>1. ToSet(Answer) \subseteq Issues
  BY AnswerFacts, LenProperties DEF ReadInv, LastPage, ToSet
<1> QED
  BY <1>1 DEF Candidates

LEMMA RunsKept == ASSUME ReadInv, RunsInv, [Next]_vars PROVE RunsInv'
<1>1. CASE UNCHANGED <<eligible, running, working>> /\ tick' \in {"armed", "listing", "refreshing"}
           /\ tick # "syncing"
  BY <1>1 DEF RunsInv, Zombies
<1>2. CASE UNCHANGED <<eligible, running, working, tick>>
  BY <1>2 DEF RunsInv, Zombies
<1>3. CASE Refreshed
  <2>1. PICK told \in StateAnswers(running) \cup {{}} :
            /\ \A i \in told \ open : Zombies(i) < MaxZombies
            /\ running' = running \ (told \ open)
    BY <1>3 DEF Refreshed
  <2>2. /\ tick = "refreshing" /\ tick' \in {"listing", "armed"}
        /\ UNCHANGED <<eligible, working>>
    BY <1>3 DEF Refreshed, Validate
  <2>3. ASSUME NEW i \in Issues PROVE Zombies(i)' <= MaxZombies
    <3>1. working[i] \in Nat /\ Zombies(i) <= MaxZombies /\ MaxZombies \in Nat
      BY SlotsAssumption DEF RunsInv
    <3>2. CASE i \in running \ running'
      <4>1. Zombies(i) < MaxZombies
        BY <2>1, <3>2
      <4> QED
        BY <2>2, <3>1, <3>2, <4>1 DEF Zombies
    <3>3. CASE i \notin running \ running'
      BY <2>1, <2>2, <3>1, <3>3 DEF Zombies
    <3> QED
      BY <3>2, <3>3
  <2> QED
    BY <2>1, <2>2, <2>3 DEF RunsInv
<1>4. CASE Listed /\ tick = "listing"
  <2>1. PICK S \in Candidates :
            \/ tick' = "syncing" /\ eligible' = S /\ UNCHANGED <<running, working>>
            \/ DispatchSome(S) /\ tick' = "armed" /\ UNCHANGED eligible
    BY <1>4 DEF Listed
  <2>2. S \in SUBSET Issues /\ S \cap running = {}
    BY <1>4, CandidatesFree DEF Listed
  <2>3. CASE tick' = "syncing" /\ eligible' = S /\ UNCHANGED <<running, working>>
    BY <2>2, <2>3 DEF RunsInv, Zombies
  <2>4. CASE DispatchSome(S) /\ tick' = "armed" /\ UNCHANGED eligible
    <3>1. /\ running' \subseteq running \cup S /\ working' \in [Issues -> Nat]
          /\ \A i \in running' : working'[i] > 0
          /\ \A i \in Issues : Zombies(i)' <= MaxZombies
      BY <2>2, <2>4, Dispatched
    <3>2. eligible' = {}
      BY <1>4, <2>4 DEF RunsInv
    <3> QED
      BY <2>2, <2>4, <3>1, <3>2 DEF RunsInv
  <2> QED
    BY <2>1, <2>3, <2>4
<1>5. CASE Synced
  <2>1. eligible \in SUBSET Issues /\ eligible \cap running = {}
    BY DEF RunsInv
  <2>2. DispatchSome(eligible) /\ eligible' = {} /\ tick' = "armed"
    BY <1>5 DEF Synced
  <2>3. /\ running' \subseteq running \cup eligible /\ working' \in [Issues -> Nat]
        /\ \A i \in running' : working'[i] > 0
        /\ \A i \in Issues : Zombies(i)' <= MaxZombies
    BY <2>1, <2>2, Dispatched
  <2> QED
    BY <2>1, <2>2, <2>3 DEF RunsInv
<1>6. ASSUME NEW i \in Issues, WorkerExit(i) PROVE RunsInv'
  <2>1. /\ working[i] > 0 /\ working' = [working EXCEPT ![i] = @ - 1]
        /\ running' = running \ {i} /\ UNCHANGED <<tick, eligible>>
    BY <1>6 DEF WorkerExit
  <2>2. working' \in [Issues -> Nat] /\ \A j \in running' : working'[j] > 0
    BY <2>1 DEF RunsInv
  <2>3. ASSUME NEW j \in Issues PROVE Zombies(j)' <= MaxZombies
    <3>1. working[j] \in Nat /\ Zombies(j) <= MaxZombies /\ MaxZombies \in Nat
      BY SlotsAssumption DEF RunsInv
    <3>2. CASE j = i
      BY <2>1, <3>1, <3>2 DEF RunsInv, Zombies
    <3>3. CASE j # i
      BY <2>1, <3>1, <3>3 DEF RunsInv, Zombies
    <3> QED
      BY <3>2, <3>3
  <2> QED
    BY <2>1, <2>2, <2>3 DEF RunsInv
<1>7. CASE StartupCleanup
  BY <1>1, <1>2, <1>7 DEF StartupCleanup, runs
<1>8. CASE TickBegins
  BY <1>1, <1>8 DEF TickBegins, Validate, runs
<1>9. CASE ReadCandidates
  BY <1>1, <1>2, <1>4, <1>9 DEF ReadCandidates, runs
<1>10. CASE AgentWrites \/ Git \/ IssueChanges \/ UNCHANGED vars
  BY <1>2, <1>10 DEF AgentWrites, Git, IssueChanges, vars, runs
<1> QED
  BY <1>3, <1>5, <1>6, <1>7, <1>8, <1>9, <1>10 DEF Next, TickStep

LEMMA ReadInvariance == Spec => [](ReadInv /\ RunsInv)
BY InitReads, ReadsKept, RunsKept, PTL DEF Spec

-----------------------------------------------------------------------------
(* The theorems *)

\* The chain of promises keeps git commands from running at once, although the tick and
\* the workers enqueue their jobs without a look at one another.
THEOREM GitAlone == Spec => []OneGitAtATime
<1>1. Inv => OneGitAtATime
  <2> SUFFICES ASSUME Inv
               PROVE  Cardinality({j \in 1..Len(queue) : queue[j].step # "queued"}) <= 1
    BY DEF OneGitAtATime
  <2> DEFINE Busy == {j \in 1..Len(queue) : queue[j].step # "queued"}
  <2>1. Busy \subseteq {1}
    BY DEF Inv, JobInv
  <2>2. Busy = {} \/ Busy = {1}
    BY <2>1
  <2>3. Cardinality({}) = 0 /\ Cardinality({1}) = 1
    BY FS_EmptySet, FS_Singleton
  <2>4. Cardinality(Busy) <= 1
    <3> HIDE DEF Busy
    <3>1. CASE Busy = {}
      BY <2>3, <3>1
    <3>2. CASE Busy = {1}
      BY <2>3, <3>2
    <3> QED
      BY <2>2, <3>1, <3>2
  <2> QED
    BY <2>4
<1> QED
  BY <1>1, Invariance, PTL

\* A commit stays at home only after a job that commits has failed, and until the next one
\* that pushes.
THEOREM CommitsArePushed == Spec => []UnpushedHasCause
<1>1. Inv => UnpushedHasCause
  <2> SUFFICES ASSUME Inv, ahead, ~failed PROVE \E j \in 1..Len(queue) : queue[j].step = "push"
    BY DEF UnpushedHasCause
  <2>1. queue # << >> /\ queue[1].step = "push" /\ queue \in Seq(Job)
    BY DEF Inv, Types, MemoryTypeOK, RepoInv, At
  <2>2. 1 \in 1..Len(queue)
    BY <2>1
  <2> QED
    BY <2>1, <2>2
<1> QED
  BY <1>1, Invariance, PTL

\* When nobody is at work and no job is left, the notes of every agent are at the
\* remote: a note written while a job was half done is in the job of its own worker, and one
\* that a failed job left behind goes with the next push.
THEOREM NotesReachRemote == Spec => []NotesAreShared
<1>1. Inv => NotesAreShared
  <2> SUFFICES ASSUME Inv, Idle, queue = << >>, enabled
               PROVE  ~(notes \/ staged \/ ahead) \/ failed \/ unsynced
    BY DEF NotesAreShared, Idle
  <2>1. ~Promised /\ ~At("commit") /\ ~At("push")
    BY DEF Promised, At
  <2> QED
    BY <2>1 DEF Inv, RepoInv, NotesInv
<1> QED
  BY <1>1, Invariance, PTL

\* Every variable of the tick and of what it awaits keeps its type; an issue never has
\* more workers than its run and those of runs that were terminated.
THEOREM TypeCorrect == Spec => []TypeOK
<1>1. Inv /\ ReadInv /\ RunsInv => TypeOK
  <2> SUFFICES ASSUME Inv, ReadInv, RunsInv PROVE TypeOK
    OBVIOUS
  <2>1. ASSUME NEW i \in Issues PROVE working[i] \in 0..(MaxZombies + 1)
    BY SlotsAssumption DEF RunsInv, Zombies
  <2>2. working \in [Issues -> 0..(MaxZombies + 1)]
    BY <2>1 DEF RunsInv
  <2> QED
    BY <2>2 DEF TypeOK, Inv, Types, ReadInv, ClientInv, RunsInv
<1> QED
  BY <1>1, Invariance, ReadInvariance, PTL

\* An issue that is in the states asked for from the first request of a listing to the last
\* is in its answer, and nothing is there twice, however issues come and go between the pages.
THEOREM IssuesAreNoticed == Spec => NoIssueOverlooked
<1> DEFINE Noticed ==
        Listing /\ asked' = "none" => IsInjective(Answer) /\ stayed \subseteq ToSet(Answer)
<1>1. ReadInv /\ [Next]_vars => Noticed
  <2> SUFFICES ASSUME ReadInv, [Next]_vars, Listing, asked' = "none"
               PROVE  IsInjective(Answer) /\ stayed \subseteq ToSet(Answer)
    OBVIOUS
  <2>1. LastPage
    <3>1. ~UNCHANGED asked
      BY DEF Listing
    <3>2. ~NextPage /\ ~ListingFails /\ ~Validate
      BY <3>1 DEF NextPage, ListingFails, Over, Validate, BeginListing, listing
    <3> QED
      BY <3>1, <3>2
         DEF Next, TickStep, StartupCleanup, TickBegins, Refreshed, ReadCandidates, Listed, Synced,
             AgentWrites, WorkerExit, Git, IssueChanges, Change, vars, listing
  <2>2. ~HasNextPage /\ ClientInv
    BY <2>1 DEF LastPage, ReadInv
  <2> QED
    BY <2>2, NoneMissed, AnswerFacts
<1>2. NoIssueOverlooked <=> [][Noticed]_vars
  BY DEF NoIssueOverlooked
<1> QED
  BY <1>1, <1>2, ReadInvariance, PTL DEF Spec

-----------------------------------------------------------------------------
(* Why a tick ends *)

\* The issues no page of the listing has gone past.
Unread == {i \in Issues : i > cursor}

\* A listing is under way only while the start-up or the tick awaits it.
ReadOnlyThen == Listing => tick \in {"startup", "listing"}

LEMMA ReadSteps ==
    ASSUME ReadOnlyThen, [Next]_vars
    PROVE  ReadOnlyThen' /\ (Listing /\ Listing' => NextPage \/ cursor' = cursor)
<1> DEFINE Goal == ReadOnlyThen' /\ (Listing /\ Listing' => NextPage \/ cursor' = cursor)
<1>1. CASE StartupCleanup
  BY <1>1 DEF StartupCleanup, NextPage, LastPage, ListingFails, Over, ReadOnlyThen, Listing
<1>2. CASE TickBegins \/ Refreshed
  BY <1>2 DEF TickBegins, Refreshed, Validate, BeginListing, listing, ReadOnlyThen, Listing
<1>3. CASE ReadCandidates
  BY <1>3 DEF ReadCandidates, Listed, NextPage, LastPage, ListingFails, Over, ReadOnlyThen, Listing
<1>4. CASE UNCHANGED <<tick, asked, cursor>>
  BY <1>4 DEF ReadOnlyThen, Listing
<1>5. CASE Synced
  BY <1>5 DEF Synced, listing, ReadOnlyThen, Listing
<1> QED
  BY <1>1, <1>2, <1>3, <1>4, <1>5
  DEF Next, TickStep, AgentWrites, WorkerExit, Git, IssueChanges, Change, vars, listing

\* A listing is read in at most as many requests as there are issues: each page but the last
\* leaves fewer unread, and no issue that comes or goes meanwhile adds one.
THEOREM ListingsGoForward ==
    Spec => [][Listing /\ Listing' /\ asked' = asked =>
                   /\ Cardinality(Unread') <= Cardinality(Unread)
                   /\ NextPage => Cardinality(Unread') < Cardinality(Unread)]_vars
<1> DEFINE Forward == Listing /\ Listing' /\ asked' = asked =>
                          /\ Cardinality(Unread') <= Cardinality(Unread)
                          /\ NextPage => Cardinality(Unread') < Cardinality(Unread)
<1>1. ReadInv /\ ReadOnlyThen /\ [Next]_vars => Forward
  <2> SUFFICES ASSUME ReadInv, ReadOnlyThen, [Next]_vars, Listing, Listing', asked' = asked
               PROVE  /\ Cardinality(Unread') <= Cardinality(Unread)
                      /\ NextPage => Cardinality(Unread') < Cardinality(Unread)
    OBVIOUS
  <2>1. /\ IsFiniteSet(Unread) /\ Cardinality(Unread) \in Nat /\ ClientTypeOK
        /\ cursor \in Int /\ \A i \in Issues : i \in Int
    <3>1. Unread \in SUBSET Issues
      BY DEF Unread
    <3> QED
      BY <3>1, IssuesAssumption, FS_Subset, FS_CardinalityType, RestType
         DEF ReadInv, ClientInv
  <2>2. CASE NextPage
    <3>1. cursor' \in Rest
      BY <2>1, <2>2, PageIsFirst DEF NextPage
    <3>2. cursor' \in Unread /\ cursor' > cursor /\ cursor' \in Int
      BY <2>1, <3>1, RestType DEF Rest, Unread
    <3>3. Unread' \subseteq Unread /\ cursor' \notin Unread'
      <4>1. \A i \in Issues : i > cursor' => i > cursor
        BY <2>1, <3>2
      <4>2. ~(cursor' > cursor')
        BY <3>2
      <4> QED
        BY <4>1, <4>2 DEF Unread
    <3>4. /\ IsFiniteSet(Unread') /\ Cardinality(Unread') <= Cardinality(Unread)
          /\ Cardinality(Unread') # Cardinality(Unread)
      BY <2>1, <3>2, <3>3, FS_Subset
    <3>5. Cardinality(Unread') \in Nat
      BY <3>4, FS_CardinalityType
    <3> QED
      BY <2>1, <3>4, <3>5
  <2>3. CASE ~NextPage
    <3>1. cursor' = cursor
      BY <2>3, ReadSteps DEF ReadOnlyThen
    <3>2. Unread' = Unread
      BY <3>1 DEF Unread
    <3> QED
      BY <2>1, <2>3, <3>2
  <2> QED
    BY <2>2, <2>3
<1>2. Init => ReadOnlyThen
  BY DEF Init, ReadOnlyThen
<1>3. ReadOnlyThen /\ [Next]_vars => ReadOnlyThen'
  BY ReadSteps
<1> QED
  BY <1>1, <1>2, <1>3, ReadInvariance, PTL DEF Spec

\* The commands a job has before it at most, its start among them.
CommandsOf(step) == CASE step = "queued" -> 5
                      [] step = "status" -> 4
                      [] step = "add"    -> 3
                      [] step = "commit" -> 2
                      [] step \in {"pull", "push"} -> 1

\* Those until job p has ended: of the one at work, and of the jobs behind it.
CommandsUpTo(p) == CommandsOf(queue[1].step) + 5 * (p - 1)

\* Where the tick's job stands in the line: there is one at most.
Pulls == {p \in 1..Len(queue) : queue[p].label = "before_dispatch"}

PullInv == /\ Pulls # {} => tick = "syncing"
           /\ \A p, q \in Pulls : p = q

LEMMA CommandsAre == \A step \in Steps : CommandsOf(step) \in 1..5
BY DEF CommandsOf, Steps

\* Git brings the first job one command on, or to its end.
LEMMA GitForward ==
    ASSUME Inv, NEW j \in 1..Len(queue), GitStep(j)
    PROVE  /\ j = 1
           /\ \/ \E step \in Steps : /\ Goto(1, step)
                                     /\ CommandsOf(step) < CommandsOf(queue[1].step)
              \/ End(1)
<1>0. queue \in Seq(Job) /\ JobInv
  BY DEF Inv, Types, MemoryTypeOK
<1>1. j = 1
  BY <1>0 DEF GitStep, Start, Pull, Push, Status, Add, Commit, CommandFails, JobInv
<1>2. CASE Start(j)
  BY <1>1, <1>2 DEF Start, Steps, CommandsOf
<1>3. CASE Status(j)
  <2>1. queue[1].step = "status" /\ (Goto(1, "add") \/ End(1))
    BY <1>1, <1>3 DEF Status
  <2>2. "add" \in Steps /\ CommandsOf("add") < CommandsOf("status")
    BY DEF Steps, CommandsOf
  <2> QED
    BY <1>1, <2>1, <2>2, Zenon
<1>4. CASE Add(j)
  BY <1>1, <1>4 DEF Add, Steps, CommandsOf
<1>5. CASE Commit(j)
  BY <1>1, <1>5 DEF Commit, Steps, CommandsOf
<1>6. ASSUME NEW ok \in BOOLEAN, Pull(j, ok) \/ Push(j, ok) PROVE End(1)
  BY <1>1, <1>6 DEF Pull, Push
<1>7. CASE CommandFails(j)
  BY <1>1, <1>7 DEF CommandFails
<1> QED
  BY <1>1, <1>2, <1>3, <1>4, <1>5, <1>6, <1>7 DEF GitStep

\* So the tick's job comes nearer.
LEMMA GitPulls ==
    ASSUME Inv, PullInv, Git
    PROVE  /\ PullInv'
           /\ \A p \in Pulls, q \in Pulls' : CommandsUpTo(q)' < CommandsUpTo(p)
<1>0. /\ queue \in Seq(Job) /\ Len(queue) \in Nat /\ JobInv /\ tick' = tick
      /\ \A k \in 1..Len(queue) : queue[k].step \in Steps
  <2>1. \A k \in 1..Len(queue) : queue[k] \in Job
    BY ElementOfSeq DEF Inv, Types, MemoryTypeOK
  <2> QED
    BY <2>1 DEF Inv, Types, MemoryTypeOK, Git, Job
<1>1. PICK j \in 1..Len(queue) : GitStep(j)
  BY DEF Git
<1>2. 1 \in 1..Len(queue)
  BY <1>1, GitForward
<1>3. ASSUME NEW step \in Steps, Goto(1, step), CommandsOf(step) < CommandsOf(queue[1].step)
      PROVE  /\ PullInv'
             /\ \A p \in Pulls, q \in Pulls' : CommandsUpTo(q)' < CommandsUpTo(p)
  <2>1. /\ Len(queue') = Len(queue) /\ queue'[1].step = step
        /\ \A k \in 1..Len(queue) : queue'[k].label = queue[k].label
    BY <1>0, <1>2, <1>3, Moved DEF Goto
  <2>2. Pulls' = Pulls
    BY <2>1 DEF Pulls
  <2>3. CommandsOf(step) \in Nat /\ CommandsOf(queue[1].step) \in Nat
    BY <1>0, <1>2, CommandsAre
  <2>4. ASSUME NEW p \in Pulls, NEW q \in Pulls PROVE CommandsUpTo(q)' < CommandsUpTo(p)
    <3>1. p = q /\ p \in Int
      BY <2>4 DEF PullInv, Pulls
    <3> QED
      BY <1>3, <2>1, <2>3, <3>1 DEF CommandsUpTo
  <2> QED
    BY <1>0, <2>2, <2>4 DEF PullInv
<1>4. ASSUME End(1)
      PROVE  /\ PullInv'
             /\ \A p \in Pulls, q \in Pulls' : CommandsUpTo(q)' < CommandsUpTo(p)
  <2>1. /\ Len(queue') = Len(queue) - 1
        /\ \A k \in 1..Len(queue') : queue'[k] = queue[k + 1]
    BY <1>0, <1>2, <1>4, Ended
  <2>2. \A q \in Pulls' : q + 1 \in Pulls /\ q \in Int /\ q >= 1
    BY <1>0, <2>1 DEF Pulls
  <2>3. PullInv'
    BY <1>0, <2>2 DEF PullInv
  <2>4. ASSUME NEW p \in Pulls, NEW q \in Pulls' PROVE CommandsUpTo(q)' < CommandsUpTo(p)
    <3>1. p = q + 1 /\ q \in Int /\ q + 1 \in 1..Len(queue) /\ q >= 1
      BY <2>2, <2>4 DEF PullInv, Pulls
    <3>2. queue'[1] = queue[2] /\ 2 \in 1..Len(queue)
      BY <1>0, <2>1, <3>1
    <3>3. queue'[1].step = "queued"
      BY <1>0, <3>2 DEF JobInv
    <3>4. CommandsOf(queue'[1].step) = 5 /\ CommandsOf(queue[1].step) \in 1..5
      BY <1>0, <1>2, <3>3, CommandsAre DEF CommandsOf
    <3> QED
      BY <3>1, <3>4 DEF CommandsUpTo
  <2> QED
    BY <2>3, <2>4
<1> QED
  BY <1>1, <1>3, <1>4, GitForward

\* Who joins the line stands behind it.
LEMMA OthersPull ==
    ASSUME Inv, PullInv, [Next]_vars, ~Git
    PROVE  /\ PullInv'
           /\ \A p \in Pulls, q \in Pulls' : CommandsUpTo(q)' = CommandsUpTo(p)
<1> DEFINE Goal == /\ PullInv'
                   /\ \A p \in Pulls, q \in Pulls' : CommandsUpTo(q)' = CommandsUpTo(p)
<1>0. queue \in Seq(Job) /\ Len(queue) \in Nat
  BY DEF Inv, Types, MemoryTypeOK
<1>1. ASSUME queue' = queue, Pulls = {} \/ tick' = tick PROVE Goal
  <2>1. Pulls' = Pulls
    BY <1>1 DEF Pulls
  <2> QED
    BY <1>1, <2>1 DEF PullInv, CommandsUpTo
<1>2. ASSUME Enqueue("after_run"), tick' = tick PROVE Goal
  <2>1. /\ Len(queue') = Len(queue) + 1 /\ queue'[Len(queue) + 1].label = "after_run"
        /\ \A k \in 1..Len(queue) : queue'[k] = queue[k]
    BY <1>0, <1>2, Enqueued
  <2>2. Pulls' = Pulls
    BY <1>0, <2>1 DEF Pulls
  <2>3. ASSUME NEW p \in Pulls PROVE queue'[1] = queue[1]
    BY <1>0, <2>1 DEF Pulls
  <2> QED
    BY <1>2, <2>2, <2>3 DEF PullInv, CommandsUpTo
<1>3. ASSUME Enqueue("before_dispatch"), Pulls = {}, tick' = "syncing" PROVE Goal
  <2>1. /\ Len(queue') = Len(queue) + 1
        /\ \A k \in 1..Len(queue) : queue'[k] = queue[k]
    BY <1>0, <1>3, Enqueued
  <2>2. Pulls' \subseteq {Len(queue) + 1}
    BY <1>0, <1>3, <2>1 DEF Pulls
  <2> QED
    BY <1>3, <2>2 DEF PullInv
<1>4. tick # "syncing" => Pulls = {}
  BY DEF PullInv
<1>5. ASSUME NEW i \in Issues, WorkerExit(i) PROVE Goal
  BY <1>1, <1>2, <1>5 DEF WorkerExit, SyncAfterRun
<1>6. CASE ReadCandidates
  BY <1>1, <1>3, <1>4, <1>6 DEF ReadCandidates, Listed
<1>7. CASE Synced
  <2>1. Pulls = {}
    BY <1>7 DEF Synced, Pending, Pulls
  <2> QED
    BY <1>1, <1>7, <2>1 DEF Synced, memory
<1>8. CASE StartupCleanup \/ TickBegins \/ Refreshed
  BY <1>1, <1>4, <1>8 DEF StartupCleanup, TickBegins, Refreshed, memory
<1> QED
  BY <1>1, <1>5, <1>6, <1>7, <1>8 DEF Next, TickStep, AgentWrites, IssueChanges, vars, memory

\* The tick's pull waits only for the jobs that stood in line before it: each command of git
\* brings it nearer, at most five of them for each job, and nothing else, least of all the
\* jobs of workers that end meanwhile, puts it off.
THEOREM PullsGoForward ==
    Spec => [][\A p \in Pulls, q \in Pulls' :
                   IF Git THEN CommandsUpTo(q)' < CommandsUpTo(p)
                          ELSE CommandsUpTo(q)' = CommandsUpTo(p)]_vars
<1> DEFINE Forward == \A p \in Pulls, q \in Pulls' :
                          IF Git THEN CommandsUpTo(q)' < CommandsUpTo(p)
                                 ELSE CommandsUpTo(q)' = CommandsUpTo(p)
<1>1. Init => PullInv
  BY EmptySeq DEF Init, MemoryInit, PullInv, Pulls
<1>2. Inv /\ PullInv /\ [Next]_vars => PullInv' /\ Forward
  BY GitPulls, OthersPull
<1> HIDE DEF Forward
<1>3. Spec => [][Forward]_vars
  BY <1>1, <1>2, Invariance, PTL DEF Spec
<1> QED
  BY <1>3 DEF Forward
=============================================================================
