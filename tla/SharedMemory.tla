---------------------------- MODULE SharedMemory ----------------------------
(***************************************************************************)
(* SharedMemoryCoordinator: a chain of promises, one for each job, and the *)
(* git repository they work on, where agents leave their notes.            *)
(***************************************************************************)
EXTENDS Integers, Sequences, FiniteSets

CONSTANTS MaxJobs  \* BOUND: jobs in the chain

ASSUME JobsAssumption == MaxJobs \in Nat \ {0}

VARIABLES
    enabled, \* shared_memory.enabled; sync_before_dispatch and sync_after_run are set
    queue,   \* jobs that have not ended, each with the git command it is at
    notes,   \* the repository has changes that are not staged
    staged,  \* it has staged changes
    ahead,   \* it has commits that are not pushed
    broken,  \* a rebase that stopped at a conflict is under way
    failed   \* a job that commits has failed, and none has pushed since

repository == <<notes, staged, ahead, broken>>
memory == <<enabled, queue, repository, failed>>

Steps == {"queued", "pull", "status", "add", "commit", "push"}
Job   == [label: {"before_dispatch", "after_run"}, step: Steps]

MemoryTypeOK ==
    /\ enabled \in BOOLEAN
    /\ queue \in Seq(Job)
    /\ notes \in BOOLEAN /\ staged \in BOOLEAN /\ ahead \in BOOLEAN
    /\ broken \in BOOLEAN /\ failed \in BOOLEAN

MemoryInit ==
    /\ enabled \in BOOLEAN
    /\ queue = << >> /\ failed = FALSE
    /\ notes = FALSE /\ staged = FALSE /\ ahead = FALSE /\ broken = FALSE

\* The promises of the chain that have not settled.
Pending(label) == \E j \in 1..Len(queue) : queue[j].label = label

\* enqueue: the job waits for the one before it.
Enqueue(label) ==
    /\ Len(queue) < MaxJobs
    /\ queue' = Append(queue, [label |-> label, step |-> "queued"])

\* syncAfterRun.
SyncAfterRun == IF enabled THEN Enqueue("after_run") ELSE UNCHANGED queue

\* The step job j goes to, and its end: whatever fails in it is caught.
Goto(j, step) == queue' = [queue EXCEPT ![j].step = step] /\ UNCHANGED failed
End(j)        == queue' = SubSeq(queue, 1, j - 1) \o SubSeq(queue, j + 1, Len(queue))

-----------------------------------------------------------------------------
\* MUTANT: a job does not wait for the one before it.
Start_AtOnce(j) ==
    /\ queue[j].step = "queued"
    /\ IF queue[j].label = "before_dispatch" THEN Goto(j, "pull") ELSE Goto(j, "status")
    /\ UNCHANGED <<enabled, repository>>

\* The job before has ended, or there is none: the first command is spawned.  (A path
\* that does not exist, where the job ends at once, is left out.)
Start(j) ==
    /\ j = 1 /\ queue[j].step = "queued"
    /\ IF queue[j].label = "before_dispatch" THEN Goto(j, "pull") ELSE Goto(j, "status")
    /\ UNCHANGED <<enabled, repository>>

\* MUTANT: a pull that failed is tried again.
Pull_Retries(j, ok) ==
    /\ queue[j].step = "pull"
    /\ IF ok THEN End(j) /\ UNCHANGED failed ELSE Goto(j, "queued")
    /\ UNCHANGED <<enabled, repository>>

\* git pull --rebase: what is not pushed is rebased and may meet a conflict, which
\* nobody resolves.
Pull(j, ok) ==
    /\ queue[j].step = "pull"
    /\ ok => ~broken
    /\ broken' \in {broken, broken \/ (~ok /\ ahead)}
    /\ End(j)
    /\ UNCHANGED <<enabled, notes, staged, ahead, failed>>

\* git status: a clean repository ends the job, with commits left to push or not.
Status(j) ==
    /\ queue[j].step = "status"
    /\ IF notes \/ staged THEN Goto(j, "add") ELSE End(j) /\ UNCHANGED failed
    /\ UNCHANGED <<enabled, repository>>

\* MUTANT: git add leaves out the files that are new.
Add_TrackedOnly(j) ==
    /\ queue[j].step = "add"
    /\ notes' \in {notes, FALSE} /\ staged' = TRUE
    /\ Goto(j, "commit")
    /\ UNCHANGED <<enabled, ahead, broken>>

\* git add -A.
Add(j) ==
    /\ queue[j].step = "add"
    /\ notes' = FALSE /\ staged' = TRUE
    /\ Goto(j, "commit")
    /\ UNCHANGED <<enabled, ahead, broken>>

\* MUTANT: the job ends with the commit.
Commit_NoPush(j) ==
    /\ queue[j].step = "commit"
    /\ staged' = FALSE /\ ahead' = TRUE
    /\ End(j)
    /\ UNCHANGED <<enabled, notes, broken, failed>>

Commit(j) ==
    /\ queue[j].step = "commit"
    /\ staged' = FALSE /\ ahead' = TRUE
    /\ Goto(j, "push")
    /\ UNCHANGED <<enabled, notes, broken>>

\* git push, refused if the remote has moved on or a rebase is under way.
Push(j, ok) ==
    /\ queue[j].step = "push"
    /\ ok => ~broken
    /\ ahead' = (ahead /\ ~ok) /\ failed' = ~ok
    /\ End(j)
    /\ UNCHANGED <<enabled, notes, staged, broken>>

\* git status, add or commit fails.
CommandFails(j) ==
    /\ queue[j].step \in {"status", "add", "commit"}
    /\ End(j) /\ failed' = TRUE
    /\ UNCHANGED <<enabled, repository>>

GitStep(j) ==
    \/ Start(j)
    \/ \E ok \in BOOLEAN : Pull(j, ok) \/ Push(j, ok)
    \/ Status(j)
    \/ Add(j)
    \/ Commit(j)
    \/ CommandFails(j)

-----------------------------------------------------------------------------
(* Properties *)

\* Two git commands never work on the repository at once, whoever asked for them: the
\* tick and the workers that end do not wait for one another.
OneGitAtATime == Cardinality({j \in 1..Len(queue) : queue[j].step # "queued"}) <= 1

\* A commit that nobody is about to push is there only because a job that commits failed and
\* none has pushed since: a job that finds the repository clean leaves it there, and the next
\* that pushes makes up for all that failed before it.
UnpushedHasCause ==
    ahead => failed \/ \E j \in 1..Len(queue) : queue[j].step = "push"
=============================================================================
