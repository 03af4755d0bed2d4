------------------------------ MODULE AgentRuns ------------------------------
(****************************************************************************)
(* An agent run that delegates steps of its plan to child runs: the job that *)
(* drives it suspends it and returns, and the end of the child enqueues a    *)
(* job that resumes it (ai/core/agent_loop.py, executors/child_entity.py,    *)
(* arq_jobs.py).  Operators cancel runs; workers die, and arq gives their    *)
(* jobs to others.                                                           *)
(*                                                                           *)
(* A job works in a database session of its own that never refreshes a row  *)
(* it has loaded (expire_on_commit=False): it writes a status only if that   *)
(* differs from the one its session has seen, whatever the row now holds.    *)
(****************************************************************************)
EXTENDS Naturals, FiniteSets

CONSTANTS Root,        \* the run that has a plan
          Children,    \* child runs it may create: they delegate nothing
          Steps,       \* the CHILD_ENTITY_INVOCATION steps of its plan
          Nobody,      \* no run
          MaxDeaths,   \* workers that die in the middle of a job
          MaxCancels   \* cancellations by an operator

ASSUME RunsDiffer == Root \notin Children /\ Nobody \notin Children \cup {Root} \cup Steps
ASSUME CountBounds == MaxDeaths \in Nat /\ MaxCancels \in Nat

VARIABLES status,     \* status[r] : ExecutionRun.status
          step,       \* step[c] : the step child c was created for
          snapshot,   \* the AgentState in the context_state of Root
          settled,    \* how many times Root has been billed
          job,        \* job[j] : where job j stands
          cancelling, \* runs whose canceller has read a status that is not final
          deaths, cancels

vars == <<status, step, snapshot, settled, job, cancelling, deaths, cancels>>

Runs == {Root} \cup Children

(* run_execution_recursive(r), and the resume_parent_run that c enqueues.   *)
Jobs == ({"run"} \X Runs) \cup ({"resume"} \X Children)
RunOf(j) == IF j[1] = "run" THEN j[2] ELSE Root

(* PARTIAL_COMPLETE and PAUSED are not reached: decide_next says DONE only  *)
(* of a plan that is complete, and PAUSE_HITL does not end the loop.        *)
Terminal  == {"COMPLETED", "FAILED", "CANCELLED"}
RunStatus == {"none", "PENDING", "RUNNING", "WAITING_ON_CHILDREN"} \cup Terminal

(* What a job that has passed its guard does next.                          *)
Driving == {"mark", "check", "act", "enqueue", "suspend", "fold", "woken",
            "final", "settle", "wake"}
At == {"none", "queued", "return", "over"} \cup Driving

JobState == [at : At,
             seen : RunStatus,     \* the status of the run in its session
             done : SUBSET Steps, awaiting : Children \cup {Nobody},  \* its AgentState
             outcome : RunStatus]  \* what _drive will make of the run

(* A job that has no session yet.                                           *)
Fresh(at) == [at |-> at, seen |-> "none", done |-> {}, awaiting |-> Nobody, outcome |-> "none"]

TypeOK == /\ status \in [Runs -> RunStatus]
          /\ step \in [Children -> Steps \cup {Nobody}]
          /\ snapshot \in [done : SUBSET Steps, awaiting : Children \cup {Nobody}]
          /\ settled \in Nat
          /\ job \in [Jobs -> JobState]
          /\ cancelling \subseteq Runs
          /\ deaths \in 0..MaxDeaths /\ cancels \in 0..MaxCancels

(* trigger_execution has created Root and enqueued its job.                 *)
Init == /\ status = [r \in Runs |-> IF r = Root THEN "PENDING" ELSE "none"]
        /\ step = [c \in Children |-> Nobody]
        /\ snapshot = [done |-> {}, awaiting |-> Nobody]
        /\ settled = 0
        /\ job = [j \in Jobs |-> Fresh(IF j = <<"run", Root>> THEN "queued" ELSE "none")]
        /\ cancelling = {} /\ deaths = 0 /\ cancels = 0

Drivers(r) == {j \in Jobs : RunOf(j) = r /\ job[j].at \in Driving}

(* Root is suspended on child c.                                            *)
WaitsFor(c) == status[Root] = "WAITING_ON_CHILDREN" /\ snapshot.awaiting = c

(* Redis takes a job that no worker holds yet.                              *)
Enqueued(j) == [job EXCEPT ![j].at = "queued"]

(* What job j leaves in the status of its run when it sets it to s.         *)
Write(j, s) == IF job[j].seen = s THEN status
                                  ELSE [status EXCEPT ![RunOf(j)] = s]

-----------------------------------------------------------------------------
(* run_execution_recursive                                                  *)

(* Mutant: a finished run is driven again.                                  *)
MayDrive_Always(r) == TRUE

(* Mutant: only a run that has never been started is driven.                *)
MayDrive_OnlyPending(r) == status[r] = "PENDING"

MayDrive(r) == status[r] \notin Terminal

RunGuard(j) ==
    /\ j[1] = "run" /\ job[j].at = "queued"
    /\ job' = [job EXCEPT ![j] = IF MayDrive(RunOf(j))
                                 THEN [@ EXCEPT !.at = "mark", !.seen = status[RunOf(j)]]
                                 ELSE [@ EXCEPT !.at = "return"]]
    /\ UNCHANGED <<status, step, snapshot, settled, cancelling, deaths, cancels>>

(* AgentLoop.run begins with a fresh AgentState.                            *)
MarkRunning(j) ==
    /\ job[j].at = "mark"
    /\ status' = Write(j, "RUNNING")
    /\ job' = [job EXCEPT ![j].at = "check", ![j].seen = "RUNNING"]
    /\ UNCHANGED <<step, snapshot, settled, cancelling, deaths, cancels>>

-----------------------------------------------------------------------------
(* The loop                                                                 *)

(* The top of an iteration reads the column itself, not the session's row.  *)
CheckCancelled(j) ==
    /\ job[j].at = "check"
    /\ job' = [job EXCEPT ![j] = IF status[RunOf(j)] = "RUNNING"
                                 THEN [@ EXCEPT !.at = "act"]
                                 ELSE [@ EXCEPT !.at = "final", !.outcome = status[RunOf(j)]]]
    /\ UNCHANGED <<status, step, snapshot, settled, cancelling, deaths, cancels>>

(* One ready step is delegated: the row of the child, then its job.         *)
CreateChild(j, s, c) ==
    /\ job[j].at = "act" /\ RunOf(j) = Root
    /\ s \in Steps \ job[j].done
    /\ status[c] = "none"
    /\ status' = [status EXCEPT ![c] = "PENDING"]
    /\ step' = [step EXCEPT ![c] = s]
    /\ job' = [job EXCEPT ![j].at = "enqueue", ![j].awaiting = c]
    /\ UNCHANGED <<snapshot, settled, cancelling, deaths, cancels>>

EnqueueChild(j) ==
    /\ job[j].at = "enqueue"
    /\ job' = [Enqueued(<<"run", job[j].awaiting>>) EXCEPT ![j].at = "suspend"]
    /\ UNCHANGED <<status, step, snapshot, settled, cancelling, deaths, cancels>>

(* The loop ends: with the plan done, or aborted for its budget, its critics*)
(* or an exception.                                                         *)
Finish(j, outcome) ==
    /\ job[j].at = "act"
    /\ outcome = "COMPLETED" /\ RunOf(j) = Root => job[j].done = Steps
    /\ job' = [job EXCEPT ![j].at = "final", ![j].outcome = outcome]
    /\ UNCHANGED <<status, step, snapshot, settled, cancelling, deaths, cancels>>

-----------------------------------------------------------------------------
(* The end of a drive                                                       *)

(* Mutant: a suspended run is billed for what it has spent so far.          *)
AfterSuspend_Settles(j) == "settle"

AfterSuspend(j) == "return"

(* Mutant: what the run waits for is not kept.                              *)
Snapshot_NoChildren(j) == [done |-> job[j].done, awaiting |-> Nobody]

Snapshot(j) == [done |-> job[j].done, awaiting |-> job[j].awaiting]

PersistSuspended(j) ==
    /\ job[j].at = "suspend"
    /\ status' = Write(j, "WAITING_ON_CHILDREN")
    /\ snapshot' = Snapshot(j)
    /\ job' = [job EXCEPT ![j].at = AfterSuspend(j)]
    /\ UNCHANGED <<step, settled, cancelling, deaths, cancels>>

PersistFinal(j) ==
    /\ job[j].at = "final"
    /\ status' = Write(j, job[j].outcome)
    /\ job' = [job EXCEPT ![j].at = IF RunOf(j) = Root THEN "settle" ELSE "wake"]
    /\ UNCHANGED <<step, snapshot, settled, cancelling, deaths, cancels>>

(* Only a top-level run is billed; nothing remembers that it was.           *)
SettleBilling(j) ==
    /\ job[j].at = "settle"
    /\ settled' = settled + 1
    /\ job' = [job EXCEPT ![j].at = "return"]
    /\ UNCHANGED <<status, step, snapshot, cancelling, deaths, cancels>>

MaybeResumeParent(j) ==
    /\ job[j].at = "wake"
    /\ job' = [Enqueued(<<"resume", RunOf(j)>>) EXCEPT ![j].at = "return"]
    /\ UNCHANGED <<status, step, snapshot, settled, cancelling, deaths, cancels>>

(* The job returns and arq forgets it.                                      *)
Acknowledge(j) ==
    /\ job[j].at = "return"
    /\ job' = [job EXCEPT ![j].at = "over"]
    /\ UNCHANGED <<status, step, snapshot, settled, cancelling, deaths, cancels>>

-----------------------------------------------------------------------------
(* resume_parent_run                                                        *)

(* Mutant: a run is resumed whatever it is doing.                           *)
MayResume_Always == TRUE

MayResume == status[Root] = "WAITING_ON_CHILDREN"

ResumeGuard(j) ==
    /\ j[1] = "resume" /\ job[j].at = "queued"
    /\ job' = [job EXCEPT ![j] =
                 IF MayResume
                 THEN [@ EXCEPT !.at = "fold", !.seen = status[Root],
                                !.done = snapshot.done, !.awaiting = snapshot.awaiting]
                 ELSE [@ EXCEPT !.at = "return"]]
    /\ UNCHANGED <<status, step, snapshot, settled, cancelling, deaths, cancels>>

(* Mutant: a child that failed does not fail its parent.                    *)
FailedStatus_OnlyCancelled == {"CANCELLED"}

FailedStatus == {"FAILED", "CANCELLED"}

(* Mutant: a child is over only if it did its work.                         *)
Folded_OnlyCompleted == {"COMPLETED"}

Folded == Terminal

(* The awaited child, if it is terminal, completes its step; if it is not,  *)
(* the run is suspended again.                                              *)
FoldChildren(j) ==
    /\ job[j].at = "fold"
    /\ LET c == job[j].awaiting
       IN  job' = [job EXCEPT ![j] =
                     IF status[c] \notin Folded THEN [@ EXCEPT !.at = "suspend"]
                     ELSE [@ EXCEPT !.at = "woken", !.done = job[j].done \cup {step[c]},
                             !.outcome = IF status[c] \in FailedStatus THEN "FAILED" ELSE "none"]]
    /\ UNCHANGED <<status, step, snapshot, settled, cancelling, deaths, cancels>>

(* Mutant: a resume that a failed child aborts leaves the run as it is.     *)
AfterWake_Returns(j) == IF job[j].outcome = "FAILED" THEN "return" ELSE "check"

(* A failed child ends the loop before its first iteration.                 *)
AfterWake(j) == IF job[j].outcome = "FAILED" THEN "final" ELSE "check"

WriteRunning(j) ==
    /\ job[j].at = "woken"
    /\ status' = Write(j, "RUNNING")
    /\ job' = [job EXCEPT ![j] = [@ EXCEPT !.at = AfterWake(j), !.seen = "RUNNING",
                                           !.awaiting = Nobody]]
    /\ UNCHANGED <<step, snapshot, settled, cancelling, deaths, cancels>>

-----------------------------------------------------------------------------
(* Operators and workers                                                    *)

(* cancel_execution reads the status, and then writes.                      *)
CancelBegin(r) ==
    /\ cancels < MaxCancels /\ cancels' = cancels + 1
    /\ status[r] \notin Terminal \cup {"none"}
    /\ cancelling' = cancelling \cup {r}
    /\ UNCHANGED <<status, step, snapshot, settled, job, deaths>>

CancelCommit(r) ==
    /\ r \in cancelling
    /\ status' = [status EXCEPT ![r] = "CANCELLED"]
    /\ cancelling' = cancelling \ {r}
    /\ UNCHANGED <<step, snapshot, settled, job, deaths, cancels>>

(* arq runs the job of a dead worker again, from its beginning.             *)
WorkerDies(j) ==
    /\ deaths < MaxDeaths /\ deaths' = deaths + 1
    /\ job[j].at \in Driving \cup {"return"}
    /\ job' = [job EXCEPT ![j] = Fresh("queued")]
    /\ UNCHANGED <<status, step, snapshot, settled, cancelling, cancels>>

-----------------------------------------------------------------------------
Work(j) == \/ RunGuard(j) \/ MarkRunning(j) \/ CheckCancelled(j)
           \/ \E s \in Steps, c \in Children : CreateChild(j, s, c)
           \/ EnqueueChild(j)
           \/ \E outcome \in {"COMPLETED", "FAILED"} : Finish(j, outcome)
           \/ PersistSuspended(j) \/ PersistFinal(j)
           \/ SettleBilling(j) \/ MaybeResumeParent(j) \/ Acknowledge(j)
           \/ ResumeGuard(j) \/ FoldChildren(j) \/ WriteRunning(j)

Next == \/ \E j \in Jobs : Work(j) \/ WorkerDies(j)
        \/ \E r \in Runs : CancelBegin(r) \/ CancelCommit(r)

Spec == Init /\ [][Next]_vars

(* No job waits for another while it occupies a worker, so each gets one.   *)
FairSpec == Spec /\ \A j \in Jobs : WF_vars(Work(j))
-----------------------------------------------------------------------------
(* Safety                                                                   *)

(* A run is driven by at most one job, though its own job and those of its  *)
(* children's ends are all queued to any worker; until a worker dies.       *)
OneDriver == deaths = 0 => \A r \in Runs : Cardinality(Drivers(r)) <= 1

(* A run that says RUNNING is being driven, so an operator who sees it need *)
(* not wait in vain; until a worker dies.                                   *)
RunningHasDriver == deaths = 0 => \A r \in Runs : status[r] = "RUNNING" => Drivers(r) # {}

(* A suspended run knows the child it waits for, whose step it has not done:*)
(* whichever job resumes it finds what to fold.                             *)
WaitingKnowsItsChild ==
    status[Root] = "WAITING_ON_CHILDREN" => /\ snapshot.awaiting \in Children
                                            /\ step[snapshot.awaiting] \in Steps \ snapshot.done

(* A run completes only on the work of children that completed, however     *)
(* often it was suspended, resumed or driven again after a death (a stale   *)
(* cancellation may relabel a child afterwards).                            *)
CompletedOnCompletedChildren ==
    cancels = 0 /\ status[Root] = "COMPLETED" =>
        \A s \in Steps : \E c \in Children : step[c] = s /\ status[c] = "COMPLETED"

(* The company is billed for a run once, and not before it has ended; until *)
(* a worker dies.                                                           *)
BilledOnceAtTheEnd ==
    deaths = 0 => settled <= 1 /\ (settled = 1 => status[Root] \in Terminal)

KeepsFinished ==
    \A r \in Runs : status[r] \in Terminal /\ Drivers(r) = {} =>
        /\ status'[r] = status[r] \/ (r \in cancelling /\ status'[r] = "CANCELLED")
        /\ Drivers(r)' = {}

(* A run that has ended and that no job drives is not driven again, and     *)
(* keeps its status, through repeated dispatch and late resumes; only a      *)
(* cancellation that had read it as unfinished may still relabel it.         *)
FinishedStays == [][KeepsFinished]_vars
-----------------------------------------------------------------------------
(* Liveness                                                                 *)

(* A child that was given a job ends, also when its worker dies.            *)
ChildEnds == \A c \in Children : job[<<"run", c>>].at = "queued" ~> status[c] \in Terminal

(* A parent that is found waiting by the job of the child it waits for goes *)
(* on, also when the worker of that job dies.                               *)
WokenParentGoesOn ==
    \A c \in Children :
        (job[<<"resume", c>>].at = "queued" /\ WaitsFor(c))
            ~> status[Root] # "WAITING_ON_CHILDREN"
=============================================================================
