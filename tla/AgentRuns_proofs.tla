--------------------------- MODULE AgentRuns_proofs ---------------------------
(****************************************************************************)
(* Theorems about AgentRuns, for any children, steps, deaths of workers and  *)
(* cancellations.                                                            *)
(****************************************************************************)
EXTENDS AgentRuns, TLAPS

(* The snapshot names a child, and a step of it that is not done.           *)
SnapshotKnows == /\ snapshot.awaiting \in Children
                 /\ step[snapshot.awaiting] \in Steps \ snapshot.done

(* A child has its step from the moment it exists.                          *)
StepsAssigned == \A c \in Children : step[c] \in Steps => status[c] # "none"

(* Only a run that exists has a job.                                        *)
Started == /\ status[Root] # "none"
           /\ \A j \in Jobs : job[j].at # "none" => status[RunOf(j)] # "none"

Ending == \A j \in Jobs : job[j].at = "final" => job[j].outcome # "none"

(* A job that is to suspend its run, or that found it suspended, knows the  *)
(* child and a step of it that is not done.                                 *)
JobKnows == \A j \in Jobs : job[j].at \in {"enqueue", "suspend", "fold"} =>
                /\ job[j].awaiting \in Children
                /\ step[job[j].awaiting] \in Steps \ job[j].done

(* Wherever the status of a suspended run can come from, the snapshot was   *)
(* written before.                                                          *)
Suspended == \/ SnapshotKnows
             \/ /\ \A r \in Runs : status[r] # "WAITING_ON_CHILDREN"
                /\ \A j \in Jobs : job[j].outcome # "WAITING_ON_CHILDREN"

Inv == TypeOK /\ StepsAssigned /\ Started /\ Ending /\ JobKnows /\ Suspended

(* Every job is of a run.                                                   *)
LEMMA RunOfType == \A j \in Jobs : RunOf(j) \in Runs
  BY DEF Jobs, RunOf, Runs

(* The invariant holds when trigger_execution has enqueued the root run.    *)
LEMMA InitInv == Init => Inv
  <1> SUFFICES ASSUME Init PROVE Inv
    OBVIOUS
  <1> USE DEF Init
  <1>1. Fresh("none") \in JobState /\ Fresh("queued") \in JobState
    BY DEF Fresh, JobState, At, Driving, RunStatus, Terminal
  <1>2. job \in [Jobs -> JobState]
    BY <1>1
  <1>3. TypeOK
    BY <1>2, CountBounds DEF TypeOK, RunStatus, Terminal
  <1>4. StepsAssigned
    BY RunsDiffer DEF StepsAssigned
  <1>5. \A j \in Jobs : /\ job[j].at = IF j = <<"run", Root>> THEN "queued" ELSE "none"
                        /\ job[j].outcome = "none"
    BY DEF Fresh
  <1>6. RunOf(<<"run", Root>>) = Root /\ status[Root] = "PENDING"
    BY DEF RunOf, Runs
  <1>7. Started /\ Ending /\ JobKnows
    BY <1>5, <1>6 DEF Started, Ending, JobKnows
  <1>8. Suspended
    BY <1>5 DEF Suspended
  <1> QED
    BY <1>3, <1>4, <1>7, <1>8 DEF Inv

(* Moving a job to another position leaves it a job.                         *)
LEMMA MovesType ==
  ASSUME NEW f \in [Jobs -> JobState], NEW j \in Jobs, NEW at \in At
  PROVE  [f EXCEPT ![j].at = at] \in [Jobs -> JobState]
  <1>1. [f[j] EXCEPT !.at = at] \in JobState
    BY DEF JobState
  <1> QED
    BY <1>1

(* Enqueuing one, too.                                                      *)
LEMMA EnqueuedType ==
  ASSUME TypeOK, NEW k
  PROVE  Enqueued(k) \in [Jobs -> JobState]
  <1>1. \A i \in Jobs : [job[i] EXCEPT !.at = "queued"] \in JobState
    BY DEF TypeOK, JobState, At
  <1> QED
    BY <1>1 DEF TypeOK, Enqueued

(* What a session writes is a status.                                       *)
LEMMA WriteType ==
  ASSUME TypeOK, NEW j \in Jobs, NEW s \in RunStatus
  PROVE  Write(j, s) \in [Runs -> RunStatus]
  BY RunOfType DEF Write, TypeOK

(* Enqueuing a job changes nothing else of it.                              *)
LEMMA EnqueuedFields ==
  ASSUME TypeOK, NEW k, NEW i \in Jobs
  PROVE  /\ Enqueued(k)[i].done = job[i].done
         /\ Enqueued(k)[i].awaiting = job[i].awaiting
         /\ Enqueued(k)[i].outcome = job[i].outcome
         /\ Enqueued(k)[i].at = IF i = k THEN "queued" ELSE job[i].at
  <1>1. job[i] \in JobState
    BY DEF TypeOK
  <1>2. CASE i = k
    BY <1>1, <1>2 DEF TypeOK, Enqueued, JobState
  <1>3. CASE i # k
    BY <1>3 DEF TypeOK, Enqueued
  <1> QED
    BY <1>2, <1>3

(* A step of a job keeps the types; FoldChildren needs JobKnows for it, as   *)
(* the step of the child is added to those done.                             *)
LEMMA WorkType ==
  ASSUME Inv, NEW j \in Jobs, Work(j) \/ WorkerDies(j)
  PROVE  TypeOK'
  <1> USE DEF Inv
  <1>1. job[j] \in JobState /\ status[RunOf(j)] \in RunStatus
    BY RunOfType DEF TypeOK
  <1>2. {"queued", "return", "over"} \cup Driving \subseteq At
    BY DEF At
  <1>3. {"RUNNING", "WAITING_ON_CHILDREN", "COMPLETED", "FAILED", "CANCELLED", "PENDING", "none"}
            \subseteq RunStatus
    BY DEF RunStatus, Terminal
  <1>4. CASE RunGuard(j)
    <2>1. [job[j] EXCEPT !.at = "mark", !.seen = status[RunOf(j)]] \in JobState
      BY <1>1 DEF JobState, At, Driving
    <2>2. [job[j] EXCEPT !.at = "return"] \in JobState
      BY <1>1 DEF JobState, At
    <2> QED
      BY <1>4, <2>1, <2>2 DEF RunGuard, TypeOK
  <1>5. CASE MarkRunning(j)
    <2>1. [job[j] EXCEPT !.at = "check", !.seen = "RUNNING"] \in JobState
      BY <1>1, <1>3 DEF JobState, At, Driving
    <2>2. job' = [job EXCEPT ![j] = [job[j] EXCEPT !.at = "check", !.seen = "RUNNING"]]
      BY <1>5 DEF MarkRunning, TypeOK
    <2> QED
      BY <1>3, <1>5, <2>1, <2>2, WriteType DEF MarkRunning, TypeOK
  <1>6. CASE CheckCancelled(j)
    <2>1. [job[j] EXCEPT !.at = "final", !.outcome = status[RunOf(j)]] \in JobState
      BY <1>1 DEF JobState, At, Driving
    <2>2. [job[j] EXCEPT !.at = "act"] \in JobState
      BY <1>1 DEF JobState, At, Driving
    <2> QED
      BY <1>6, <2>1, <2>2 DEF CheckCancelled, TypeOK
  <1>7. CASE \E s \in Steps, c \in Children : CreateChild(j, s, c)
    <2>1. PICK s \in Steps, c \in Children : CreateChild(j, s, c)
      BY <1>7
    <2>2. [job[j] EXCEPT !.at = "enqueue", !.awaiting = c] \in JobState
      BY <1>1 DEF JobState, At, Driving
    <2>3. job' = [job EXCEPT ![j] = [job[j] EXCEPT !.at = "enqueue", !.awaiting = c]]
      BY <2>1 DEF CreateChild, TypeOK
    <2> QED
      BY <1>3, <2>1, <2>2, <2>3 DEF CreateChild, TypeOK
  <1>8. CASE EnqueueChild(j)
    BY <1>2, <1>8, MovesType, EnqueuedType DEF EnqueueChild, TypeOK, Driving
  <1>9. CASE \E outcome \in {"COMPLETED", "FAILED"} : Finish(j, outcome)
    <2>1. PICK outcome \in {"COMPLETED", "FAILED"} : Finish(j, outcome)
      BY <1>9
    <2>2. [job[j] EXCEPT !.at = "final", !.outcome = outcome] \in JobState
      BY <1>1, <1>3 DEF JobState, At, Driving
    <2>3. job' = [job EXCEPT ![j] = [job[j] EXCEPT !.at = "final", !.outcome = outcome]]
      BY <2>1 DEF Finish, TypeOK
    <2> QED
      BY <2>1, <2>2, <2>3 DEF Finish, TypeOK
  <1>10. CASE PersistSuspended(j)
    <2>1. Snapshot(j) \in [done : SUBSET Steps, awaiting : Children \cup {Nobody}]
      BY <1>1 DEF Snapshot, JobState
    <2> QED
      BY <1>2, <1>3, <1>10, <2>1, MovesType, WriteType DEF PersistSuspended, AfterSuspend, TypeOK
  <1>11. CASE PersistFinal(j)
    <2>1. Write(j, job[j].outcome) \in [Runs -> RunStatus]
      BY <1>1, WriteType DEF JobState
    <2> QED
      BY <1>2, <1>11, <2>1, MovesType DEF PersistFinal, TypeOK, Driving
  <1>12. CASE SettleBilling(j)
    <2>1. settled' \in Nat
      BY <1>12 DEF SettleBilling, TypeOK
    <2>2. job' \in [Jobs -> JobState]
      BY <1>2, <1>12, MovesType DEF SettleBilling, TypeOK
    <2> QED
      BY <1>12, <2>1, <2>2 DEF SettleBilling, TypeOK
  <1>13. CASE MaybeResumeParent(j)
    BY <1>2, <1>13, MovesType, EnqueuedType DEF MaybeResumeParent, TypeOK
  <1>14. CASE Acknowledge(j)
    BY <1>2, <1>14, MovesType DEF Acknowledge, TypeOK
  <1>15. CASE ResumeGuard(j)
    <2>1. [job[j] EXCEPT !.at = "fold", !.seen = status[Root],
                         !.done = snapshot.done, !.awaiting = snapshot.awaiting] \in JobState
      BY <1>1 DEF JobState, At, Driving, TypeOK, Runs
    <2>2. [job[j] EXCEPT !.at = "return"] \in JobState
      BY <1>1 DEF JobState, At
    <2> QED
      BY <1>15, <2>1, <2>2 DEF ResumeGuard, TypeOK
  <1>16. CASE FoldChildren(j)
    <2> DEFINE c == job[j].awaiting
               outcome == IF status[c] \in FailedStatus THEN "FAILED" ELSE "none"
    <2>1. step[c] \in Steps
      BY <1>16 DEF FoldChildren, JobKnows
    <2>2. [job[j] EXCEPT !.at = "woken", !.done = job[j].done \cup {step[c]},
                         !.outcome = outcome] \in JobState
      BY <1>1, <1>3, <2>1 DEF JobState, At, Driving
    <2>3. [job[j] EXCEPT !.at = "suspend"] \in JobState
      BY <1>1 DEF JobState, At, Driving
    <2>4. job' = [job EXCEPT ![j] =
                    IF status[c] \notin Folded THEN [job[j] EXCEPT !.at = "suspend"]
                    ELSE [job[j] EXCEPT !.at = "woken", !.done = job[j].done \cup {step[c]},
                                        !.outcome = outcome]]
      BY <1>16 DEF FoldChildren, TypeOK
    <2> QED
      BY <1>16, <2>2, <2>3, <2>4 DEF FoldChildren, TypeOK
  <1>17. CASE WriteRunning(j)
    <2>1. [job[j] EXCEPT !.at = AfterWake(j), !.seen = "RUNNING", !.awaiting = Nobody] \in JobState
      BY <1>1, <1>3 DEF JobState, At, Driving, AfterWake
    <2> QED
      BY <1>3, <1>17, <2>1, WriteType DEF WriteRunning, TypeOK
  <1>18. CASE WorkerDies(j)
    <2>1. Fresh("queued") \in JobState
      BY <1>3 DEF Fresh, JobState, At
    <2>2. deaths' \in 0..MaxDeaths
      BY <1>18, CountBounds DEF WorkerDies, TypeOK
    <2> QED
      BY <1>18, <2>1, <2>2 DEF WorkerDies, TypeOK
  <1> QED
    BY <1>4, <1>5, <1>6, <1>7, <1>8, <1>9, <1>10, <1>11, <1>12, <1>13, <1>14,
       <1>15, <1>16, <1>17, <1>18 DEF Work

(* A step of a job keeps the invariant.                                     *)
LEMMA WorkInv ==
  ASSUME Inv, NEW j \in Jobs, Work(j) \/ WorkerDies(j)
  PROVE  Inv'
  <1> USE RunOfType, RunsDiffer DEF Inv, TypeOK
  <1>1. TypeOK'
    BY WorkType
  <1>2. CASE RunGuard(j)
    <2>1. StepsAssigned'
      BY <1>2 DEF RunGuard, MayDrive, Terminal, StepsAssigned
    <2>2. Started'
      BY <1>2 DEF RunGuard, MayDrive, Terminal, Started
    <2>3. Ending'
      BY <1>2 DEF RunGuard, MayDrive, Terminal, Ending
    <2>4. JobKnows'
      BY <1>2 DEF RunGuard, MayDrive, Terminal, JobKnows
    <2>5. Suspended'
      BY <1>2 DEF RunGuard, MayDrive, Terminal, Suspended, SnapshotKnows
    <2> QED
      BY <1>1, <2>1, <2>2, <2>3, <2>4, <2>5 DEF Inv
  <1>3. CASE MarkRunning(j)
    <2>1. StepsAssigned'
      BY <1>3 DEF MarkRunning, Write, StepsAssigned
    <2>2. Started'
      BY <1>3 DEF MarkRunning, Write, Started
    <2>3. Ending'
      BY <1>3 DEF MarkRunning, Write, Ending
    <2>4. JobKnows'
      BY <1>3 DEF MarkRunning, Write, JobKnows
    <2>5. Suspended'
      BY <1>3 DEF MarkRunning, Write, Suspended, SnapshotKnows
    <2> QED
      BY <1>1, <2>1, <2>2, <2>3, <2>4, <2>5 DEF Inv
  <1>4. CASE CheckCancelled(j)
    <2>1. StepsAssigned'
      BY <1>4 DEF CheckCancelled, StepsAssigned
    <2>2. Started'
      BY <1>4 DEF CheckCancelled, Started
    <2>3. Ending'
      BY <1>4 DEF CheckCancelled, Ending, Started
    <2>4. JobKnows'
      BY <1>4 DEF CheckCancelled, JobKnows
    <2>5. Suspended'
      BY <1>4 DEF CheckCancelled, Suspended, SnapshotKnows
    <2> QED
      BY <1>1, <2>1, <2>2, <2>3, <2>4, <2>5 DEF Inv
  <1>5. CASE \E s \in Steps, c \in Children : CreateChild(j, s, c)
    <2>1. PICK s \in Steps, c \in Children : CreateChild(j, s, c)
      BY <1>5
    <2>2. StepsAssigned'
      BY <2>1 DEF CreateChild, StepsAssigned, Runs
    <2>3. Started'
      BY <2>1 DEF CreateChild, Started
    <2>4. Ending'
      BY <2>1 DEF CreateChild, Ending
    <2>5. JobKnows'
      BY <2>1 DEF CreateChild, JobKnows, StepsAssigned, Runs
    <2>6. Suspended'
      BY <2>1 DEF CreateChild, Suspended, SnapshotKnows, StepsAssigned, Runs
    <2> QED
      BY <1>1, <2>2, <2>3, <2>4, <2>5, <2>6 DEF Inv
  <1>6. CASE EnqueueChild(j)
    <2>1. \A i \in Jobs :
            /\ job'[i].done = job[i].done /\ job'[i].awaiting = job[i].awaiting
            /\ job'[i].outcome = job[i].outcome
            /\ job'[i].at = IF i = j THEN "suspend"
                            ELSE IF i = <<"run", job[j].awaiting>> THEN "queued" ELSE job[i].at
      <3> DEFINE e == Enqueued(<<"run", job[j].awaiting>>)
      <3>1. e \in [Jobs -> JobState]
        BY EnqueuedType
      <3>2. job' = [e EXCEPT ![j].at = "suspend"]
        BY <1>6 DEF EnqueueChild
      <3>3. \A i \in Jobs : /\ e[i].done = job[i].done /\ e[i].awaiting = job[i].awaiting
                            /\ e[i].outcome = job[i].outcome
                            /\ e[i].at = IF i = <<"run", job[j].awaiting>> THEN "queued" ELSE job[i].at
        BY EnqueuedFields
      <3> HIDE DEF e
      <3> QED
        BY <3>1, <3>2, <3>3 DEF JobState
    <2>2. StepsAssigned'
      BY <1>6, <2>1 DEF EnqueueChild, StepsAssigned
    <2>3. Started'
      BY <1>6, <2>1 DEF EnqueueChild, Started, Jobs, RunOf, JobKnows, StepsAssigned
    <2>4. Ending'
      BY <1>6, <2>1 DEF EnqueueChild, Ending
    <2>5. JobKnows'
      BY <1>6, <2>1 DEF EnqueueChild, JobKnows
    <2>6. Suspended'
      BY <1>6, <2>1 DEF EnqueueChild, Suspended, SnapshotKnows
    <2> QED
      BY <1>1, <2>2, <2>3, <2>4, <2>5, <2>6 DEF Inv
  <1>7. CASE \E outcome \in {"COMPLETED", "FAILED"} : Finish(j, outcome)
    <2>1. PICK outcome \in {"COMPLETED", "FAILED"} : Finish(j, outcome)
      BY <1>7
    <2>2. StepsAssigned'
      BY <2>1 DEF Finish, StepsAssigned
    <2>3. Started'
      BY <2>1 DEF Finish, Started
    <2>4. Ending'
      BY <2>1 DEF Finish, Ending
    <2>5. JobKnows'
      BY <2>1 DEF Finish, JobKnows
    <2>6. Suspended'
      BY <2>1 DEF Finish, Suspended, SnapshotKnows
    <2> QED
      BY <1>1, <2>2, <2>3, <2>4, <2>5, <2>6 DEF Inv
  <1>8. CASE PersistSuspended(j)
    <2>1. StepsAssigned'
      BY <1>8 DEF PersistSuspended, AfterSuspend, Write, Snapshot, StepsAssigned
    <2>2. Started'
      BY <1>8 DEF PersistSuspended, AfterSuspend, Write, Snapshot, Started
    <2>3. Ending'
      BY <1>8 DEF PersistSuspended, AfterSuspend, Write, Snapshot, Ending
    <2>4. JobKnows'
      BY <1>8 DEF PersistSuspended, AfterSuspend, Write, Snapshot, JobKnows
    <2>5. Suspended'
      BY <1>8 DEF PersistSuspended, AfterSuspend, Write, Snapshot, Suspended, SnapshotKnows, JobKnows
    <2> QED
      BY <1>1, <2>1, <2>2, <2>3, <2>4, <2>5 DEF Inv
  <1>9. CASE PersistFinal(j)
    <2>1. StepsAssigned'
      BY <1>9 DEF PersistFinal, Write, StepsAssigned, Ending
    <2>2. Started'
      BY <1>9 DEF PersistFinal, Write, Started, Ending
    <2>3. Ending'
      BY <1>9 DEF PersistFinal, Write, Ending
    <2>4. JobKnows'
      BY <1>9 DEF PersistFinal, Write, JobKnows
    <2>5. Suspended'
      BY <1>9 DEF PersistFinal, Write, Suspended, SnapshotKnows
    <2> QED
      BY <1>1, <2>1, <2>2, <2>3, <2>4, <2>5 DEF Inv
  <1>10. CASE SettleBilling(j)
    <2>1. StepsAssigned'
      BY <1>10 DEF SettleBilling, StepsAssigned
    <2>2. Started'
      BY <1>10 DEF SettleBilling, Started
    <2>3. Ending'
      BY <1>10 DEF SettleBilling, Ending
    <2>4. JobKnows'
      BY <1>10 DEF SettleBilling, JobKnows
    <2>5. Suspended'
      BY <1>10 DEF SettleBilling, Suspended, SnapshotKnows
    <2> QED
      BY <1>1, <2>1, <2>2, <2>3, <2>4, <2>5 DEF Inv
  <1>11. CASE MaybeResumeParent(j)
    <2>1. \A i \in Jobs :
            /\ job'[i].done = job[i].done /\ job'[i].awaiting = job[i].awaiting
            /\ job'[i].outcome = job[i].outcome
            /\ job'[i].at = IF i = j THEN "return"
                            ELSE IF i = <<"resume", RunOf(j)>> THEN "queued" ELSE job[i].at
      <3> DEFINE e == Enqueued(<<"resume", RunOf(j)>>)
      <3>1. e \in [Jobs -> JobState]
        BY EnqueuedType
      <3>2. job' = [e EXCEPT ![j].at = "return"]
        BY <1>11 DEF MaybeResumeParent
      <3>3. \A i \in Jobs : /\ e[i].done = job[i].done /\ e[i].awaiting = job[i].awaiting
                            /\ e[i].outcome = job[i].outcome
                            /\ e[i].at = IF i = <<"resume", RunOf(j)>> THEN "queued" ELSE job[i].at
        BY EnqueuedFields
      <3> HIDE DEF e
      <3> QED
        BY <3>1, <3>2, <3>3 DEF JobState
    <2>2. StepsAssigned'
      BY <1>11, <2>1 DEF MaybeResumeParent, StepsAssigned
    <2>3. Started'
      BY <1>11, <2>1 DEF MaybeResumeParent, Started, Jobs, RunOf, JobKnows, StepsAssigned
    <2>4. Ending'
      BY <1>11, <2>1 DEF MaybeResumeParent, Ending
    <2>5. JobKnows'
      BY <1>11, <2>1 DEF MaybeResumeParent, JobKnows
    <2>6. Suspended'
      BY <1>11, <2>1 DEF MaybeResumeParent, Suspended, SnapshotKnows
    <2> QED
      BY <1>1, <2>2, <2>3, <2>4, <2>5, <2>6 DEF Inv
  <1>12. CASE Acknowledge(j)
    <2>1. StepsAssigned'
      BY <1>12 DEF Acknowledge, StepsAssigned
    <2>2. Started'
      BY <1>12 DEF Acknowledge, Started
    <2>3. Ending'
      BY <1>12 DEF Acknowledge, Ending
    <2>4. JobKnows'
      BY <1>12 DEF Acknowledge, JobKnows
    <2>5. Suspended'
      BY <1>12 DEF Acknowledge, Suspended, SnapshotKnows
    <2> QED
      BY <1>1, <2>1, <2>2, <2>3, <2>4, <2>5 DEF Inv
  <1>13. CASE ResumeGuard(j)
    <2>1. StepsAssigned'
      BY <1>13 DEF ResumeGuard, MayResume, StepsAssigned
    <2>2. Started'
      BY <1>13 DEF ResumeGuard, MayResume, Started
    <2>3. Ending'
      BY <1>13 DEF ResumeGuard, MayResume, Ending
    <2>4. JobKnows'
      BY <1>13 DEF ResumeGuard, MayResume, JobKnows, Suspended, SnapshotKnows, Runs
    <2>5. Suspended'
      BY <1>13 DEF ResumeGuard, MayResume, Suspended, SnapshotKnows
    <2> QED
      BY <1>1, <2>1, <2>2, <2>3, <2>4, <2>5 DEF Inv
  <1>14. CASE FoldChildren(j)
    <2>1. StepsAssigned'
      BY <1>14 DEF FoldChildren, FailedStatus, StepsAssigned
    <2>2. Started'
      BY <1>14 DEF FoldChildren, FailedStatus, Started
    <2>3. Ending'
      BY <1>14 DEF FoldChildren, FailedStatus, Ending
    <2>4. JobKnows'
      BY <1>14 DEF FoldChildren, FailedStatus, JobKnows
    <2>5. Suspended'
      BY <1>14 DEF FoldChildren, FailedStatus, Suspended, SnapshotKnows
    <2> QED
      BY <1>1, <2>1, <2>2, <2>3, <2>4, <2>5 DEF Inv
  <1>15. CASE WriteRunning(j)
    <2>1. StepsAssigned'
      BY <1>15 DEF WriteRunning, Write, AfterWake, StepsAssigned
    <2>2. Started'
      BY <1>15 DEF WriteRunning, Write, AfterWake, Started
    <2>3. Ending'
      BY <1>15 DEF WriteRunning, Write, AfterWake, Ending
    <2>4. JobKnows'
      BY <1>15 DEF WriteRunning, Write, AfterWake, JobKnows
    <2>5. Suspended'
      BY <1>15 DEF WriteRunning, Write, AfterWake, Suspended, SnapshotKnows
    <2> QED
      BY <1>1, <2>1, <2>2, <2>3, <2>4, <2>5 DEF Inv
  <1>16. CASE WorkerDies(j)
    <2>1. StepsAssigned'
      BY <1>16 DEF WorkerDies, Fresh, StepsAssigned
    <2>2. Started'
      BY <1>16 DEF WorkerDies, Fresh, Started, Driving
    <2>3. Ending'
      BY <1>16 DEF WorkerDies, Fresh, Ending
    <2>4. JobKnows'
      BY <1>16 DEF WorkerDies, Fresh, JobKnows
    <2>5. Suspended'
      BY <1>16 DEF WorkerDies, Fresh, Suspended, SnapshotKnows
    <2> QED
      BY <1>1, <2>1, <2>2, <2>3, <2>4, <2>5 DEF Inv
  <1> QED
    BY <1>2, <1>3, <1>4, <1>5, <1>6, <1>7, <1>8, <1>9, <1>10, <1>11, <1>12, <1>13, <1>14,
       <1>15, <1>16 DEF Work

(* So does every step.                                                      *)
LEMMA NextInv == Inv /\ [Next]_vars => Inv'
  <1> SUFFICES ASSUME Inv, [Next]_vars PROVE Inv'
    OBVIOUS
  <1>1. CASE \E j \in Jobs : Work(j) \/ WorkerDies(j)
    BY <1>1, WorkInv
  <1>2. CASE \E r \in Runs : CancelBegin(r)
    <2>1. PICK r \in Runs : CancelBegin(r)
      BY <1>2
    <2>2. TypeOK'
      BY <2>1, CountBounds DEF CancelBegin, Inv, TypeOK
    <2> QED
      BY <2>1, <2>2 DEF CancelBegin, Inv, StepsAssigned, Started, Ending, JobKnows, Suspended,
                        SnapshotKnows
  <1>3. CASE \E r \in Runs : CancelCommit(r)
    <2>1. PICK r \in Runs : CancelCommit(r)
      BY <1>3
    <2>2. TypeOK'
      BY <2>1 DEF CancelCommit, Inv, TypeOK, RunStatus, Terminal
    <2>3. \A q \in Runs : status'[q] = status[q] \/ status'[q] = "CANCELLED"
      BY <2>1 DEF CancelCommit, Inv, TypeOK
    <2>4. StepsAssigned' /\ Started'
      BY <2>1, <2>3, RunOfType DEF CancelCommit, Inv, StepsAssigned, Started, Runs
    <2>5. Ending' /\ JobKnows' /\ Suspended'
      BY <2>1, <2>3 DEF CancelCommit, Inv, Ending, JobKnows, Suspended, SnapshotKnows
    <2> QED
      BY <2>2, <2>4, <2>5 DEF Inv
  <1>4. CASE UNCHANGED vars
    BY <1>4 DEF vars, Inv, TypeOK, StepsAssigned, Started, Ending, JobKnows, Suspended,
                SnapshotKnows
  <1> QED
    BY <1>1, <1>2, <1>3, <1>4 DEF Next

(* The invariant holds throughout.                                          *)
LEMMA InvHolds == Spec => []Inv
  BY InitInv, NextInv, PTL DEF Spec

(* Every variable keeps its type (the rows of runs and jobs, the snapshot). *)
THEOREM AgentTypeCorrect == Spec => []TypeOK
  BY InvHolds, PTL DEF Inv

(* A run that says WAITING_ON_CHILDREN has a snapshot that names the child  *)
(* it waits for and a step of it that is not done (_persist_suspended), so   *)
(* AgentLoop.resume never finds nothing to fold; through cancellations and   *)
(* deaths of workers.                                                        *)
THEOREM WaitingKnows == Spec => []WaitingKnowsItsChild
  <1>1. Inv => WaitingKnowsItsChild
    BY DEF Inv, Suspended, SnapshotKnows, WaitingKnowsItsChild, Runs
  <1> QED
    BY <1>1, InvHolds, PTL

(* A job that drives no run leaves the status of every run alone, and one    *)
(* that drives a run writes no status but its own, except that of a child it *)
(* creates.                                                                  *)
LEMMA WorkWrites ==
  ASSUME Inv, NEW j \in Jobs, Work(j) \/ WorkerDies(j), NEW r \in Runs, status'[r] # status[r]
  PROVE  (RunOf(j) = r /\ job[j].at \in Driving) \/ status[r] = "none"
  <1>1. CASE MarkRunning(j) \/ PersistSuspended(j) \/ PersistFinal(j) \/ WriteRunning(j)
    <2>1. job[j].at \in Driving
      BY <1>1 DEF MarkRunning, PersistSuspended, PersistFinal, WriteRunning, Driving
    <2>2. RunOf(j) = r
      BY <1>1, RunOfType
         DEF MarkRunning, PersistSuspended, PersistFinal, WriteRunning, Write, Inv, TypeOK
    <2> QED
      BY <2>1, <2>2
  <1>2. CASE \E s \in Steps, c \in Children : CreateChild(j, s, c)
    BY <1>2 DEF CreateChild, Inv, TypeOK
  <1>3. CASE \/ RunGuard(j) \/ CheckCancelled(j) \/ EnqueueChild(j)
             \/ \E outcome \in {"COMPLETED", "FAILED"} : Finish(j, outcome)
             \/ SettleBilling(j) \/ MaybeResumeParent(j) \/ Acknowledge(j)
             \/ ResumeGuard(j) \/ FoldChildren(j) \/ WorkerDies(j)
    BY <1>3 DEF RunGuard, CheckCancelled, EnqueueChild, Finish, SettleBilling, MaybeResumeParent,
                Acknowledge, ResumeGuard, FoldChildren, WorkerDies
  <1> QED
    BY <1>1, <1>2, <1>3 DEF Work

(* A job begins to drive a run only if that run has not ended.              *)
LEMMA NewDriver ==
  ASSUME Inv, NEW j \in Jobs, Work(j) \/ WorkerDies(j), NEW i \in Jobs, job'[i].at \in Driving
  PROVE  job[i].at \in Driving \/ status[RunOf(i)] \notin Terminal
  <1> USE DEF Inv, TypeOK
  <1>1. CASE RunGuard(j)
    BY <1>1 DEF RunGuard, MayDrive, JobState, Driving
  <1>2. CASE ResumeGuard(j)
    <2>1. i = j => RunOf(i) = Root
      BY <1>2 DEF ResumeGuard, RunOf
    <2>2. MayResume => status[Root] \notin Terminal
      BY DEF MayResume, Terminal
    <2> QED
      BY <1>2, <2>1, <2>2 DEF ResumeGuard, JobState, Driving
  <1>3. CASE EnqueueChild(j)
    <2> DEFINE e == Enqueued(<<"run", job[j].awaiting>>)
    <2>1. e \in [Jobs -> JobState] /\ e[i].at \in {job[i].at, "queued"}
      BY EnqueuedType, EnqueuedFields
    <2>2. job' = [e EXCEPT ![j].at = "suspend"] /\ job[j].at \in Driving
      BY <1>3 DEF EnqueueChild, Driving
    <2> HIDE DEF e
    <2>3. i # j => job'[i] = e[i]
      BY <2>1, <2>2
    <2> QED
      BY <2>1, <2>2, <2>3 DEF Driving
  <1>4. CASE MaybeResumeParent(j)
    <2> DEFINE e == Enqueued(<<"resume", RunOf(j)>>)
    <2>1. e \in [Jobs -> JobState] /\ e[i].at \in {job[i].at, "queued"}
      BY EnqueuedType, EnqueuedFields
    <2>2. job' = [e EXCEPT ![j].at = "return"] /\ job[j].at \in Driving
      BY <1>4 DEF MaybeResumeParent, Driving
    <2> HIDE DEF e
    <2>3. i # j => job'[i] = e[i]
      BY <2>1, <2>2
    <2> QED
      BY <2>1, <2>2, <2>3 DEF Driving
  <1>5. CASE Acknowledge(j) \/ WorkerDies(j)
    BY <1>5 DEF Acknowledge, WorkerDies, Fresh, JobState, Driving
  <1>6. CASE \/ MarkRunning(j) \/ CheckCancelled(j)
             \/ \E s \in Steps, c \in Children : CreateChild(j, s, c)
             \/ \E outcome \in {"COMPLETED", "FAILED"} : Finish(j, outcome)
             \/ PersistSuspended(j) \/ PersistFinal(j) \/ SettleBilling(j)
             \/ FoldChildren(j) \/ WriteRunning(j)
    <2>1. job[j].at \in Driving
      BY <1>6 DEF MarkRunning, CheckCancelled, CreateChild, Finish, PersistSuspended, PersistFinal,
                  SettleBilling, FoldChildren, WriteRunning, Driving
    <2>2. i # j => job'[i] = job[i]
      BY <1>6 DEF MarkRunning, CheckCancelled, CreateChild, Finish, PersistSuspended, PersistFinal,
                  SettleBilling, FoldChildren, WriteRunning
    <2> QED
      BY <2>1, <2>2
  <1> QED
    BY <1>1, <1>2, <1>3, <1>4, <1>5, <1>6 DEF Work

(* A run that has ended and that no job drives is not driven again, and     *)
(* keeps its status: jobs that are dispatched twice, run again after a       *)
(* death, or come to resume it late leave it (the guards of                  *)
(* run_execution_recursive and AgentLoop.resume); only a cancellation that   *)
(* had read it as unfinished may relabel it.                                 *)
THEOREM FinishedRunStays == Spec => FinishedStays
  <1>1. Inv /\ [Next]_vars => [KeepsFinished]_vars
    <2> SUFFICES ASSUME Inv, Next,
                        NEW r \in Runs, status[r] \in Terminal, Drivers(r) = {}
                 PROVE  /\ \/ status'[r] = status[r]
                           \/ r \in cancelling /\ status'[r] = "CANCELLED"
                        /\ Drivers(r)' = {}
      BY DEF KeepsFinished
    <2>1. CASE \E j \in Jobs : Work(j) \/ WorkerDies(j)
      <3>1. PICK j \in Jobs : Work(j) \/ WorkerDies(j)
        BY <2>1
      <3>2. \A i \in Jobs : ~(RunOf(i) = r /\ job[i].at \in Driving)
        BY DEF Drivers
      <3>3. status'[r] = status[r]
        BY <3>1, <3>2, WorkWrites DEF Terminal
      <3>4. \A i \in Jobs : ~(RunOf(i) = r /\ job'[i].at \in Driving)
        BY <3>1, <3>2, NewDriver
      <3> QED
        BY <3>3, <3>4 DEF Drivers
    <2>2. CASE \E q \in Runs : CancelBegin(q) \/ CancelCommit(q)
      BY <2>2 DEF CancelBegin, CancelCommit, Inv, TypeOK, Drivers
    <2> QED
      BY <2>1, <2>2 DEF Next
  <1> QED
    BY <1>1, InvHolds, PTL DEF Spec, FinishedStays
=============================================================================
