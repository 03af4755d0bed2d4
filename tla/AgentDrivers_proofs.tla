------------------------- MODULE AgentDrivers_proofs -------------------------
(****************************************************************************)
(* Who drives a run of AgentRuns, and what its end rests on: theorems for   *)
(* any children and steps, as long as no worker dies (one driver, one bill),*)
(* and as long as no operator cancels (the work of the children).           *)
(****************************************************************************)
EXTENDS AgentRuns_proofs, FiniteSetTheorems

Drives(j) == job[j].at \in Driving

RunJob(r)    == <<"run", r>>
ResumeJob(c) == <<"resume", c>>

----------------------------------------------------------------------------
(* While no worker dies. *)

(* A child that has been created and has not yet come to resume Root.       *)
Outstanding(c) == status[c] # "none" /\ job[ResumeJob(c)].at \in {"none", "queued"}

(* One job at most drives Root.                                             *)
Single == \A i, j \in Jobs : RunOf(i) = Root /\ RunOf(j) = Root /\ Drives(i) /\ Drives(j) => i = j

(* Root has delegated one step at most, and does nothing meanwhile.         *)
OneOutstanding ==
    \A c \in Children : Outstanding(c) =>
        /\ \A d \in Children : Outstanding(d) => d = c
        /\ \A j \in Jobs : RunOf(j) = Root /\ Drives(j) =>
              /\ job[j].at \in {"enqueue", "suspend"} /\ job[j].awaiting = c
              /\ status[Root] # "WAITING_ON_CHILDREN"

(* The jobs of a child come one after the other, and once.                  *)
InOrder ==
    /\ job[RunJob(Root)].at # "none"
    /\ \A c \in Children : job[ResumeJob(c)].at # "none" => job[RunJob(c)].at \in {"return", "over"}
    /\ \A j \in Jobs : job[j].at = "enqueue" =>
          /\ RunOf(j) = Root /\ job[j].awaiting \in Children
          /\ job[RunJob(job[j].awaiting)].at = "none"
    /\ \A r \in Runs : job[RunJob(r)].at \in {"none", "queued"} =>
          status[r] \in {"none", "PENDING", "CANCELLED"}
    /\ job[RunJob(Root)].at = "queued" =>
          /\ \A j \in Jobs : RunOf(j) = Root => ~Drives(j)
          /\ \A c \in Children : status[c] = "none"
          /\ settled = 0

(* What a driver has made of the status of its run, or a cancellation.      *)
Fits(at, seen, outcome, st) ==
    /\ at = "mark" => seen = "PENDING" /\ st \in {"PENDING", "CANCELLED"}
    /\ at \in {"check", "act", "enqueue"} => seen = "RUNNING" /\ st \in {"RUNNING", "CANCELLED"}
    /\ at = "suspend" => \/ seen = "RUNNING" /\ st \in {"RUNNING", "CANCELLED"}
                         \/ /\ seen = "WAITING_ON_CHILDREN"
                            /\ st \in {"WAITING_ON_CHILDREN", "CANCELLED"}
    /\ at \in {"fold", "woken"} => /\ seen = "WAITING_ON_CHILDREN"
                                   /\ st \in {"WAITING_ON_CHILDREN", "CANCELLED"}
    /\ at = "final" => /\ seen = "RUNNING" /\ st \in {"RUNNING", "CANCELLED"}
                       /\ outcome \in Terminal
    /\ at \in {"settle", "wake"} => st \in Terminal

StatusFits ==
    \A j \in Jobs :
        /\ Fits(job[j].at, job[j].seen, job[j].outcome, status[RunOf(j)])
        /\ job[j].at \in {"enqueue", "suspend", "fold", "woken", "settle"} => RunOf(j) = Root
        /\ job[j].at = "wake" => RunOf(j) # Root

Billed ==
    /\ settled <= 1 /\ (settled = 1 => status[Root] \in Terminal)
    /\ \A j \in Jobs : RunOf(j) = Root /\ Drives(j) => settled = 0

Driven == \A r \in Runs : status[r] = "RUNNING" => \E j \in Jobs : RunOf(j) = r /\ Drives(j)

Cancellable == \A r \in cancelling : status[r] # "none"

Undying == Single /\ OneOutstanding /\ InOrder /\ StatusFits /\ Billed /\ Driven /\ Cancellable

UndyingInv == Inv /\ (deaths = 0 => Undying)

----------------------------------------------------------------------------
(* While no operator cancels. *)

(* A child that completed did step s.                                       *)
Did(s) == \E c \in Children : step[c] = s /\ status[c] = "COMPLETED"

(* The job of a child drives it only while it is not final, and knows its   *)
(* status.                                                                  *)
ChildKnown(c) ==
    /\ job[RunJob(c)].at \in {"mark", "check", "act", "final"} =>
          status[c] = job[RunJob(c)].seen /\ status[c] \notin Terminal
    /\ job[RunJob(c)].at \notin {"enqueue", "suspend", "fold", "woken"}

ChildDriven == \A c \in Children : ChildKnown(c)

(* What a job of Root takes for done, was done.                             *)
EarnedBy(j) ==
    /\ job[j].outcome = "COMPLETED" => \A s \in Steps : Did(s)
    /\ \/ job[j].at \in {"check", "act", "enqueue", "suspend", "fold"}
       \/ job[j].at = "woken" /\ job[j].outcome # "FAILED"
       \/ job[j].at \in {"queued", "mark"} /\ j = RunJob(Root)
       => \A s \in job[j].done : Did(s)
    /\ job[j].at = "mark" => j = RunJob(Root)
    /\ job[j].at # "wake"

Earned ==
    /\ status[Root] = "COMPLETED" => \A s \in Steps : Did(s)
    /\ \A s \in snapshot.done : Did(s)
    /\ \A j \in Jobs : RunOf(j) = Root => EarnedBy(j)

EarnedInv == Inv /\ (cancels = 0 => cancelling = {} /\ ChildDriven /\ Earned)

----------------------------------------------------------------------------
(* The jobs. *)

LEMMA JobsOf ==
  /\ \A r \in Runs : RunJob(r) \in Jobs /\ RunOf(RunJob(r)) = r
  /\ \A c \in Children : ResumeJob(c) \in Jobs /\ RunOf(ResumeJob(c)) = Root
  /\ \A j \in Jobs : j[1] = "run" => j = RunJob(RunOf(j)) /\ RunOf(j) \in Runs
  /\ \A j \in Jobs : j[1] = "resume" => RunOf(j) = Root /\ \E c \in Children : j = ResumeJob(c)
  /\ \A j \in Jobs : j[1] \in {"run", "resume"} /\ (RunOf(j) \in Children => j = RunJob(RunOf(j)))
  /\ \A j \in Jobs : RunOf(j) \in Runs
  /\ \A r, q \in Runs : RunJob(r) = RunJob(q) => r = q
  /\ \A r \in Runs, c \in Children : RunJob(r) # ResumeJob(c)
  /\ \A c, d \in Children : ResumeJob(c) = ResumeJob(d) => c = d
  /\ Root \in Runs /\ Root \notin Children /\ \A c \in Children : c \in Runs
  BY RunsDiffer DEF Jobs, RunJob, ResumeJob, RunOf, Runs

(* At most one job drives a run.                                            *)
LEMMA OneDrives ==
  ASSUME Single, NEW i \in Jobs, NEW j \in Jobs, Drives(i), Drives(j), RunOf(i) = RunOf(j)
  PROVE  i = j
  BY JobsOf DEF Single, Runs

LEMMA DrivesAre ==
  \A j \in Jobs : Drives(j) <=> job[j].at \in {"mark", "check", "act", "enqueue", "suspend",
                                               "fold", "woken", "final", "settle", "wake"}
  BY DEF Drives, Driving

(* A step of a job that drives its run, in which no other job changes.      *)
LEMMA DriverStep ==
  ASSUME TypeOK, Undying, NEW j \in Jobs, Drives(j),
         job'[j].at \notin {"none", "queued", "enqueue"},
         \A i \in Jobs \ {j} : job'[i] = job[i],
         \A r \in Runs \ {RunOf(j)} : status'[r] = status[r],
         status'[RunOf(j)] # "none",
         Fits(job'[j].at, job'[j].seen, job'[j].outcome, status'[RunOf(j)]),
         job'[j].at \in {"suspend", "fold", "woken", "settle"} => RunOf(j) = Root,
         job'[j].at = "wake" => RunOf(j) # Root,
         RunOf(j) = Root /\ Drives(j)' => job[j].at \notin {"enqueue", "suspend"},
         Drives(j)' \/ status'[RunOf(j)] # "RUNNING",
         UNCHANGED <<settled, cancelling>>
  PROVE  Undying'
  <1> USE JobsOf, DrivesAre
  <1>1. \A i \in Jobs \ {j} : Drives(i)' = Drives(i)
    BY DEF Drives
  <1>2. Single'
    BY <1>1 DEF Undying, Single
  <1>3. status[RunOf(j)] # "none" /\ RunOf(j) \in Runs
    BY DEF Undying, StatusFits, Fits, Terminal
  <1>4. \A c \in Children : Outstanding(c)' => Outstanding(c)
    BY <1>3 DEF Outstanding, Undying, StatusFits, Fits
  <1>5. OneOutstanding'
    <2>1. ASSUME NEW c \in Children, Outstanding(c), NEW i \in Jobs, RunOf(i) = Root, Drives(i)'
          PROVE  /\ job'[i].at \in {"enqueue", "suspend"} /\ job'[i].awaiting = c
                 /\ status'[Root] # "WAITING_ON_CHILDREN"
      <3>1. CASE i = j
        BY <2>1, <3>1 DEF Undying, OneOutstanding
      <3>2. CASE i # j
        <4>1. RunOf(j) # Root
          BY <1>1, <2>1, <3>2, OneDrives DEF Undying
        <4> QED
          BY <1>1, <2>1, <3>2, <4>1 DEF Undying, OneOutstanding
      <3> QED
        BY <3>1, <3>2
    <2> QED
      BY <1>4, <2>1 DEF Undying, OneOutstanding
  <1>6. InOrder'
    <2>1. job[RunJob(Root)].at # "queued"
      BY <1>3 DEF Undying, InOrder, Runs
    <2>2. \A i \in Jobs : (job'[i].at \in {"none", "queued"}) => i # j
      OBVIOUS
    <2>3. \A c \in Children : job'[ResumeJob(c)].at # "none" => job'[RunJob(c)].at \in {"return", "over"}
      <3>1. ASSUME NEW c \in Children, job'[ResumeJob(c)].at # "none"
            PROVE  job'[RunJob(c)].at \in {"return", "over"}
        <4>1. job[ResumeJob(c)].at # "none"
          BY <3>1
        <4>2. job[RunJob(c)].at \in {"return", "over"}
          BY <4>1 DEF Undying, InOrder
        <4>3. RunJob(c) # j
          BY <4>2
        <4> QED
          BY <4>2, <4>3
      <3> QED
        BY <3>1
    <2>4. \A i \in Jobs : job'[i].at = "enqueue" =>
             /\ RunOf(i) = Root /\ job'[i].awaiting \in Children
             /\ job'[RunJob(job'[i].awaiting)].at = "none"
      <3>1. ASSUME NEW i \in Jobs, job'[i].at = "enqueue"
            PROVE  /\ RunOf(i) = Root /\ job'[i].awaiting \in Children
                   /\ job'[RunJob(job'[i].awaiting)].at = "none"
        <4>1. i # j /\ job'[i] = job[i]
          BY <3>1
        <4>2. /\ RunOf(i) = Root /\ job[i].awaiting \in Children
              /\ job[RunJob(job[i].awaiting)].at = "none"
          BY <3>1, <4>1 DEF Undying, InOrder
        <4>3. RunJob(job[i].awaiting) # j
          BY <4>2
        <4> QED
          BY <4>1, <4>2, <4>3
      <3> QED
        BY <3>1
    <2>5. \A r \in Runs : job'[RunJob(r)].at \in {"none", "queued"} =>
             status'[r] \in {"none", "PENDING", "CANCELLED"}
      <3>1. ASSUME NEW r \in Runs, job'[RunJob(r)].at \in {"none", "queued"}
            PROVE  status'[r] \in {"none", "PENDING", "CANCELLED"}
        <4>1. RunJob(r) # j /\ job[RunJob(r)].at \in {"none", "queued"}
          BY <3>1
        <4>2. r # RunOf(j)
          <5>1. r # Root
            BY <2>1, <4>1 DEF Undying, InOrder
          <5> QED
            BY <4>1, <5>1 DEF Runs
        <4> QED
          BY <4>1, <4>2 DEF Undying, InOrder
      <3> QED
        BY <3>1
    <2>6. job'[RunJob(Root)].at \notin {"none", "queued"}
      BY <2>1 DEF Undying, InOrder
    <2> QED
      BY <2>3, <2>4, <2>5, <2>6 DEF InOrder
  <1>7. StatusFits'
    <2>1. ASSUME NEW i \in Jobs \ {j}, Drives(i) PROVE status'[RunOf(i)] = status[RunOf(i)]
      BY <2>1, OneDrives DEF Undying
    <2>2. ASSUME NEW i \in Jobs \ {j}, ~Drives(i), NEW st
          PROVE  Fits(job[i].at, job[i].seen, job[i].outcome, st)
      BY <2>2 DEF Fits
    <2> QED
      BY <2>1, <2>2 DEF Undying, StatusFits
  <1>8. Billed'
    BY <1>1 DEF Undying, Billed, TypeOK
  <1>9. Driven'
    <2>1. ASSUME NEW r \in Runs, status'[r] = "RUNNING"
          PROVE  \E i \in Jobs : RunOf(i) = r /\ Drives(i)'
      <3>1. CASE r = RunOf(j)
        BY <2>1, <3>1
      <3>2. CASE r # RunOf(j)
        <4>1. PICK i \in Jobs : RunOf(i) = r /\ Drives(i)
          BY <2>1, <3>2 DEF Undying, Driven
        <4> QED
          BY <1>1, <3>2, <4>1
      <3> QED
        BY <3>1, <3>2
    <2> QED
      BY <2>1 DEF Driven
  <1>10. Cancellable'
    BY DEF Undying, Cancellable, TypeOK
  <1> QED
    BY <1>2, <1>5, <1>6, <1>7, <1>8, <1>9, <1>10 DEF Undying

----------------------------------------------------------------------------
(* The steps of a job, one by one, while no worker dies. *)

(* What a session writes changes the status of its own run alone.           *)
LEMMA Writes ==
  ASSUME TypeOK, NEW j \in Jobs, NEW s
  PROVE  /\ \A r \in Runs \ {RunOf(j)} : Write(j, s)[r] = status[r]
         /\ Write(j, s)[RunOf(j)] = IF job[j].seen = s THEN status[RunOf(j)] ELSE s
  BY RunOfType DEF Write, TypeOK

(* The steps between the guard of a job and its end.                        *)
LEMMA DrivingSteps ==
  ASSUME Inv, Undying, NEW j \in Jobs,
         \/ MarkRunning(j) \/ CheckCancelled(j)
         \/ \E outcome \in {"COMPLETED", "FAILED"} : Finish(j, outcome)
         \/ PersistSuspended(j) \/ PersistFinal(j) \/ FoldChildren(j) \/ WriteRunning(j)
  PROVE  Undying'
  <1> USE JobsOf, DrivesAre
  <1>1. TypeOK /\ job[j] \in JobState /\ RunOf(j) \in Runs
    BY DEF Inv, TypeOK
  <1>2. /\ Fits(job[j].at, job[j].seen, job[j].outcome, status[RunOf(j)])
        /\ job[j].at \in {"enqueue", "suspend", "fold", "woken", "settle"} => RunOf(j) = Root
    BY DEF Undying, StatusFits
  <1>3. CASE MarkRunning(j)
    <2>1. job'[j].at = "check" /\ job'[j].seen = "RUNNING" /\ Drives(j)'
      BY <1>1, <1>3 DEF MarkRunning, TypeOK, JobState, Drives, Driving
    <2>2. job[j].at = "mark" /\ status' = Write(j, "RUNNING")
      BY <1>3 DEF MarkRunning
    <2>3. status'[RunOf(j)] \in {"RUNNING", "CANCELLED"}
      BY <1>1, <1>2, <2>2, Writes DEF Fits
    <2>4. Fits(job'[j].at, job'[j].seen, job'[j].outcome, status'[RunOf(j)])
      BY <2>1, <2>3 DEF Fits
    <2>5. \A r \in Runs \ {RunOf(j)} : status'[r] = status[r]
      BY <1>1, <2>2, Writes
    <2>6. /\ \A i \in Jobs \ {j} : job'[i] = job[i]
          /\ UNCHANGED <<settled, cancelling>>
      BY <1>1, <1>3 DEF MarkRunning, TypeOK
    <2> QED
      BY <1>1, <2>1, <2>2, <2>3, <2>4, <2>5, <2>6, DriverStep
  <1>4. CASE CheckCancelled(j)
    <2>1. job[j].at = "check" /\ status' = status
      BY <1>4 DEF CheckCancelled
    <2>2. job'[j].seen = "RUNNING" /\ Drives(j)'
          /\ \/ job'[j].at = "act"
             \/ job'[j].at = "final" /\ job'[j].outcome = status[RunOf(j)] /\ status[RunOf(j)] # "RUNNING"
      BY <1>1, <1>2, <1>4 DEF CheckCancelled, TypeOK, JobState, Fits, Drives, Driving
    <2>3. status[RunOf(j)] \in {"RUNNING", "CANCELLED"}
      BY <1>2, <2>1 DEF Fits
    <2>4. Fits(job'[j].at, job'[j].seen, job'[j].outcome, status'[RunOf(j)])
      BY <2>1, <2>2, <2>3 DEF Fits, Terminal
    <2>5. /\ \A i \in Jobs \ {j} : job'[i] = job[i]
          /\ UNCHANGED <<settled, cancelling>>
      BY <1>1, <1>4 DEF CheckCancelled, TypeOK
    <2> QED
      BY <1>1, <2>1, <2>2, <2>3, <2>4, <2>5, DriverStep
  <1>5. CASE \E outcome \in {"COMPLETED", "FAILED"} : Finish(j, outcome)
    <2>1. PICK outcome \in {"COMPLETED", "FAILED"} : Finish(j, outcome)
      BY <1>5
    <2>2. job[j].at = "act" /\ status' = status
      BY <2>1 DEF Finish
    <2>3. /\ job'[j].at = "final" /\ job'[j].seen = "RUNNING" /\ Drives(j)'
          /\ job'[j].outcome = outcome
      BY <1>1, <1>2, <2>1 DEF Finish, TypeOK, JobState, Fits, Drives, Driving
    <2>4. status[RunOf(j)] \in {"RUNNING", "CANCELLED"}
      BY <1>2, <2>2 DEF Fits
    <2>5. Fits(job'[j].at, job'[j].seen, job'[j].outcome, status'[RunOf(j)])
      BY <2>2, <2>3, <2>4 DEF Fits, Terminal
    <2>6. /\ \A i \in Jobs \ {j} : job'[i] = job[i]
          /\ UNCHANGED <<settled, cancelling>>
      BY <1>1, <2>1 DEF Finish, TypeOK
    <2> QED
      BY <1>1, <2>2, <2>3, <2>4, <2>5, <2>6, DriverStep
  <1>6. CASE PersistSuspended(j)
    <2>1. job[j].at = "suspend" /\ status' = Write(j, "WAITING_ON_CHILDREN")
      BY <1>6 DEF PersistSuspended
    <2>2. job'[j].at = "return" /\ ~Drives(j)'
      BY <1>1, <1>6 DEF PersistSuspended, AfterSuspend, TypeOK, JobState, Drives, Driving
    <2>3. status'[RunOf(j)] \in {"WAITING_ON_CHILDREN", "CANCELLED"}
      BY <1>1, <1>2, <2>1, Writes DEF Fits
    <2>4. Fits(job'[j].at, job'[j].seen, job'[j].outcome, status'[RunOf(j)])
      BY <2>2 DEF Fits
    <2>5. \A r \in Runs \ {RunOf(j)} : status'[r] = status[r]
      BY <1>1, <2>1, Writes
    <2>6. /\ \A i \in Jobs \ {j} : job'[i] = job[i]
          /\ UNCHANGED <<settled, cancelling>>
      BY <1>1, <1>6 DEF PersistSuspended, TypeOK
    <2> QED
      BY <1>1, <2>1, <2>2, <2>3, <2>4, <2>5, <2>6, DriverStep
  <1>7. CASE PersistFinal(j)
    <2>1. job[j].at = "final" /\ status' = Write(j, job[j].outcome)
      BY <1>7 DEF PersistFinal
    <2>2. job'[j].at = (IF RunOf(j) = Root THEN "settle" ELSE "wake") /\ Drives(j)'
      BY <1>1, <1>7 DEF PersistFinal, TypeOK, JobState, Drives, Driving
    <2>3. status'[RunOf(j)] \in Terminal
      BY <1>1, <1>2, <2>1, Writes DEF Fits, Terminal
    <2>4. Fits(job'[j].at, job'[j].seen, job'[j].outcome, status'[RunOf(j)])
      BY <2>2, <2>3 DEF Fits
    <2>5. \A r \in Runs \ {RunOf(j)} : status'[r] = status[r]
      BY <1>1, <2>1, Writes
    <2>6. /\ \A i \in Jobs \ {j} : job'[i] = job[i]
          /\ UNCHANGED <<settled, cancelling>>
      BY <1>1, <1>7 DEF PersistFinal, TypeOK
    <2>7. status'[RunOf(j)] # "none"
      BY <2>3 DEF Terminal
    <2> QED
      BY <1>1, <2>1, <2>2, <2>4, <2>5, <2>6, <2>7, DriverStep
  <1>8. CASE FoldChildren(j)
    <2>1. job[j].at = "fold" /\ status' = status /\ RunOf(j) = Root
      BY <1>2, <1>8 DEF FoldChildren
    <2>2. job'[j].seen = job[j].seen /\ job'[j].at \in {"suspend", "woken"} /\ Drives(j)'
      BY <1>1, <1>8 DEF FoldChildren, TypeOK, JobState, Drives, Driving
    <2>3. job[j].seen = "WAITING_ON_CHILDREN" /\ status[RunOf(j)] \in {"WAITING_ON_CHILDREN", "CANCELLED"}
      BY <1>2, <2>1 DEF Fits
    <2>4. Fits(job'[j].at, job'[j].seen, job'[j].outcome, status'[RunOf(j)])
      BY <2>1, <2>2, <2>3 DEF Fits
    <2>5. /\ \A i \in Jobs \ {j} : job'[i] = job[i]
          /\ UNCHANGED <<settled, cancelling>>
      BY <1>1, <1>8 DEF FoldChildren, TypeOK
    <2> QED
      BY <1>1, <2>1, <2>2, <2>3, <2>4, <2>5, DriverStep
  <1>9. CASE WriteRunning(j)
    <2>1. job[j].at = "woken" /\ status' = Write(j, "RUNNING")
      BY <1>9 DEF WriteRunning
    <2>2. status'[RunOf(j)] = "RUNNING"
      BY <1>1, <1>2, <2>1, Writes DEF Fits
    <2>3. /\ job'[j].at = AfterWake(j) /\ job'[j].seen = "RUNNING"
          /\ job'[j].outcome = job[j].outcome
      BY <1>1, <1>9 DEF WriteRunning, TypeOK, JobState
    <2>4. job'[j].at = "check" \/ (job'[j].at = "final" /\ job'[j].outcome = "FAILED")
      BY <2>3 DEF AfterWake
    <2>5. Drives(j)'
      BY <2>4 DEF Drives, Driving
    <2>6. Fits(job'[j].at, job'[j].seen, job'[j].outcome, status'[RunOf(j)])
      BY <2>2, <2>3, <2>4 DEF Fits, Terminal
    <2>7. \A r \in Runs \ {RunOf(j)} : status'[r] = status[r]
      BY <1>1, <2>1, Writes
    <2>8. /\ \A i \in Jobs \ {j} : job'[i] = job[i]
          /\ UNCHANGED <<settled, cancelling>>
      BY <1>1, <1>9 DEF WriteRunning, TypeOK
    <2> QED
      BY <1>1, <2>1, <2>2, <2>4, <2>5, <2>6, <2>7, <2>8, DriverStep
  <1> QED
    BY <1>3, <1>4, <1>5, <1>6, <1>7, <1>8, <1>9

(* A step that takes a job to its end, in which no other job changes.       *)
LEMMA RetiringStep ==
  ASSUME TypeOK, Undying, NEW j \in Jobs, job[j].at # "none",
         job'[j].at \in {"return", "over"},
         \A i \in Jobs \ {j} : job'[i] = job[i],
         Drives(j) => status[RunOf(j)] # "RUNNING",
         settled' = settled \/ (Drives(j) /\ RunOf(j) = Root),
         Billed', UNCHANGED <<status, cancelling>>
  PROVE  Undying'
  <1> USE JobsOf, DrivesAre
  <1>1. ~Drives(j)' /\ \A i \in Jobs : Drives(i)' => Drives(i) /\ i # j
    BY DEF Drives, Driving
  <1>2. Single'
    BY <1>1 DEF Undying, Single
  <1>3. OneOutstanding'
    BY <1>1 DEF Undying, OneOutstanding, Outstanding
  <1>4. InOrder'
    <2>1. ASSUME NEW i \in Jobs, job'[i].at = "enqueue"
          PROVE  /\ RunOf(i) = Root /\ job'[i].awaiting \in Children
                 /\ job'[RunJob(job'[i].awaiting)].at = "none"
      <3>1. i # j /\ job'[i] = job[i]
        BY <2>1
      <3>2. /\ RunOf(i) = Root /\ job[i].awaiting \in Children
            /\ job[RunJob(job[i].awaiting)].at = "none"
        BY <2>1, <3>1 DEF Undying, InOrder
      <3> QED
        BY <3>1, <3>2
    <2>2. job'[RunJob(Root)].at # "none"
      BY DEF Undying, InOrder
    <2>3. \A c \in Children : job'[ResumeJob(c)].at # "none" => job'[RunJob(c)].at \in {"return", "over"}
      BY DEF Undying, InOrder
    <2>4. \A r \in Runs : job'[RunJob(r)].at \in {"none", "queued"} =>
             job[RunJob(r)].at \in {"none", "queued"}
      OBVIOUS
    <2>5. job'[RunJob(Root)].at = "queued" => RunJob(Root) # j /\ job[RunJob(Root)].at = "queued"
      BY <2>2
    <2>6. job'[RunJob(Root)].at = "queued" => settled' = 0
      BY <2>5 DEF Undying, InOrder
    <2> QED
      BY <2>1, <2>2, <2>3, <2>4, <2>5, <2>6, <1>1 DEF Undying, InOrder
  <1>5. StatusFits'
    BY <1>1 DEF Undying, StatusFits, Fits
  <1>6. Driven'
    BY <1>1 DEF Undying, Driven, Drives
  <1> QED
    BY <1>2, <1>3, <1>4, <1>5, <1>6 DEF Undying, Cancellable

(* A job that finds its run pending begins to drive it.                     *)
LEMMA RunGuardStep ==
  ASSUME Inv, Undying, NEW j \in Jobs, RunGuard(j)
  PROVE  Undying'
  <1> USE JobsOf, DrivesAre
  <1>1. TypeOK /\ job[j] \in JobState /\ RunOf(j) \in Runs
    BY DEF Inv, TypeOK
  <1>2. /\ job[j].at = "queued" /\ j = RunJob(RunOf(j)) /\ ~Drives(j)
        /\ UNCHANGED <<status, settled, cancelling>>
        /\ \A i \in Jobs \ {j} : job'[i] = job[i]
    BY <1>1 DEF RunGuard, TypeOK
  <1>3. CASE ~MayDrive(RunOf(j))
    <2>1. job'[j].at = "return"
      BY <1>1, <1>3 DEF RunGuard, TypeOK, JobState
    <2>2. Billed'
      BY <1>2, <2>1 DEF Undying, Billed, Drives, Driving
    <2> QED
      BY <1>1, <1>2, <2>1, <2>2, RetiringStep
  <1>4. CASE MayDrive(RunOf(j))
    <2>1. job'[j].at = "mark" /\ job'[j].seen = status[RunOf(j)]
      BY <1>1, <1>4 DEF RunGuard, TypeOK, JobState
    <2>2. status[RunOf(j)] = "PENDING"
      BY <1>1, <1>2, <1>4 DEF Undying, InOrder, Inv, Started, MayDrive, Terminal
    <2>3. /\ Drives(j)' /\ \A i \in Jobs \ {j} : Drives(i)' = Drives(i)
          /\ RunOf(j) # Root => \A i \in Jobs : RunOf(i) = Root => i # j
      BY <1>2, <2>1 DEF Drives, Driving
    <2>4. RunOf(j) = Root => /\ \A i \in Jobs : RunOf(i) = Root => ~Drives(i)
                             /\ \A c \in Children : status[c] = "none"
                             /\ settled = 0
      BY <1>2 DEF Undying, InOrder
    <2>5. Single'
      BY <2>3, <2>4 DEF Undying, Single
    <2>6. OneOutstanding'
      <3>1. \A c \in Children : Outstanding(c)' => Outstanding(c) /\ RunOf(j) # Root
        BY <1>2, <2>1, <2>4 DEF Outstanding
      <3> QED
        BY <1>2, <2>3, <3>1 DEF Undying, OneOutstanding
    <2>7. InOrder'
      <3>1. ASSUME NEW i \in Jobs, job'[i].at = "enqueue"
            PROVE  /\ RunOf(i) = Root /\ job'[i].awaiting \in Children
                   /\ job'[RunJob(job'[i].awaiting)].at = "none"
        <4>1. i # j /\ job'[i] = job[i]
          BY <1>2, <2>1, <3>1
        <4>2. /\ RunOf(i) = Root /\ job[i].awaiting \in Children
              /\ job[RunJob(job[i].awaiting)].at = "none"
          BY <3>1, <4>1 DEF Undying, InOrder
        <4>3. RunJob(job[i].awaiting) # j
          BY <1>2, <4>2
        <4> QED
          BY <1>2, <4>1, <4>2, <4>3
      <3>2. \A c \in Children : job'[ResumeJob(c)].at # "none" =>
               job'[RunJob(c)].at \in {"return", "over"}
        <4>1. ASSUME NEW c \in Children, job'[ResumeJob(c)].at # "none"
              PROVE  job'[RunJob(c)].at \in {"return", "over"}
          <5>1. ResumeJob(c) # j
            BY <1>1, <1>2
          <5>2. job[RunJob(c)].at \in {"return", "over"}
            BY <1>2, <4>1, <5>1 DEF Undying, InOrder
          <5>3. RunJob(c) # j
            BY <1>2, <5>2
          <5> QED
            BY <1>2, <5>2, <5>3
        <4> QED
          BY <4>1
      <3>3. \A r \in Runs : job'[RunJob(r)].at \in {"none", "queued"} =>
               RunJob(r) # j /\ job'[RunJob(r)] = job[RunJob(r)]
        BY <1>2, <2>1
      <3>4. job'[RunJob(Root)].at # "none"
        BY <3>3 DEF Undying, InOrder
      <3>5. \A r \in Runs : job'[RunJob(r)].at \in {"none", "queued"} =>
               status'[r] \in {"none", "PENDING", "CANCELLED"}
        BY <1>2, <3>3 DEF Undying, InOrder
      <3>6. job'[RunJob(Root)].at = "queued" =>
               /\ \A i \in Jobs : RunOf(i) = Root => ~Drives(i)'
               /\ \A c \in Children : status'[c] = "none"
               /\ settled' = 0
        <4> SUFFICES ASSUME job'[RunJob(Root)].at = "queued"
                     PROVE  /\ \A i \in Jobs : RunOf(i) = Root => ~Drives(i)'
                            /\ \A c \in Children : status'[c] = "none"
                            /\ settled' = 0
          OBVIOUS
        <4>1. RunJob(Root) # j /\ job[RunJob(Root)].at = "queued"
          BY <3>3
        <4>2. RunOf(j) # Root
          BY <1>2, <4>1
        <4> QED
          BY <1>2, <2>3, <4>1, <4>2 DEF Undying, InOrder
      <3> QED
        BY <3>1, <3>2, <3>4, <3>5, <3>6 DEF InOrder
    <2>8. StatusFits'
      <3>1. Fits(job'[j].at, job'[j].seen, job'[j].outcome, status'[RunOf(j)])
        BY <1>2, <2>1, <2>2 DEF Fits
      <3> QED
        BY <1>2, <2>1, <3>1 DEF Undying, StatusFits
    <2>9. Billed'
      BY <1>2, <2>3, <2>4 DEF Undying, Billed
    <2>10. Driven'
      BY <1>2, <2>3 DEF Undying, Driven
    <2> QED
      BY <1>2, <2>5, <2>6, <2>7, <2>8, <2>9, <2>10 DEF Undying, Cancellable
  <1> QED
    BY <1>3, <1>4

(* The end of a child finds Root waiting, for that child, and drives it.    *)
LEMMA ResumeGuardStep ==
  ASSUME Inv, Undying, NEW j \in Jobs, ResumeGuard(j)
  PROVE  Undying'
  <1> USE JobsOf, DrivesAre
  <1>1. TypeOK /\ job[j] \in JobState /\ RunOf(j) = Root
    BY DEF Inv, TypeOK, ResumeGuard
  <1>2. PICK c \in Children : j = ResumeJob(c)
    BY DEF ResumeGuard
  <1>3. /\ job[j].at = "queued" /\ ~Drives(j)
        /\ UNCHANGED <<status, settled, cancelling>>
        /\ \A i \in Jobs \ {j} : job'[i] = job[i]
    BY <1>1 DEF ResumeGuard, TypeOK
  <1>4. CASE ~MayResume
    <2>1. job'[j].at = "return"
      BY <1>1, <1>4 DEF ResumeGuard, TypeOK, JobState
    <2>2. Billed'
      BY <1>3, <2>1 DEF Undying, Billed, Drives, Driving
    <2> QED
      BY <1>1, <1>3, <2>1, <2>2, RetiringStep
  <1>5. CASE MayResume
    <2>1. job'[j].at = "fold" /\ job'[j].seen = "WAITING_ON_CHILDREN"
      BY <1>1, <1>5 DEF ResumeGuard, MayResume, TypeOK, JobState
    <2>2. status[Root] = "WAITING_ON_CHILDREN"
      BY <1>5 DEF MayResume
    <2>3. Drives(j)' /\ \A i \in Jobs \ {j} : Drives(i)' = Drives(i)
      BY <1>3, <2>1 DEF Drives, Driving
    <2>4. Outstanding(c)
      <3>1. job[RunJob(c)].at # "none"
        BY <1>2, <1>3 DEF Undying, InOrder
      <3> QED
        BY <1>2, <1>3, <3>1 DEF Outstanding, Inv, Started
    <2>5. \A i \in Jobs : RunOf(i) = Root => ~Drives(i)
      BY <2>2, <2>4 DEF Undying, OneOutstanding
    <2>6. \A d \in Children : ~Outstanding(d)'
      <3>1. \A d \in Children \ {c} : ~Outstanding(d)
        BY <2>4 DEF Undying, OneOutstanding
      <3> QED
        BY <1>2, <1>3, <2>1, <3>1 DEF Outstanding
    <2>7. Single' /\ OneOutstanding'
      BY <2>3, <2>5, <2>6 DEF Single, OneOutstanding
    <2>8. InOrder'
      <3>1. \A i \in Jobs : job'[i].at # "enqueue"
        <4>1. \A i \in Jobs : job[i].at # "enqueue"
          BY <2>5 DEF Undying, InOrder
        <4> QED
          BY <1>3, <2>1, <4>1
      <3>2. \A r \in Runs : job'[RunJob(r)] = job[RunJob(r)]
        BY <1>2, <1>3
      <3>3. \A d \in Children : job'[ResumeJob(d)].at # "none" => job[ResumeJob(d)].at # "none"
        BY <1>2, <1>3
      <3>4. job'[RunJob(Root)].at # "queued"
        BY <2>4, <3>2 DEF Undying, InOrder, Outstanding
      <3> QED
        BY <1>3, <3>1, <3>2, <3>3, <3>4 DEF Undying, InOrder
    <2>9. StatusFits'
      <3>1. Fits(job'[j].at, job'[j].seen, job'[j].outcome, status'[RunOf(j)])
        BY <1>1, <1>3, <2>1, <2>2 DEF Fits
      <3> QED
        BY <1>1, <1>3, <2>1, <3>1 DEF Undying, StatusFits
    <2>10. Billed'
      BY <1>3, <2>2, <2>3 DEF Undying, Billed, Terminal, Inv, TypeOK
    <2>11. Driven'
      BY <1>3, <2>3 DEF Undying, Driven
    <2> QED
      BY <1>3, <2>7, <2>8, <2>9, <2>10, <2>11 DEF Undying, Cancellable
  <1> QED
    BY <1>4, <1>5

(* The row of a child, while its job does not exist.                        *)
LEMMA CreateChildStep ==
  ASSUME Inv, Undying, NEW j \in Jobs, NEW s \in Steps, NEW c \in Children, CreateChild(j, s, c)
  PROVE  Undying'
  <1> USE JobsOf, DrivesAre
  <1>1. TypeOK /\ job[j] \in JobState /\ RunOf(j) = Root /\ Root # c
    BY DEF Inv, TypeOK, CreateChild
  <1>2. /\ job[j].at = "act" /\ Drives(j) /\ UNCHANGED <<settled, cancelling>>
        /\ \A i \in Jobs \ {j} : job'[i] = job[i]
        /\ status[c] = "none" /\ status'[c] = "PENDING"
        /\ \A r \in Runs \ {c} : status'[r] = status[r]
    BY <1>1 DEF CreateChild, TypeOK
  <1>3. job'[j].at = "enqueue" /\ job'[j].awaiting = c /\ job'[j].seen = job[j].seen /\ Drives(j)'
    BY <1>1 DEF CreateChild, TypeOK, JobState, Drives, Driving
  <1>4. /\ \A i \in Jobs \ {j} : Drives(i)' = Drives(i)
        /\ \A i \in Jobs : RunOf(i) = Root /\ Drives(i) => i = j
    BY <1>1, <1>2 DEF Drives, Undying, Single
  <1>5. job[RunJob(c)].at = "none" /\ RunJob(c) # j
    BY <1>1, <1>2 DEF Inv, Started
  <1>6. Single'
    BY <1>4 DEF Undying, Single
  <1>7. status[Root] \in {"RUNNING", "CANCELLED"} /\ job[j].seen = "RUNNING"
    BY <1>1, <1>2 DEF Undying, StatusFits, Fits
  <1>8. OneOutstanding'
    <2>1. \A d \in Children : ~Outstanding(d)
      BY <1>1, <1>2 DEF Undying, OneOutstanding
    <2>2. \A d \in Children : Outstanding(d)' => d = c
      <3>1. ASSUME NEW d \in Children, Outstanding(d)', d # c PROVE FALSE
        <4>1. status[d] # "none" /\ job'[ResumeJob(d)].at \in {"none", "queued"}
          BY <1>2, <3>1 DEF Outstanding
        <4>2. ResumeJob(d) # j
          BY <1>3, <4>1
        <4> QED
          BY <1>2, <2>1, <4>1, <4>2 DEF Outstanding
      <3> QED
        BY <3>1
    <2> QED
      BY <1>1, <1>2, <1>3, <1>4, <1>7, <2>2 DEF OneOutstanding
  <1>9. InOrder'
    <2>1. job[RunJob(Root)].at # "queued"
      BY <1>1, <1>2 DEF Undying, InOrder
    <2>2. job'[RunJob(Root)].at \notin {"none", "queued"}
      BY <1>2, <1>3, <2>1 DEF Undying, InOrder
    <2>3. \A d \in Children : job'[ResumeJob(d)].at # "none" =>
             job'[RunJob(d)].at \in {"return", "over"}
      BY <1>1, <1>2, <1>3 DEF Undying, InOrder
    <2>4. ASSUME NEW i \in Jobs, job'[i].at = "enqueue"
          PROVE  /\ RunOf(i) = Root /\ job'[i].awaiting \in Children
                 /\ job'[RunJob(job'[i].awaiting)].at = "none"
      <3>1. i = j
        BY <1>2, <1>4, <2>4 DEF Undying, InOrder
      <3> QED
        BY <1>1, <1>2, <1>3, <1>5, <3>1
    <2>5. \A r \in Runs : job'[RunJob(r)].at \in {"none", "queued"} =>
             status'[r] \in {"none", "PENDING", "CANCELLED"}
      BY <1>2, <1>3 DEF Undying, InOrder
    <2> QED
      BY <2>2, <2>3, <2>4, <2>5 DEF InOrder
  <1>10. StatusFits'
    <2>1. Fits(job'[j].at, job'[j].seen, job'[j].outcome, status'[RunOf(j)])
      BY <1>1, <1>2, <1>3, <1>7 DEF Fits
    <2>2. \A i \in Jobs : RunOf(i) = c => job[i].at = "none"
      BY <1>5
    <2>3. \A i \in Jobs \ {j} : Fits(job'[i].at, job'[i].seen, job'[i].outcome, status'[RunOf(i)])
      BY <1>2, <2>2 DEF Undying, StatusFits, Fits
    <2> QED
      BY <1>1, <1>2, <1>3, <2>1, <2>3 DEF Undying, StatusFits
  <1>11. Billed'
    BY <1>1, <1>2, <1>3, <1>4 DEF Undying, Billed
  <1>12. Driven'
    BY <1>2, <1>3, <1>4 DEF Undying, Driven
  <1>13. Cancellable'
    BY <1>2, <1>1 DEF Undying, Cancellable, TypeOK
  <1> QED
    BY <1>6, <1>8, <1>9, <1>10, <1>11, <1>12, <1>13 DEF Undying

(* The jobs, when job j has enqueued job k and moved on.                     *)
Moved(k, j, at) == [Enqueued(k) EXCEPT ![j].at = at]

(* Where each of them is.                                                   *)
LEMMA EnqueueMoves ==
  ASSUME TypeOK, NEW k \in Jobs, NEW j \in Jobs, NEW at \in At, j # k,
         job' = Moved(k, j, at)
  PROVE  \A i \in Jobs :
            /\ job'[i].at = IF i = j THEN at ELSE IF i = k THEN "queued" ELSE job[i].at
            /\ job'[i].done = job[i].done /\ job'[i].awaiting = job[i].awaiting
            /\ job'[i].outcome = job[i].outcome /\ job'[i].seen = job[i].seen
  <1> DEFINE e == Enqueued(k)
  <1>1. e \in [Jobs -> JobState] /\ job' = [e EXCEPT ![j].at = at]
    BY EnqueuedType DEF Moved
  <1>2. \A i \in Jobs : /\ e[i].at = IF i = k THEN "queued" ELSE job[i].at
                        /\ e[i].done = job[i].done /\ e[i].awaiting = job[i].awaiting
                        /\ e[i].outcome = job[i].outcome
    BY EnqueuedFields
  <1>3. \A i \in Jobs : e[i].seen = job[i].seen
    <2>1. ASSUME NEW i \in Jobs PROVE e[i].seen = job[i].seen
      <3>1. job[i] \in JobState
        BY DEF TypeOK
      <3> QED
        BY <3>1 DEF TypeOK, Enqueued, JobState
    <2> QED
      BY <2>1
  <1> HIDE DEF e
  <1> QED
    BY <1>1, <1>2, <1>3 DEF JobState

(* The job of the child, after its row.                                     *)
LEMMA EnqueueChildStep ==
  ASSUME Inv, Undying, NEW j \in Jobs, EnqueueChild(j)
  PROVE  Undying'
  <1> USE JobsOf, DrivesAre
  <1>1. TypeOK /\ job[j].at = "enqueue" /\ UNCHANGED <<status, settled, cancelling>>
    BY DEF Inv, EnqueueChild
  <1> DEFINE c == job[j].awaiting
  <1>2. RunOf(j) = Root /\ c \in Children /\ job[RunJob(c)].at = "none" /\ Drives(j)
    BY <1>1 DEF Undying, InOrder
  <1>3. RunJob(c) # j /\ RunJob(c) \in Jobs /\ RunOf(RunJob(c)) = c /\ c # Root
    BY <1>1, <1>2
  <1>4. \A i \in Jobs :
            /\ job'[i].at = IF i = j THEN "suspend" ELSE IF i = RunJob(c) THEN "queued" ELSE job[i].at
            /\ job'[i].awaiting = job[i].awaiting
            /\ job'[i].outcome = job[i].outcome /\ job'[i].seen = job[i].seen
    <2>1. job' = Moved(RunJob(c), j, "suspend")
      BY DEF EnqueueChild, Moved, RunJob
    <2> HIDE DEF c
    <2> QED
      <3>1. "suspend" \in At
        BY DEF At, Driving
      <3> QED
        BY <1>1, <1>3, <2>1, <3>1, EnqueueMoves
  <1> HIDE DEF c
  <1>5. \A i \in Jobs : Drives(i)' = Drives(i)
    BY <1>1, <1>2, <1>3, <1>4 DEF Drives, Driving
  <1>6. Single'
    BY <1>5 DEF Undying, Single
  <1>8. OneOutstanding'
    <2>1. \A d \in Children : Outstanding(d)' => Outstanding(d)
      BY <1>1, <1>2, <1>4 DEF Outstanding
    <2>2. ASSUME NEW d \in Children, Outstanding(d), NEW i \in Jobs, RunOf(i) = Root, Drives(i)
          PROVE  /\ job'[i].at \in {"enqueue", "suspend"} /\ job'[i].awaiting = d
                 /\ status'[Root] # "WAITING_ON_CHILDREN"
      BY <1>1, <1>2, <1>3, <1>4, <2>2 DEF Undying, OneOutstanding
    <2> QED
      BY <1>5, <2>1, <2>2 DEF Undying, OneOutstanding
  <1>9. InOrder'
    <2>1. job[RunJob(Root)].at # "queued"
      BY <1>2 DEF Undying, InOrder
    <2>2. job'[RunJob(Root)].at \notin {"none", "queued"}
      BY <1>2, <1>3, <1>4, <2>1 DEF Undying, InOrder
    <2>3. \A d \in Children : job'[ResumeJob(d)].at # "none" =>
             job'[RunJob(d)].at \in {"return", "over"}
      <3>1. ASSUME NEW d \in Children, job'[ResumeJob(d)].at # "none"
            PROVE  job'[RunJob(d)].at \in {"return", "over"}
        <4>1. job[ResumeJob(d)].at # "none"
          BY <1>1, <1>2, <1>4, <3>1
        <4>2. job[RunJob(d)].at \in {"return", "over"}
          BY <4>1 DEF Undying, InOrder
        <4>3. RunJob(d) # j /\ RunJob(d) # RunJob(c)
          BY <1>1, <1>2, <4>2
        <4> QED
          BY <1>4, <4>2, <4>3
      <3> QED
        BY <3>1
    <2>4. \A i \in Jobs : job'[i].at # "enqueue"
      <3>1. \A i \in Jobs : job[i].at = "enqueue" => i = j
        BY <1>1, <1>2 DEF Undying, InOrder, Single
      <3> QED
        BY <1>4, <3>1
    <2>5. \A r \in Runs : job'[RunJob(r)].at \in {"none", "queued"} =>
             status'[r] \in {"none", "PENDING", "CANCELLED"}
      BY <1>1, <1>2, <1>4 DEF Undying, InOrder
    <2> QED
      BY <2>2, <2>3, <2>4, <2>5 DEF InOrder
  <1>10. StatusFits'
    <2>1. Fits(job'[j].at, job'[j].seen, job'[j].outcome, status'[RunOf(j)])
      <3>1. job[j].seen = "RUNNING" /\ status[RunOf(j)] \in {"RUNNING", "CANCELLED"}
        BY <1>1 DEF Undying, StatusFits, Fits
      <3> QED
        BY <1>1, <1>4, <3>1 DEF Fits
    <2>2. \A i \in Jobs \ {j} : /\ job'[i].at \in {job[i].at, "queued"}
                                /\ job'[i].outcome = job[i].outcome /\ job'[i].seen = job[i].seen
      BY <1>4
    <2>3. ASSUME NEW i \in Jobs \ {j}
          PROVE  /\ Fits(job'[i].at, job'[i].seen, job'[i].outcome, status'[RunOf(i)])
                 /\ job'[i].at \in {"enqueue", "suspend", "fold", "woken", "settle"} => RunOf(i) = Root
                 /\ job'[i].at = "wake" => RunOf(i) # Root
      <3>1. CASE job'[i].at = job[i].at
        <4>1. UNCHANGED <<job[i].at, job[i].seen, job[i].outcome, status[RunOf(i)]>>
          BY <1>1, <2>2, <3>1
        <4> QED
          BY <4>1 DEF Undying, StatusFits
      <3>2. CASE job'[i].at = "queued"
        BY <3>2 DEF Fits
      <3> QED
        BY <2>2, <3>1, <3>2
    <2> QED
      BY <1>2, <1>4, <2>1, <2>3 DEF StatusFits
  <1>11. Billed' /\ Driven' /\ Cancellable'
    BY <1>1, <1>5 DEF Undying, Billed, Driven, Cancellable
  <1> QED
    BY <1>6, <1>8, <1>9, <1>10, <1>11 DEF Undying

(* The end of a child enqueues the job that resumes Root.                   *)
LEMMA MaybeResumeParentStep ==
  ASSUME Inv, Undying, NEW j \in Jobs, MaybeResumeParent(j)
  PROVE  Undying'
  <1> USE JobsOf, DrivesAre
  <1>1. TypeOK /\ job[j].at = "wake" /\ UNCHANGED <<status, settled, cancelling>>
    BY DEF Inv, MaybeResumeParent
  <1> DEFINE c == RunOf(j)
             k == ResumeJob(c)
  <1>2. c \in Children /\ status[c] \in Terminal /\ j = RunJob(c)
    BY <1>1 DEF Undying, StatusFits, Fits, Runs
  <1>3. job[k].at = "none"
    BY <1>1, <1>2 DEF Undying, InOrder
  <1>4. k # j /\ k \in Jobs /\ RunOf(k) = Root /\ c # Root
    BY <1>2
  <1>5. \A i \in Jobs :
            /\ job'[i].at = IF i = j THEN "return" ELSE IF i = k THEN "queued" ELSE job[i].at
            /\ job'[i].awaiting = job[i].awaiting
            /\ job'[i].outcome = job[i].outcome /\ job'[i].seen = job[i].seen
    <2>1. job' = Moved(k, j, "return")
      BY DEF MaybeResumeParent, Moved, ResumeJob
    <2> HIDE DEF k
    <2> QED
      <3>1. "return" \in At
        BY DEF At, Driving
      <3> QED
        BY <1>1, <1>4, <2>1, <3>1, EnqueueMoves
  <1>6. ~Drives(j)' /\ \A i \in Jobs \ {j} : Drives(i)' = Drives(i)
    BY <1>3, <1>5 DEF Drives, Driving
  <1> HIDE DEF c
  <1>7. Single'
    BY <1>6 DEF Undying, Single
  <1>8. OneOutstanding'
    <2>1. \A d \in Children : Outstanding(d)' => Outstanding(d)
      BY <1>1, <1>2, <1>3, <1>5 DEF Outstanding
    <2>2. ASSUME NEW d \in Children, Outstanding(d), NEW i \in Jobs, RunOf(i) = Root, Drives(i)'
          PROVE  /\ job'[i].at \in {"enqueue", "suspend"} /\ job'[i].awaiting = d
                 /\ status'[Root] # "WAITING_ON_CHILDREN"
      <3>1. i # j /\ Drives(i) /\ i # k
        BY <1>3, <1>6, <2>2
      <3> QED
        BY <1>1, <1>5, <2>2, <3>1 DEF Undying, OneOutstanding
    <2> QED
      BY <2>1, <2>2 DEF Undying, OneOutstanding
  <1>9. InOrder'
    <2>1. \A r \in Runs : r # c => job'[RunJob(r)].at = job[RunJob(r)].at
      BY <1>2, <1>4, <1>5
    <2>2. job'[RunJob(c)].at = "return"
      BY <1>2, <1>5
    <2>3. \A d \in Children : d # c => job'[ResumeJob(d)].at = job[ResumeJob(d)].at
      BY <1>2, <1>5
    <2>4. \A d \in Children : job'[ResumeJob(d)].at # "none" =>
             job'[RunJob(d)].at \in {"return", "over"}
      BY <2>1, <2>2, <2>3 DEF Undying, InOrder
    <2>5. ASSUME NEW i \in Jobs, job'[i].at = "enqueue"
          PROVE  /\ RunOf(i) = Root /\ job'[i].awaiting \in Children
                 /\ job'[RunJob(job'[i].awaiting)].at = "none"
      <3>1. job[i].at = "enqueue" /\ job'[i].awaiting = job[i].awaiting
        BY <1>5, <2>5
      <3>2. /\ RunOf(i) = Root /\ job[i].awaiting \in Children
            /\ job[RunJob(job[i].awaiting)].at = "none"
        BY <3>1 DEF Undying, InOrder
      <3>3. job[i].awaiting # c
        BY <1>1, <1>2, <3>2
      <3> QED
        BY <2>1, <3>1, <3>2, <3>3
    <2>6. \A r \in Runs : job'[RunJob(r)].at \in {"none", "queued"} =>
             status'[r] \in {"none", "PENDING", "CANCELLED"}
      BY <1>1, <2>1, <2>2 DEF Undying, InOrder
    <2>7. job'[RunJob(Root)].at = job[RunJob(Root)].at
      BY <1>4, <2>1
    <2>8. job'[RunJob(Root)].at # "queued"
      <3>1. status[c] # "none"
        BY <1>2 DEF Terminal
      <3> QED
        BY <1>2, <2>7, <3>1 DEF Undying, InOrder
    <2> QED
      BY <2>4, <2>5, <2>6, <2>7, <2>8 DEF Undying, InOrder
  <1>10. StatusFits'
    <2>1. ASSUME NEW i \in Jobs
          PROVE  /\ Fits(job'[i].at, job'[i].seen, job'[i].outcome, status'[RunOf(i)])
                 /\ job'[i].at \in {"enqueue", "suspend", "fold", "woken", "settle"} => RunOf(i) = Root
                 /\ job'[i].at = "wake" => RunOf(i) # Root
      <3>1. CASE job'[i].at = job[i].at
        <4>1. UNCHANGED <<job[i].at, job[i].seen, job[i].outcome, status[RunOf(i)]>>
          BY <1>1, <1>5, <3>1
        <4> QED
          BY <4>1 DEF Undying, StatusFits
      <3>2. CASE job'[i].at \in {"queued", "return"}
        BY <3>2 DEF Fits
      <3> QED
        BY <1>5, <3>1, <3>2
    <2> QED
      BY <2>1 DEF StatusFits
  <1>11. Billed' /\ Cancellable'
    BY <1>1, <1>6 DEF Undying, Billed, Cancellable
  <1>12. Driven'
    <2>1. \A r \in Runs : status[r] = "RUNNING" => r # RunOf(j)
      BY <1>2 DEF Terminal, c
    <2> QED
      BY <1>1, <1>6, <2>1 DEF Undying, Driven
  <1> QED
    BY <1>7, <1>8, <1>9, <1>10, <1>11, <1>12 DEF Undying

(* The bill, once the run has ended, and the end of a job.                  *)
LEMMA EndingSteps ==
  ASSUME Inv, Undying, NEW j \in Jobs, SettleBilling(j) \/ Acknowledge(j)
  PROVE  Undying'
  <1> USE JobsOf, DrivesAre
  <1>1. TypeOK /\ job[j] \in JobState
    BY DEF Inv, TypeOK
  <1>2. /\ job[j].at # "none" /\ UNCHANGED <<status, cancelling>>
        /\ \A i \in Jobs \ {j} : job'[i] = job[i]
    BY <1>1 DEF SettleBilling, Acknowledge, TypeOK
  <1>3. CASE SettleBilling(j)
    <2>1. job[j].at = "settle" /\ settled' = settled + 1 /\ job'[j].at = "return"
      BY <1>1, <1>3 DEF SettleBilling, TypeOK, JobState
    <2>2. RunOf(j) = Root /\ status[Root] \in Terminal /\ Drives(j) /\ settled = 0
      <3>1. RunOf(j) = Root /\ status[Root] \in Terminal /\ Drives(j)
        BY <2>1 DEF Undying, StatusFits, Fits
      <3> QED
        BY <3>1 DEF Undying, Billed
    <2>3. \A i \in Jobs : RunOf(i) = Root => ~Drives(i)'
      BY <1>2, <2>1, <2>2 DEF Undying, Single, Drives, Driving
    <2>4. Billed'
      BY <1>2, <2>1, <2>2, <2>3 DEF Billed
    <2>5. status[RunOf(j)] # "RUNNING"
      BY <2>2 DEF Terminal
    <2> QED
      BY <1>1, <1>2, <2>1, <2>2, <2>4, <2>5, RetiringStep
  <1>4. CASE Acknowledge(j)
    <2>1. job[j].at = "return" /\ settled' = settled /\ job'[j].at = "over" /\ ~Drives(j)
      BY <1>1, <1>4 DEF Acknowledge, TypeOK, JobState
    <2>2. Billed'
      BY <1>2, <2>1 DEF Undying, Billed, Drives, Driving
    <2> QED
      BY <1>1, <1>2, <2>1, <2>2, RetiringStep
  <1> QED
    BY <1>3, <1>4

(* A cancellation fits what any driver knows of its run.                    *)
LEMMA CancelSteps ==
  ASSUME Inv, Undying, NEW r \in Runs, CancelBegin(r) \/ CancelCommit(r)
  PROVE  Undying'
  <1> USE JobsOf
  <1>1. TypeOK /\ UNCHANGED <<job, settled>>
    BY DEF Inv, CancelBegin, CancelCommit
  <1>2. CASE CancelBegin(r)
    <2>1. UNCHANGED <<status, job, settled>> /\ cancelling' = cancelling \cup {r} /\ status[r] # "none"
      BY <1>2 DEF CancelBegin
    <2> QED
      BY <2>1 DEF Undying, Single, OneOutstanding, Outstanding, InOrder, StatusFits, Billed,
                  Driven, Cancellable, Drives
  <1>3. CASE CancelCommit(r)
    <2>1. /\ status'[r] = "CANCELLED" /\ status[r] # "none"
          /\ \A q \in Runs \ {r} : status'[q] = status[q]
          /\ cancelling' \subseteq cancelling
      BY <1>1, <1>3 DEF CancelCommit, Undying, Cancellable, TypeOK
    <2>2. \A q \in Runs : /\ status'[q] = status[q] \/ status'[q] = "CANCELLED"
                          /\ status'[q] = "none" <=> status[q] = "none"
      BY <2>1
    <2>3. Single' /\ Driven'
      BY <1>1, <2>2 DEF Undying, Single, Driven, Drives
    <2>4. OneOutstanding'
      BY <1>1, <2>2 DEF Undying, OneOutstanding, Outstanding, Drives
    <2>5. InOrder'
      BY <1>1, <2>2 DEF Undying, InOrder, Drives
    <2>6. StatusFits'
      <3>1. \A j \in Jobs : Fits(job[j].at, job[j].seen, job[j].outcome, status'[RunOf(j)])
        BY <2>2 DEF Undying, StatusFits, Fits, Terminal
      <3> QED
        BY <1>1, <3>1 DEF Undying, StatusFits
    <2>7. Billed'
      BY <1>1, <2>2 DEF Undying, Billed, Drives, Terminal
    <2>8. Cancellable'
      BY <1>1, <2>1, <2>2 DEF Undying, Cancellable, TypeOK
    <2> QED
      BY <2>3, <2>4, <2>5, <2>6, <2>7, <2>8 DEF Undying
  <1> QED
    BY <1>2, <1>3

(* trigger_execution leaves one job, queued.                                *)
LEMMA InitUndying == Init => Undying
  <1> SUFFICES ASSUME Init PROVE Undying
    OBVIOUS
  <1> USE JobsOf
  <1>1. \A j \in Jobs : job[j].at = (IF j = RunJob(Root) THEN "queued" ELSE "none") /\ ~Drives(j)
    BY DEF Init, Fresh, RunJob, Drives, Driving
  <1>2. \A r \in Runs : status[r] \in {"none", "PENDING"}
    BY DEF Init
  <1>3. \A c \in Children : status[c] = "none"
    BY DEF Init
  <1>4. settled = 0 /\ cancelling = {}
    BY DEF Init
  <1>5. Single /\ OneOutstanding /\ Billed /\ Driven /\ Cancellable
    BY <1>1, <1>2, <1>3, <1>4 DEF Single, OneOutstanding, Outstanding, Billed, Driven, Cancellable
  <1>6. InOrder
    BY <1>1, <1>2, <1>3, <1>4 DEF InOrder
  <1>7. StatusFits
    BY <1>1 DEF StatusFits, Fits
  <1> QED
    BY <1>5, <1>6, <1>7 DEF Undying

LEMMA UndyingHolds == Spec => []UndyingInv
  <1>1. Init => UndyingInv
    BY InitInv, InitUndying DEF UndyingInv
  <1>2. UndyingInv /\ [Next]_vars => UndyingInv'
    <2> SUFFICES ASSUME UndyingInv, [Next]_vars PROVE UndyingInv'
      OBVIOUS
    <2>1. Inv /\ Inv'
      BY NextInv DEF UndyingInv
    <2> SUFFICES ASSUME deaths' = 0 PROVE Undying'
      BY <2>1 DEF UndyingInv
    <2>2. CASE \E j \in Jobs : WorkerDies(j)
      BY <2>1, <2>2, CountBounds DEF WorkerDies, Inv, TypeOK
    <2>3. CASE \E j \in Jobs : Work(j)
      <3>1. PICK j \in Jobs : Work(j)
        BY <2>3
      <3>2. deaths = 0
        BY <3>1 DEF Work, RunGuard, MarkRunning, CheckCancelled, CreateChild, EnqueueChild, Finish,
                    PersistSuspended, PersistFinal, SettleBilling, MaybeResumeParent, Acknowledge,
                    ResumeGuard, FoldChildren, WriteRunning
      <3>3. Undying
        BY <3>2 DEF UndyingInv
      <3> QED
        BY <2>1, <3>1, <3>3, DrivingSteps, RunGuardStep, ResumeGuardStep, CreateChildStep,
           EnqueueChildStep, MaybeResumeParentStep, EndingSteps DEF Work
    <2>4. CASE \E r \in Runs : CancelBegin(r) \/ CancelCommit(r)
      <3>1. deaths = 0
        BY <2>4 DEF CancelBegin, CancelCommit
      <3> QED
        BY <2>1, <2>4, <3>1, CancelSteps DEF UndyingInv
    <2>5. CASE UNCHANGED vars
      BY <2>5 DEF vars, UndyingInv, Undying, Single, OneOutstanding, Outstanding, InOrder,
                  StatusFits, Billed, Driven, Cancellable, Drives
    <2> QED
      BY <2>2, <2>3, <2>4, <2>5 DEF Next
  <1> QED
    BY <1>1, <1>2, PTL DEF Spec

(* No run is ever driven by two jobs at a time, whatever is queued for it   *)
(* and whoever cancels it (the status guards of run_execution_recursive and *)
(* AgentLoop.resume), as long as no worker dies.                            *)
THEOREM OneDriverEach == Spec => []OneDriver
  <1>1. UndyingInv => OneDriver
    <2> SUFFICES ASSUME UndyingInv, deaths = 0, NEW r \in Runs
                 PROVE  Cardinality(Drivers(r)) <= 1
      BY DEF OneDriver
    <2>1. \A i, j \in Drivers(r) : i = j
      BY OneDrives DEF UndyingInv, Undying, Drivers, Drives
    <2>2. CASE Drivers(r) = {}
      BY <2>2, FS_EmptySet
    <2>3. CASE Drivers(r) # {}
      <3>1. PICK j : Drivers(r) = {j}
        BY <2>1, <2>3
      <3> QED
        BY <3>1, FS_Singleton
    <2> QED
      BY <2>2, <2>3
  <1> QED
    BY <1>1, UndyingHolds, PTL

(* A run that says RUNNING is driven by a job, as long as no worker dies:   *)
(* neither a suspension nor a cancellation nor an end leaves that status    *)
(* behind.                                                                  *)
THEOREM RunningIsDriven == Spec => []RunningHasDriver
  <1>1. UndyingInv => RunningHasDriver
    BY DEF UndyingInv, Undying, Driven, RunningHasDriver, Drivers, Drives
  <1> QED
    BY <1>1, UndyingHolds, PTL

(* A company is billed for its run at most once, and only when it has ended *)
(* (_settle_billing), as long as no worker dies.                            *)
THEOREM BilledOnce == Spec => []BilledOnceAtTheEnd
  <1>1. UndyingInv => BilledOnceAtTheEnd
    BY DEF UndyingInv, Undying, Billed, BilledOnceAtTheEnd
  <1> QED
    BY <1>1, UndyingHolds, PTL

----------------------------------------------------------------------------
(* The steps of a job, while no operator cancels. *)

(* A child that has ended stays as it is.                                   *)
LEMMA EndedChild ==
  ASSUME Inv, ChildDriven, NEW j \in Jobs, Work(j) \/ WorkerDies(j),
         NEW c \in Children, status[c] \in Terminal
  PROVE  status'[c] = status[c] /\ step'[c] = step[c]
  <1> USE JobsOf
  <1>1. TypeOK /\ status[c] # "none"
    BY DEF Inv, Terminal
  <1>2. RunOf(j) = c => job[j].at \notin {"mark", "check", "act", "enqueue", "suspend", "fold",
                                          "woken", "final"}
    BY DEF ChildDriven, ChildKnown
  <1>3. CASE MarkRunning(j) \/ PersistSuspended(j) \/ PersistFinal(j) \/ WriteRunning(j)
    <2>1. RunOf(j) # c
      BY <1>2, <1>3 DEF MarkRunning, PersistSuspended, PersistFinal, WriteRunning
    <2> QED
      BY <1>1, <1>3, <2>1, Writes
         DEF MarkRunning, PersistSuspended, PersistFinal, WriteRunning
  <1>4. CASE \E s \in Steps, d \in Children : CreateChild(j, s, d)
    BY <1>1, <1>4 DEF CreateChild, TypeOK
  <1>5. CASE \/ RunGuard(j) \/ CheckCancelled(j) \/ EnqueueChild(j)
             \/ \E outcome \in {"COMPLETED", "FAILED"} : Finish(j, outcome)
             \/ SettleBilling(j) \/ MaybeResumeParent(j) \/ Acknowledge(j)
             \/ ResumeGuard(j) \/ FoldChildren(j) \/ WorkerDies(j)
    BY <1>5 DEF RunGuard, CheckCancelled, EnqueueChild, Finish, SettleBilling, MaybeResumeParent,
                Acknowledge, ResumeGuard, FoldChildren, WorkerDies
  <1> QED
    BY <1>3, <1>4, <1>5 DEF Work

(* So what was done stays done.                                             *)
LEMMA DoneStays ==
  ASSUME Inv, ChildDriven, NEW j \in Jobs, Work(j) \/ WorkerDies(j), NEW s, Did(s)
  PROVE  Did(s)'
  <1>1. PICK c \in Children : step[c] = s /\ status[c] = "COMPLETED"
    BY DEF Did
  <1>2. status'[c] = status[c] /\ step'[c] = step[c]
    BY <1>1, EndedChild DEF Terminal
  <1> QED
    BY <1>1, <1>2 DEF Did

(* A step of a job of Root that earns what it claims, or of a child's job.  *)
LEMMA EarnedStep ==
  ASSUME Inv, ChildDriven, Earned, NEW j \in Jobs, Work(j) \/ WorkerDies(j),
         \A i \in Jobs \ {j} : job'[i] = job[i],
         RunOf(j) = Root => EarnedBy(j)',
         status'[Root] = "COMPLETED" =>
            \/ status[Root] = "COMPLETED"
            \/ RunOf(j) = Root /\ job[j].outcome = "COMPLETED",
         \A s \in snapshot'.done : Did(s)
  PROVE  Earned'
  <1>1. \A s : Did(s) => Did(s)'
    BY DoneStays
  <1>2. \A i \in Jobs \ {j} : RunOf(i) = Root => EarnedBy(i)'
    BY <1>1 DEF Earned, EarnedBy, RunJob
  <1>3. status'[Root] = "COMPLETED" => \A s \in Steps : Did(s)'
    BY <1>1 DEF Earned, EarnedBy
  <1> QED
    BY <1>1, <1>2, <1>3 DEF Earned

(* A step of a job, for the child it drives and for the others.             *)
LEMMA ChildStep ==
  ASSUME TypeOK, ChildDriven, NEW j \in Jobs,
         \A i \in Jobs \ {j} : job'[i] = job[i],
         \A r \in Runs \ {RunOf(j)} : status'[r] = status[r],
         RunOf(j) \in Children => ChildKnown(RunOf(j))'
  PROVE  ChildDriven'
  <1> USE JobsOf
  <1>1. ASSUME NEW c \in Children PROVE ChildKnown(c)'
    <2>1. CASE c = RunOf(j)
      BY <1>1, <2>1
    <2>2. CASE c # RunOf(j)
      <3>1. RunJob(c) # j /\ RunJob(c) \in Jobs /\ status'[c] = status[c]
        BY <2>2
      <3> QED
        BY <3>1 DEF ChildKnown, ChildDriven
    <2> QED
      BY <2>1, <2>2
  <1> QED
    BY <1>1 DEF ChildKnown, ChildDriven

(* A driving step of a job of Root or of a child keeps what its end rests on.*)
LEMMA EarnedDriving ==
  ASSUME Inv, ChildDriven, Earned, NEW j \in Jobs,
         \/ RunGuard(j) \/ MarkRunning(j) \/ CheckCancelled(j)
         \/ \E outcome \in {"COMPLETED", "FAILED"} : Finish(j, outcome)
         \/ PersistSuspended(j) \/ PersistFinal(j) \/ SettleBilling(j) \/ Acknowledge(j)
         \/ ResumeGuard(j) \/ FoldChildren(j) \/ WriteRunning(j) \/ WorkerDies(j)
  PROVE  ChildDriven' /\ Earned'
  <1> USE JobsOf
  <1>1. TypeOK /\ job[j] \in JobState /\ RunOf(j) \in Runs
    BY DEF Inv, TypeOK
  <1>2. Work(j) \/ WorkerDies(j)
    BY DEF Work
  <1>3. RunOf(j) \in Children => j = RunJob(RunOf(j)) /\ ChildKnown(RunOf(j))
    BY DEF ChildDriven
  <1>4. RunOf(j) = Root => EarnedBy(j)
    BY DEF Earned
  <1>5. \A s : Did(s) => Did(s)'
    BY <1>2, DoneStays
  <1>6. \A s \in snapshot.done : Did(s)
    BY DEF Earned
  <1>7. CASE RunGuard(j)
    <2>1. /\ job[j].at = "queued" /\ j = RunJob(RunOf(j)) /\ UNCHANGED <<status, snapshot>>
          /\ \A i \in Jobs \ {j} : job'[i] = job[i]
      BY <1>1, <1>7 DEF RunGuard, TypeOK
    <2>2. /\ job'[j].done = job[j].done /\ job'[j].outcome = job[j].outcome
          /\ \/ job'[j].at = "return"
             \/ /\ job'[j].at = "mark" /\ job'[j].seen = status[RunOf(j)]
                /\ status[RunOf(j)] \notin Terminal
      BY <1>1, <1>7 DEF RunGuard, MayDrive, TypeOK, JobState
    <2>3. RunOf(j) \in Children => ChildKnown(RunOf(j))'
      BY <1>3, <2>1, <2>2 DEF ChildKnown
    <2>4. RunOf(j) = Root => EarnedBy(j)'
      BY <1>4, <1>5, <2>1, <2>2 DEF EarnedBy, RunJob
    <2> QED
      BY <1>1, <1>2, <1>6, <2>1, <2>3, <2>4, ChildStep, EarnedStep
  <1>8. CASE MarkRunning(j)
    <2>1. /\ job[j].at = "mark" /\ status' = Write(j, "RUNNING") /\ UNCHANGED snapshot
          /\ \A i \in Jobs \ {j} : job'[i] = job[i]
      BY <1>1, <1>8 DEF MarkRunning, TypeOK
    <2>2. /\ job'[j].done = job[j].done /\ job'[j].outcome = job[j].outcome
          /\ job'[j].at = "check" /\ job'[j].seen = "RUNNING"
      BY <1>1, <1>8 DEF MarkRunning, TypeOK, JobState
    <2>3. /\ \A r \in Runs \ {RunOf(j)} : status'[r] = status[r]
          /\ status'[RunOf(j)] = IF job[j].seen = "RUNNING" THEN status[RunOf(j)] ELSE "RUNNING"
      BY <1>1, <2>1, Writes
    <2>4. RunOf(j) \in Children => ChildKnown(RunOf(j))'
      BY <1>3, <2>1, <2>2, <2>3 DEF ChildKnown, Terminal
    <2>5. RunOf(j) = Root => EarnedBy(j)'
      BY <1>4, <1>5, <2>1, <2>2 DEF EarnedBy, RunJob
    <2>6. status'[Root] = "COMPLETED" => status[Root] = "COMPLETED"
      BY <2>3
    <2> QED
      BY <1>1, <1>2, <1>6, <2>1, <2>3, <2>4, <2>5, <2>6, ChildStep, EarnedStep
  <1>9. CASE CheckCancelled(j)
    <2>1. /\ job[j].at = "check" /\ UNCHANGED <<status, snapshot>>
          /\ \A i \in Jobs \ {j} : job'[i] = job[i]
      BY <1>1, <1>9 DEF CheckCancelled, TypeOK
    <2>2. /\ job'[j].done = job[j].done /\ job'[j].seen = job[j].seen
          /\ \/ job'[j].at = "act" /\ job'[j].outcome = job[j].outcome
             \/ job'[j].at = "final" /\ job'[j].outcome = status[RunOf(j)]
      BY <1>1, <1>9 DEF CheckCancelled, TypeOK, JobState
    <2>3. RunOf(j) \in Children => ChildKnown(RunOf(j))'
      BY <1>3, <2>1, <2>2 DEF ChildKnown
    <2>4. RunOf(j) = Root => EarnedBy(j)'
      BY <1>4, <1>5, <2>1, <2>2 DEF Earned, EarnedBy, RunJob
    <2> QED
      BY <1>1, <1>2, <1>6, <2>1, <2>3, <2>4, ChildStep, EarnedStep
  <1>10. CASE \E outcome \in {"COMPLETED", "FAILED"} : Finish(j, outcome)
    <2> PICK outcome \in {"COMPLETED", "FAILED"} : Finish(j, outcome)
      BY <1>10
    <2>1. /\ job[j].at = "act" /\ UNCHANGED <<status, snapshot>>
          /\ \A i \in Jobs \ {j} : job'[i] = job[i]
          /\ outcome = "COMPLETED" /\ RunOf(j) = Root => job[j].done = Steps
      BY <1>1 DEF Finish, TypeOK
    <2>2. /\ job'[j].done = job[j].done /\ job'[j].seen = job[j].seen
          /\ job'[j].at = "final" /\ job'[j].outcome = outcome
      BY <1>1 DEF Finish, TypeOK, JobState
    <2>3. RunOf(j) \in Children => ChildKnown(RunOf(j))'
      BY <1>3, <2>1, <2>2 DEF ChildKnown
    <2>4. RunOf(j) = Root => EarnedBy(j)'
      BY <1>4, <1>5, <2>1, <2>2 DEF EarnedBy, RunJob
    <2> QED
      BY <1>1, <1>2, <1>6, <2>1, <2>3, <2>4, ChildStep, EarnedStep
  <1>11. CASE PersistSuspended(j)
    <2>1. /\ job[j].at = "suspend" /\ status' = Write(j, "WAITING_ON_CHILDREN")
          /\ snapshot'.done = job[j].done
          /\ \A i \in Jobs \ {j} : job'[i] = job[i]
      BY <1>1, <1>11 DEF PersistSuspended, Snapshot, TypeOK
    <2>2. job'[j].done = job[j].done /\ job'[j].outcome = job[j].outcome /\ job'[j].at = "return"
      BY <1>1, <1>11 DEF PersistSuspended, AfterSuspend, TypeOK, JobState
    <2>3. RunOf(j) = Root
      BY <1>1, <1>3, <2>1 DEF ChildKnown, Runs
    <2>4. EarnedBy(j)' /\ \A s \in snapshot'.done : Did(s)
      BY <1>4, <1>5, <2>1, <2>2, <2>3 DEF EarnedBy
    <2>5. /\ \A r \in Runs \ {RunOf(j)} : status'[r] = status[r]
          /\ status'[Root] = "COMPLETED" => status[Root] = "COMPLETED"
      BY <1>1, <2>1, <2>3, Writes
    <2> QED
      BY <1>1, <1>2, <2>1, <2>3, <2>4, <2>5, ChildStep, EarnedStep
  <1>12. CASE PersistFinal(j)
    <2>1. /\ job[j].at = "final" /\ status' = Write(j, job[j].outcome) /\ UNCHANGED snapshot
          /\ \A i \in Jobs \ {j} : job'[i] = job[i]
      BY <1>1, <1>12 DEF PersistFinal, TypeOK
    <2>2. /\ job'[j].done = job[j].done /\ job'[j].outcome = job[j].outcome
          /\ job'[j].at = IF RunOf(j) = Root THEN "settle" ELSE "wake"
      BY <1>1, <1>12 DEF PersistFinal, TypeOK, JobState
    <2>3. RunOf(j) \in Children => ChildKnown(RunOf(j))'
      BY <1>3, <2>2 DEF ChildKnown
    <2>4. RunOf(j) = Root => EarnedBy(j)'
      BY <1>4, <1>5, <2>2 DEF EarnedBy
    <2>5. \A r \in Runs \ {RunOf(j)} : status'[r] = status[r]
      BY <1>1, <2>1, Writes
    <2>6. status'[Root] = "COMPLETED" =>
             \/ status[Root] = "COMPLETED"
             \/ RunOf(j) = Root /\ job[j].outcome = "COMPLETED"
      BY <1>1, <2>1, Writes
    <2> QED
      BY <1>1, <1>2, <1>6, <2>1, <2>3, <2>4, <2>5, <2>6, ChildStep, EarnedStep
  <1>13. CASE SettleBilling(j) \/ Acknowledge(j)
    <2>1. /\ UNCHANGED <<status, snapshot>> /\ \A i \in Jobs \ {j} : job'[i] = job[i]
          /\ job'[j].done = job[j].done /\ job'[j].outcome = job[j].outcome
          /\ job'[j].at \in {"return", "over"}
      BY <1>1, <1>13 DEF SettleBilling, Acknowledge, TypeOK, JobState
    <2>2. RunOf(j) \in Children => ChildKnown(RunOf(j))'
      BY <1>3, <2>1 DEF ChildKnown
    <2>3. RunOf(j) = Root => EarnedBy(j)'
      BY <1>4, <1>5, <2>1 DEF EarnedBy
    <2> QED
      BY <1>1, <1>2, <1>6, <2>1, <2>2, <2>3, ChildStep, EarnedStep
  <1>14. CASE ResumeGuard(j)
    <2>1. /\ UNCHANGED <<status, snapshot>> /\ \A i \in Jobs \ {j} : job'[i] = job[i]
          /\ RunOf(j) = Root
      BY <1>1, <1>14 DEF ResumeGuard, TypeOK
    <2>2. /\ job'[j].outcome = job[j].outcome
          /\ \/ job'[j].at = "return"
             \/ job'[j].at = "fold" /\ job'[j].done = snapshot.done
      <3>1. CASE MayResume
        BY <1>1, <1>14, <3>1 DEF ResumeGuard, TypeOK, JobState
      <3>2. CASE ~MayResume
        BY <1>1, <1>14, <3>2 DEF ResumeGuard, TypeOK, JobState
      <3> QED
        BY <3>1, <3>2
    <2>3. EarnedBy(j)'
      BY <1>4, <1>5, <1>6, <2>1, <2>2 DEF EarnedBy
    <2> QED
      BY <1>1, <1>2, <1>6, <2>1, <2>3, ChildStep, EarnedStep
  <1>15. CASE FoldChildren(j)
    <2> DEFINE c == job[j].awaiting
    <2>1. /\ job[j].at = "fold" /\ UNCHANGED <<status, snapshot>>
          /\ \A i \in Jobs \ {j} : job'[i] = job[i]
          /\ c \in Children
      BY <1>1, <1>15 DEF FoldChildren, TypeOK, Inv, JobKnows
    <2>2. RunOf(j) = Root
      BY <1>1, <1>3, <2>1 DEF ChildKnown, Runs
    <2>3. \/ /\ job'[j].at = "suspend" /\ job'[j].done = job[j].done
             /\ job'[j].outcome = job[j].outcome
          \/ /\ job'[j].at = "woken" /\ job'[j].done = job[j].done \cup {step[c]}
             /\ status[c] \in Terminal
             /\ job'[j].outcome = IF status[c] \in FailedStatus THEN "FAILED" ELSE "none"
      BY <1>1, <1>15 DEF FoldChildren, Folded, TypeOK, JobState
    <2>4. status[c] \in Terminal \ FailedStatus => Did(step[c])
      BY <2>1 DEF Terminal, FailedStatus, Did
    <2>5. EarnedBy(j)'
      BY <1>4, <1>5, <2>1, <2>2, <2>3, <2>4 DEF EarnedBy
    <2> QED
      BY <1>1, <1>2, <1>6, <2>1, <2>2, <2>5, ChildStep, EarnedStep
  <1>16. CASE WriteRunning(j)
    <2>1. /\ job[j].at = "woken" /\ status' = Write(j, "RUNNING") /\ UNCHANGED snapshot
          /\ \A i \in Jobs \ {j} : job'[i] = job[i]
      BY <1>1, <1>16 DEF WriteRunning, TypeOK
    <2>2. /\ job'[j].done = job[j].done /\ job'[j].outcome = job[j].outcome
          /\ job'[j].at = IF job[j].outcome = "FAILED" THEN "final" ELSE "check"
      BY <1>1, <1>16 DEF WriteRunning, AfterWake, TypeOK, JobState
    <2>3. RunOf(j) = Root
      BY <1>1, <1>3, <2>1 DEF ChildKnown, Runs
    <2>4. EarnedBy(j)'
      BY <1>4, <1>5, <2>1, <2>2, <2>3 DEF EarnedBy
    <2>5. /\ \A r \in Runs \ {RunOf(j)} : status'[r] = status[r]
          /\ status'[Root] = "COMPLETED" => status[Root] = "COMPLETED"
      BY <1>1, <2>1, <2>3, Writes
    <2> QED
      BY <1>1, <1>2, <1>6, <2>1, <2>3, <2>4, <2>5, ChildStep, EarnedStep
  <1>17. CASE WorkerDies(j)
    <2>1. /\ UNCHANGED <<status, snapshot>> /\ \A i \in Jobs \ {j} : job'[i] = job[i]
          /\ job'[j].done = {} /\ job'[j].outcome = "none" /\ job'[j].at = "queued"
      BY <1>1, <1>17 DEF WorkerDies, Fresh, TypeOK
    <2>2. RunOf(j) \in Children => ChildKnown(RunOf(j))'
      BY <1>3, <2>1 DEF ChildKnown
    <2>3. EarnedBy(j)'
      BY <2>1 DEF EarnedBy
    <2> QED
      BY <1>1, <1>2, <1>6, <2>1, <2>2, <2>3, ChildStep, EarnedStep
  <1> QED
    BY <1>7, <1>8, <1>9, <1>10, <1>11, <1>12, <1>13, <1>14, <1>15, <1>16, <1>17

(* So do the three steps that touch a second run or job.                    *)
LEMMA EarnedCreating ==
  ASSUME Inv, ChildDriven, Earned, NEW j \in Jobs, NEW t \in Steps, NEW c \in Children,
         CreateChild(j, t, c)
  PROVE  ChildDriven' /\ Earned'
  <1> USE JobsOf
  <1>1. TypeOK /\ job[j] \in JobState /\ RunOf(j) = Root /\ Root # c
    BY DEF Inv, TypeOK, CreateChild
  <1>2. /\ job[j].at = "act" /\ UNCHANGED snapshot
        /\ \A i \in Jobs \ {j} : job'[i] = job[i]
        /\ \A r \in Runs \ {c} : status'[r] = status[r]
        /\ job[RunJob(c)].at = "none" /\ RunJob(c) # j
    BY <1>1 DEF CreateChild, TypeOK, Inv, Started
  <1>3. /\ job'[j].done = job[j].done /\ job'[j].outcome = job[j].outcome
        /\ job'[j].at = "enqueue"
    BY <1>1 DEF CreateChild, TypeOK, JobState
  <1>4. Work(j)
    BY DEF Work
  <1>5. \A s : Did(s) => Did(s)'
    BY <1>4, DoneStays
  <1>6. EarnedBy(j)'
    BY <1>1, <1>2, <1>3, <1>5 DEF Earned, EarnedBy
  <1>7. Earned'
    BY <1>1, <1>2, <1>4, <1>6, EarnedStep DEF Earned
  <1>8. ASSUME NEW d \in Children PROVE ChildKnown(d)'
    <2>1. RunJob(d) # j /\ RunJob(d) \in Jobs /\ job'[RunJob(d)] = job[RunJob(d)]
      BY <1>1, <1>2
    <2>2. CASE d = c
      BY <1>2, <2>1, <2>2 DEF ChildKnown
    <2>3. CASE d # c
      BY <1>2, <2>1, <2>3 DEF ChildDriven, ChildKnown
    <2> QED
      BY <2>2, <2>3
  <1> QED
    BY <1>7, <1>8 DEF ChildDriven

LEMMA EarnedEnqueuing ==
  ASSUME Inv, ChildDriven, Earned, NEW j \in Jobs, EnqueueChild(j) \/ MaybeResumeParent(j)
  PROVE  ChildDriven' /\ Earned'
  <1> USE JobsOf
  <1>1. TypeOK /\ job[j] \in JobState /\ UNCHANGED <<status, snapshot>>
    BY DEF Inv, TypeOK, EnqueueChild, MaybeResumeParent
  <1>2. Work(j)
    BY DEF Work
  <1>3. \A s : Did(s) => Did(s)'
    BY <1>2, DoneStays
  <1>4. ASSUME NEW k \in Jobs, NEW at \in At, k # j, k # RunJob(Root), job' = Moved(k, j, at),
               RunOf(j) \in Children => at = "return",
               RunOf(j) = Root => at = "return" \/ (at = "suspend" /\ job[j].at = "enqueue")
        PROVE  ChildDriven' /\ Earned'
    <2>1. \A i \in Jobs :
             /\ job'[i].at = IF i = j THEN at ELSE IF i = k THEN "queued" ELSE job[i].at
             /\ job'[i].done = job[i].done /\ job'[i].awaiting = job[i].awaiting
             /\ job'[i].outcome = job[i].outcome /\ job'[i].seen = job[i].seen
      BY <1>1, <1>4, EnqueueMoves
    <2>2. ASSUME NEW c \in Children PROVE ChildKnown(c)'
      <3>1. \/ job'[RunJob(c)].at = job[RunJob(c)].at
            \/ job'[RunJob(c)].at \in {"return", "queued"}
        BY <1>4, <2>1
      <3>2. job'[RunJob(c)].seen = job[RunJob(c)].seen /\ status'[c] = status[c]
        BY <1>1, <2>1
      <3> QED
        BY <3>1, <3>2 DEF ChildDriven, ChildKnown
    <2>3. ASSUME NEW i \in Jobs, RunOf(i) = Root PROVE EarnedBy(i)'
      <3>1. EarnedBy(i)
        BY <2>3 DEF Earned
      <3>2. job'[i].done = job[i].done /\ job'[i].outcome = job[i].outcome
        BY <2>1
      <3>3. CASE i = j
        BY <1>3, <1>4, <2>1, <2>3, <3>1, <3>2, <3>3 DEF EarnedBy, RunJob
      <3>4. CASE i = k /\ i # j
        BY <1>3, <1>4, <2>1, <3>1, <3>2, <3>4 DEF EarnedBy, RunJob
      <3>5. CASE i # j /\ i # k
        BY <1>3, <2>1, <3>1, <3>2, <3>5 DEF EarnedBy, RunJob
      <3> QED
        BY <3>3, <3>4, <3>5
    <2> QED
      BY <1>1, <1>3, <2>2, <2>3 DEF ChildDriven, Earned
  <1>5. "suspend" \in At /\ "return" \in At
    BY DEF At, Driving
  <1>6. CASE EnqueueChild(j)
    <2> DEFINE k == RunJob(job[j].awaiting)
    <2>1. job[j].at = "enqueue" /\ job[j].awaiting \in Children
      BY <1>6 DEF EnqueueChild, Inv, JobKnows
    <2>2. RunOf(j) = Root
      BY <2>1 DEF ChildDriven, ChildKnown, Runs
    <2>3. k \in Jobs /\ k # j /\ k # RunJob(Root)
      BY <2>1, <2>2
    <2>4. job' = Moved(k, j, "suspend")
      BY <1>6 DEF EnqueueChild, Moved, RunJob
    <2> HIDE DEF k
    <2> QED
      BY <1>4, <1>5, <2>1, <2>2, <2>3, <2>4
  <1>7. CASE MaybeResumeParent(j)
    <2> DEFINE k == ResumeJob(RunOf(j))
    <2>1. RunOf(j) \in Children
      BY <1>7 DEF MaybeResumeParent, Earned, EarnedBy, Runs
    <2>2. k \in Jobs /\ k # j /\ k # RunJob(Root)
      BY <2>1
    <2>3. job' = Moved(k, j, "return")
      BY <1>7 DEF MaybeResumeParent, Moved, ResumeJob
    <2> HIDE DEF k
    <2> QED
      BY <1>4, <1>5, <2>1, <2>2, <2>3
  <1> QED
    BY <1>6, <1>7

LEMMA EarnedHolds == Spec => []EarnedInv
  <1>1. Init => EarnedInv
    <2> SUFFICES ASSUME Init PROVE cancelling = {} /\ ChildDriven /\ Earned
      BY InitInv DEF EarnedInv
    <2>1. \A j \in Jobs : /\ job[j].at = IF j = RunJob(Root) THEN "queued" ELSE "none"
                          /\ job[j].done = {} /\ job[j].outcome = "none"
      BY DEF Init, Fresh, RunJob
    <2>2. status[Root] = "PENDING" /\ snapshot.done = {} /\ cancelling = {}
      BY DEF Init, Runs
    <2>3. ChildDriven
      BY <2>1, JobsOf DEF ChildDriven, ChildKnown
    <2>4. Earned
      BY <2>1, <2>2 DEF Earned, EarnedBy
    <2> QED
      BY <2>2, <2>3, <2>4
  <1>2. EarnedInv /\ [Next]_vars => EarnedInv'
    <2> SUFFICES ASSUME EarnedInv, [Next]_vars PROVE EarnedInv'
      OBVIOUS
    <2>1. Inv /\ Inv'
      BY NextInv DEF EarnedInv
    <2> SUFFICES ASSUME cancels' = 0 PROVE cancelling' = {} /\ ChildDriven' /\ Earned'
      BY <2>1 DEF EarnedInv
    <2>2. CASE \E j \in Jobs : Work(j) \/ WorkerDies(j)
      <3>1. PICK j \in Jobs : Work(j) \/ WorkerDies(j)
        BY <2>2
      <3>2. UNCHANGED <<cancels, cancelling>>
        BY <3>1 DEF Work, RunGuard, MarkRunning, CheckCancelled, CreateChild, EnqueueChild, Finish,
                    PersistSuspended, PersistFinal, SettleBilling, MaybeResumeParent, Acknowledge,
                    ResumeGuard, FoldChildren, WriteRunning, WorkerDies
      <3>3. cancelling = {} /\ ChildDriven /\ Earned
        BY <3>2 DEF EarnedInv
      <3> QED
        BY <2>1, <3>1, <3>2, <3>3, EarnedDriving, EarnedCreating, EarnedEnqueuing DEF Work
    <2>3. CASE \E r \in Runs : CancelBegin(r) \/ CancelCommit(r)
      <3>1. cancels' = cancels + 1 \/ (cancels' = cancels /\ cancelling # {})
        BY <2>3 DEF CancelBegin, CancelCommit
      <3> QED
        BY <2>1, <3>1, CountBounds DEF EarnedInv, Inv, TypeOK
    <2>4. CASE UNCHANGED vars
      BY <2>4 DEF vars, EarnedInv, ChildDriven, ChildKnown, Earned, EarnedBy, Did
    <2> QED
      BY <2>2, <2>3, <2>4 DEF Next
  <1> QED
    BY <1>1, <1>2, PTL DEF Spec

(* A run completes only when every step of its plan was done by a child     *)
(* that completed (decide_next, _fold_children), however often it was       *)
(* suspended, resumed, or driven again after a worker died, as long as no   *)
(* operator cancels.                                                        *)
THEOREM CompletedIsEarned == Spec => []CompletedOnCompletedChildren
  <1>1. EarnedInv => CompletedOnCompletedChildren
    BY DEF EarnedInv, Earned, Did, CompletedOnCompletedChildren
  <1> QED
    BY <1>1, EarnedHolds, PTL
=============================================================================
