----------------------- MODULE ServerCampaign_proofs -----------------------
(****************************************************************************)
(* Theorems about ServerCampaign, for any number of calls, jobs, polls,     *)
(* events and failed reads.                                                 *)
(****************************************************************************)
EXTENDS ServerCampaign, FiniteSetTheorems, WellFoundedInduction, TLAPS

PcLive == {"queued", "gate", "check", "wait", "place", "link", "dial", "skip"}
CallStatus == {"pending", "calling", "completed", "failed", "completed-voicemail", "skipped"}

CallRow == [status : CallStatus, link : Nat, retries : Nat]
JobRow  == [pc : PcLive \cup {"idle", "done"}, todo : SUBSET Rows, ticks : Nat, session : Nat]
LegRow  == [phase : {"none", "ringing", "talking", "missed", "ended"},
            hook : {"due", "write", "done"}, clean : {"due", "fill", "keep", "done"}]

TypeOK ==
    /\ provider \in Providers
    /\ campaign \in Startable \cup Ended
    /\ Rows \subseteq 1 .. NumRows
    /\ call \in [Rows -> CallRow]
    /\ dials \in [Rows -> Nat]
    /\ job \in [Jobs -> JobRow]
    /\ leg \in [Sessions -> LegRow]
    /\ retrying \in BOOLEAN /\ crossed \in BOOLEAN /\ waived \in BOOLEAN
    /\ after \in [Jobs -> Nat]
    /\ patches \in Nat /\ blips \in 0 .. MaxBlips /\ deaths \in Nat
    /\ patches + deaths <= MaxEvents

(* A loop that has a call before it has it on its list, and no other job    *)
(* has a list.                                                              *)
HasRow == \A j \in Jobs : /\ job[j].pc \in {"wait", "place", "link", "dial"} => job[j].todo # {}
                          /\ job[j].pc \in {"idle", "done"} => job[j].todo = {}

(* The call that a job is placing has been counted by MarkCalling; the      *)
(* others on its list have not.                                             *)
ToDial(j) == IF job[j].pc \in {"link", "dial"} THEN job[j].todo \ {Row(j)} ELSE job[j].todo

(* Unless a user crosses it, a loop has the campaign for itself, and the    *)
(* campaign says "running" as long as it lives.                             *)
Alone == ~crossed => /\ \A i, j \in Live : i = j
                     /\ Live # {} => campaign = "running" /\ ~retrying

(* A call that is still to be dialled has a try left. *)
TriesLeft ==
    ~crossed => \A r \in Rows :
        /\ dials[r] <= 1 + call[r].retries
        /\ call[r].status = "pending" => dials[r] <= call[r].retries
        /\ \A j \in Jobs : r \in ToDial(j) => dials[r] <= call[r].retries

(* A loop that is about to place a call has found a slot for it. *)
SlotFound ==
    ~crossed /\ ~waived =>
        /\ Cardinality(With("calling")) <= MaxConcurrent
        /\ \A j \in Jobs : job[j].pc = "place" => Cardinality(With("calling")) < MaxConcurrent

(* A loop that has passed the check of the status since its last call has   *)
(* one more to place.                                                       *)
Halts ==
    /\ campaign = "running" => \A j \in Jobs : after[j] = 0
    /\ \A j \in Jobs : /\ after[j] <= 1 + blips
                       /\ job[j].pc \in {"wait", "place"} => after[j] <= blips

Inv == TypeOK /\ HasRow /\ Alone /\ TriesLeft /\ SlotFound /\ Halts

----------------------------------------------------------------------------
(* The calls of a list, and how many there are. *)

(* The first call of a list that is not empty is on the list.               *)
LEMMA RowOnList ==
  ASSUME NEW j \in Jobs, job[j].todo \in SUBSET Nat, job[j].todo # {}
  PROVE  Row(j) \in job[j].todo
  <1> DEFINE Less == OpToRel(<, Nat)
  <1> DEFINE S == job[j].todo
  <1>1. \A x, y \in Nat : x < y => <<x, y>> \in Less
    BY DEF OpToRel
  <1>2. IsWellFoundedOn(Less, Nat)
    BY NatLessThanWellFounded
  <1>3. S \in SUBSET Nat /\ S # {} /\ Row(j) = CHOOSE r \in S : \A q \in S : r <= q
    BY DEF Row
  <1> HIDE DEF Less, S
  <1>4. PICK x \in S : \A y \in S : ~ (<<y, x>> \in Less)
    BY <1>2, <1>3, WFMin, Zenon
  <1>5. \A y \in S : x <= y
    <2>1. ASSUME NEW y \in S PROVE x <= y
      <3>1. ~ (y < x) /\ x \in Nat /\ y \in Nat
        BY <1>1, <1>3, <1>4
      <3> QED
        BY <3>1
    <2> QED
      BY <2>1
  <1>6. Row(j) \in S
    BY <1>3, <1>4, <1>5
  <1> QED
    BY <1>6 DEF S

LEMMA Counted ==
  ASSUME TypeOK, NEW S \in SUBSET Rows, NEW T \in SUBSET S
  PROVE  /\ Cardinality(T) \in Nat /\ Cardinality(S) \in Nat
         /\ Cardinality(T) <= Cardinality(S)
         /\ \A r \in Rows : Cardinality(S \cup {r}) <= Cardinality(S) + 1
  <1>1. IsFiniteSet(1 .. NumRows)
    BY Sizes, FS_Interval
  <1>2. S \subseteq 1 .. NumRows
    BY DEF TypeOK
  <1>3. IsFiniteSet(S)
    BY <1>1, <1>2, FS_Subset
  <1>4. IsFiniteSet(T) /\ Cardinality(T) <= Cardinality(S)
    BY <1>3, FS_Subset
  <1>5. Cardinality(T) \in Nat /\ Cardinality(S) \in Nat
    BY <1>3, <1>4, FS_CardinalityType
  <1>6. \A r \in Rows : Cardinality(S \cup {r}) <= Cardinality(S) + 1
    BY <1>3, <1>5, FS_AddElement
  <1> QED
    BY <1>4, <1>5, <1>6

----------------------------------------------------------------------------
(* What a step does to the calls and to the jobs. *)

(* Calls settle: none begins, none is given another try. *)
Settles ==
    /\ Rows' = Rows /\ call' \in [Rows -> CallRow]
    /\ \A r \in Rows : /\ call'[r].retries = call[r].retries
                       /\ \/ call'[r].status = call[r].status
                          \/ call'[r].status \notin {"pending", "calling"}

LEMMA SetStatusSettles ==
  ASSUME TypeOK, NEW r, NEW st \in CallStatus \ {"pending", "calling"}, SetStatus(r, st)
  PROVE  Settles
  <1>1. call' = [call EXCEPT ![r].status = st] /\ call \in [Rows -> CallRow]
    BY DEF SetStatus, TypeOK
  <1>2. Rows' = Rows
    BY <1>1 DEF Rows
  <1>3. \A q \in Rows : call'[q] = IF q = r THEN [call[q] EXCEPT !.status = st] ELSE call[q]
    BY <1>1
  <1>4. call' \in [Rows -> CallRow]
    <2>1. \A q \in Rows : call'[q] \in CallRow
      BY <1>1, <1>3 DEF CallRow
    <2>2. call' = [q \in Rows |-> call'[q]]
      BY <1>1
    <2> QED
      BY <2>1, <2>2
  <1> QED
    BY <1>1, <1>2, <1>3, <1>4 DEF Settles, CallRow

LEMMA ToSettles ==
  ASSUME TypeOK, NEW rs, NEW st \in CallStatus \ {"pending", "calling"}, call' = To(rs, st)
  PROVE  Settles
  <1>1. call' = [r \in Rows |-> IF r \in rs THEN [call[r] EXCEPT !.status = st] ELSE call[r]]
        /\ call \in [Rows -> CallRow]
    BY DEF To, TypeOK
  <1>2. Rows' = Rows
    BY <1>1 DEF Rows
  <1> QED
    BY <1>1, <1>2 DEF Settles, CallRow

LEMMA UnchangedSettles ==
  ASSUME TypeOK, UNCHANGED call
  PROVE  Settles
  BY DEF Settles, TypeOK, Rows

(* Job j goes to pc with the list todo. *)
Moves(j, pc, todo) ==
    /\ job' \in [Jobs -> JobRow]
    /\ job'[j].pc = pc /\ job'[j].todo = todo
    /\ \A i \in Jobs \ {j} : job'[i] = job[i]

Pcs == PcLive \cup {"idle", "done"}

LEMMA GotoMoves ==
  ASSUME TypeOK, NEW j \in Jobs, NEW pc \in Pcs, Goto(j, pc)
  PROVE  Moves(j, pc, job[j].todo)
  BY DEF Goto, Moves, TypeOK, JobRow, Pcs

LEMMA NextRowMoves ==
  ASSUME TypeOK, NEW j \in Jobs, NextRow(j)
  PROVE  Moves(j, "check", job[j].todo \ {Row(j)})
  BY DEF NextRow, Moves, TypeOK, JobRow, PcLive

LEMMA EndMoves ==
  ASSUME TypeOK, NEW j \in Jobs, End(j)
  PROVE  Moves(j, "done", {})
  BY DEF End, Idle, Moves, TypeOK, JobRow

(* A call that settles takes a slot from nobody. *)
LEMMA SettlesFrees ==
  ASSUME TypeOK, Settles
  PROVE  /\ Cardinality(With("calling"))' <= Cardinality(With("calling"))
         /\ Cardinality(With("calling")) \in Nat /\ Cardinality(With("calling"))' \in Nat
  <1>1. With("calling") \subseteq Rows /\ With("calling")' \subseteq With("calling")
    BY DEF With, Settles
  <1> QED
    BY <1>1, Counted

(* A step of a loop that dials nothing keeps everything but the type and    *)
(* the count of calls placed.                                               *)
LEMMA LoopKeeps ==
  ASSUME Inv, NEW j \in Jobs, NEW pc, NEW todo, job[j].pc \in PcLive, Moves(j, pc, todo),
         Settles, UNCHANGED <<dials, users>>, waived => waived', waived' \in BOOLEAN,
         pc \in {"wait", "place", "link", "dial"} => todo # {}, pc = "done" => todo = {}, pc # "idle",
         \/ todo \subseteq ToDial(j) \cup With("pending")
         \/ job[j].pc = "link" /\ pc = "dial" /\ todo = job[j].todo,
         pc = "done" \/ campaign' \in {campaign, "running"},
         pc = "place" => waived' \/ Cardinality(With("calling")) < MaxConcurrent
  PROVE  HasRow' /\ Alone' /\ TriesLeft' /\ SlotFound'
  <1> USE DEF Inv
  <1>1. TypeOK /\ UNCHANGED <<retrying, crossed>>
    BY DEF users
  <1>2. HasRow'
    BY DEF HasRow, Moves
  <1>3. Alone'
    <2>1. Live' \subseteq Live /\ j \in Live /\ (pc = "done" => j \notin Live')
      BY DEF Live, Moves, PcLive
    <2> QED
      BY <1>1, <2>1 DEF Alone
  <1>4. TriesLeft'
    <2>1. \A i \in Jobs : ToDial(i)' \subseteq ToDial(i) \cup With("pending")
      <3>1. \A i \in Jobs \ {j} : ToDial(i)' = ToDial(i)
        BY DEF Moves, ToDial, Row
      <3>2. CASE todo \subseteq ToDial(j) \cup With("pending")
        BY <3>1, <3>2 DEF ToDial, Moves
      <3>3. CASE job[j].pc = "link" /\ pc = "dial" /\ todo = job[j].todo
        <4>1. ToDial(j)' = ToDial(j)
          BY <3>3 DEF ToDial, Row, Moves
        <4> QED
          BY <3>1, <4>1
      <3> QED
        BY <3>2, <3>3
    <2> QED
      BY <1>1, <2>1 DEF TriesLeft, Settles, With
  <1>5. SlotFound'
    BY <1>1, SettlesFrees, Sizes DEF SlotFound, Moves
  <1> QED
    BY <1>2, <1>3, <1>4, <1>5

LEMMA LoopHalts ==
  ASSUME Inv, NEW j \in Jobs, NEW pc, NEW todo, Moves(j, pc, todo),
         blips' \in Nat, blips <= blips',
         UNCHANGED <<campaign, after>> \/ \E st \in Startable \cup Ended : Becomes(st),
         pc \in {"wait", "place"} => after[j] <= blips'
  PROVE  Halts'
  <1>1. \A i \in Jobs : after[i] \in Nat /\ blips \in Nat
    BY DEF Inv, TypeOK
  <1>2. \/ \A i \in Jobs : after'[i] = 0
        \/ UNCHANGED after /\ (campaign' = "running" => campaign = "running")
    BY DEF Becomes
  <1> QED
    BY <1>1, <1>2 DEF Inv, Halts, Moves

----------------------------------------------------------------------------
(* The users. *)

LEMMA InitInv == Init => Inv
  <1> SUFFICES ASSUME Init PROVE Inv
    OBVIOUS
  <1>1. PICK n \in 1 .. NumRows :
          /\ call = [r \in 1 .. n |-> [status |-> "pending", link |-> 0, retries |-> 0]]
          /\ dials = [r \in 1 .. n |-> 0]
    BY DEF Init
  <1>2. Rows = 1 .. n
    BY <1>1 DEF Rows
  <1>3. TypeOK
    <2>1. 1 .. n \subseteq 1 .. NumRows
      BY Sizes
    <2>2. call \in [Rows -> CallRow] /\ dials \in [Rows -> Nat]
      BY <1>1, <1>2 DEF CallRow, CallStatus
    <2>3. /\ job \in [Jobs -> JobRow] /\ leg \in [Sessions -> LegRow]
          /\ after \in [Jobs -> Nat] /\ provider \in Providers
          /\ campaign \in Startable \cup Ended
      BY DEF Init, Idle, NoLeg, JobRow, LegRow, Startable
    <2>4. retrying \in BOOLEAN /\ crossed \in BOOLEAN /\ waived \in BOOLEAN
      BY DEF Init
    <2>5. patches = 0 /\ blips = 0 /\ deaths = 0
      BY DEF Init
    <2>6. /\ patches \in Nat /\ blips \in 0 .. MaxBlips /\ deaths \in Nat
          /\ patches + deaths <= MaxEvents
      BY <2>5, Sizes
    <2> QED
      BY <1>2, <2>1, <2>2, <2>3, <2>4, <2>6 DEF TypeOK
  <1>4. \A j \in Jobs : job[j].pc = "idle" /\ job[j].todo = {} /\ after[j] = 0
    BY DEF Init, Idle
  <1>5. With("calling") = {}
    BY <1>1, <1>2 DEF With
  <1>6. HasRow /\ Alone /\ Halts
    BY <1>4 DEF HasRow, Alone, Live, Halts, Init
  <1>7. TriesLeft
    BY <1>1, <1>2, <1>4 DEF TriesLeft, ToDial
  <1>8. SlotFound
    BY <1>4, <1>5, Sizes, FS_EmptySet DEF SlotFound
  <1> QED
    BY <1>3, <1>6, <1>7, <1>8 DEF Inv

(* The new job of a campaign that no loop works on has it for itself.       *)
LEMMA EnqueueKeeps ==
  ASSUME Inv, Enqueue, UNCHANGED <<call, dials, waived>>, crossed => crossed',
         crossed' \/ (Live = {} /\ ~retrying' /\ campaign' = "running")
  PROVE  job' \in [Jobs -> JobRow] /\ HasRow' /\ Alone' /\ TriesLeft' /\ SlotFound'
  <1> USE DEF Inv
  <1>1. PICK j \in Jobs : job[j].pc = "idle" /\ job' = [job EXCEPT ![j].pc = "queued"]
    BY DEF Enqueue, Spare
  <1>2. /\ job' \in [Jobs -> JobRow]
        /\ job'[j].pc = "queued" /\ job'[j].todo = job[j].todo
        /\ \A i \in Jobs \ {j} : job'[i] = job[i]
    BY <1>1 DEF TypeOK, JobRow, PcLive
  <1>3. Rows' = Rows /\ With("calling")' = With("calling")
    BY DEF Rows, With
  <1>4. HasRow'
    BY <1>2 DEF HasRow
  <1>5. Alone'
    <2>1. Live' \subseteq Live \cup {j}
      BY <1>2 DEF Live
    <2> QED
      BY <2>1 DEF Alone
  <1>6. TriesLeft'
    <2>1. \A i \in Jobs \ {j} : ToDial(i)' = ToDial(i)
      BY <1>2 DEF ToDial, Row
    <2>2. ToDial(j)' = ToDial(j)
      BY <1>1, <1>2 DEF ToDial
    <2> QED
      BY <1>3, <2>1, <2>2 DEF TriesLeft
  <1>7. SlotFound'
    BY <1>2, <1>3 DEF SlotFound
  <1> QED
    BY <1>2, <1>4, <1>5, <1>6, <1>7

LEMMA BecomesHalts ==
  ASSUME Inv, NEW st \in Startable \cup Ended, Becomes(st), UNCHANGED blips,
         \A j \in Jobs : job'[j].pc \in {"wait", "place"} => job[j].pc \in {"wait", "place"}
  PROVE  Halts' /\ campaign' \in Startable \cup Ended /\ after' \in [Jobs -> Nat]
  BY DEF Becomes, Inv, TypeOK, Halts

LEMMA PatchStatusInv ==
  ASSUME Inv, NEW st \in {"running", "paused", "stopped"}, PatchStatus(st)
  PROVE  Inv'
  <1> USE DEF Inv
  <1>1. /\ Becomes(st) /\ patches + deaths < MaxEvents /\ patches' = patches + 1
        /\ crossed' = (crossed \/ Live # {} \/ retrying)
        /\ UNCHANGED <<provider, call, dials, retrying, leg, waived, blips, deaths>>
    BY DEF PatchStatus, MoreEvents
  <1>2. crossed' \in BOOLEAN /\ (~crossed' => ~crossed /\ Live = {} /\ ~retrying')
    BY <1>1 DEF TypeOK
  <1>3. /\ job' \in [Jobs -> JobRow] /\ HasRow' /\ Alone' /\ TriesLeft' /\ SlotFound'
        /\ \A j \in Jobs : job'[j].pc \in {job[j].pc, "queued"}
    <2>1. CASE st = "running"
      <3>1. Enqueue /\ campaign' = "running"
        BY <2>1 DEF PatchStatus, Becomes
      <3>2. \A j \in Jobs : job'[j].pc \in {job[j].pc, "queued"}
        BY <3>1 DEF Enqueue, TypeOK, JobRow
      <3> QED
        BY <1>1, <1>2, <3>1, <3>2, EnqueueKeeps
    <2>2. CASE st # "running"
      <3>1. UNCHANGED job
        BY <2>2 DEF PatchStatus
      <3> QED
        BY <1>1, <1>2, <3>1
           DEF HasRow, Alone, TriesLeft, SlotFound, Live, ToDial, Row, Rows, With, TypeOK
    <2> QED
      BY <2>1, <2>2
  <1>4. Halts' /\ campaign' \in Startable \cup Ended /\ after' \in [Jobs -> Nat]
    BY <1>1, <1>3, BecomesHalts DEF Startable, Ended
  <1>5. TypeOK'
    <2>1. Rows' = Rows
      BY <1>1 DEF Rows
    <2>2. patches' \in Nat /\ deaths' \in Nat /\ patches' + deaths' <= MaxEvents
      BY <1>1, Sizes DEF TypeOK
    <2> QED
      BY <1>1, <1>2, <1>3, <1>4, <2>1, <2>2 DEF TypeOK, JobRow
  <1> QED
    BY <1>3, <1>4, <1>5

LEMMA RetryResetInv ==
  ASSUME Inv, RetryReset
  PROVE  Inv'
  <1> USE DEF Inv
  <1>1. /\ campaign # "running" /\ retrying' = TRUE
        /\ call' = [r \in Rows |-> IF r \in With("failed")
                               THEN [call[r] EXCEPT !.status = "pending", !.retries = @ + 1]
                               ELSE call[r]]
        /\ UNCHANGED <<provider, campaign, dials, job, leg, crossed, waived, after, bounds>>
    BY DEF RetryReset, MayRetry
  <1>2. Rows' = Rows
    BY <1>1 DEF Rows
  <1>3. \A r \in Rows :
          /\ call'[r] \in CallRow
          /\ \/ call'[r] = call[r]
             \/ /\ call[r].status = "failed" /\ call'[r].status = "pending"
                /\ call'[r].retries = call[r].retries + 1
    <2>1. ASSUME NEW r \in Rows, call[r].status = "failed",
                 call'[r] = [call[r] EXCEPT !.status = "pending", !.retries = @ + 1]
          PROVE  /\ call'[r] \in CallRow /\ call'[r].status = "pending"
                 /\ call'[r].retries = call[r].retries + 1
      <3>1. call[r] \in CallRow
        BY DEF TypeOK
      <3>2. /\ call[r].retries \in Nat /\ call[r].retries + 1 \in Nat
            /\ call[r] = [status |-> call[r].status, link |-> call[r].link, retries |-> call[r].retries]
        BY <3>1 DEF CallRow
      <3>3. call'[r] = [status |-> "pending", link |-> call[r].link, retries |-> call[r].retries + 1]
        BY <2>1, <3>2
      <3> QED
        BY <3>1, <3>2, <3>3 DEF CallRow, CallStatus
    <2>2. \A r \in Rows : call[r] \in CallRow
      BY DEF TypeOK
    <2> QED
      BY <1>1, <2>1, <2>2 DEF With
  <1>4. TypeOK'
    <2>1. call' \in [Rows -> CallRow]
      BY <1>1, <1>3
    <2> QED
      BY <1>1, <1>2, <2>1 DEF TypeOK, bounds, JobRow
  <1>5. Alone' /\ HasRow' /\ Halts'
    BY <1>1 DEF Alone, HasRow, Halts, Live, bounds
  <1>6. TriesLeft'
    <2>1. \A j \in Jobs : ToDial(j)' = ToDial(j)
      BY <1>1 DEF ToDial, Row
    <2>2. \A r \in Rows : call[r].retries \in Nat /\ dials[r] \in Nat
      BY DEF TypeOK, CallRow
    <2>3. ASSUME ~crossed, NEW r \in Rows
          PROVE  /\ dials[r] <= 1 + call'[r].retries
                 /\ call'[r].status = "pending" => dials[r] <= call'[r].retries
                 /\ \A j \in Jobs : r \in ToDial(j) => dials[r] <= call'[r].retries
      BY <1>3, <2>2, <2>3 DEF TriesLeft
    <2> QED
      BY <1>1, <1>2, <2>1, <2>3 DEF TriesLeft
  <1>7. SlotFound'
    <2>1. With("calling")' = With("calling")
      BY <1>2, <1>3 DEF With
    <2> QED
      BY <1>1, <2>1 DEF SlotFound
  <1> QED
    BY <1>4, <1>5, <1>6, <1>7

LEMMA RetryEnqueueInv ==
  ASSUME Inv, RetryEnqueue
  PROVE  Inv'
  <1> USE DEF Inv
  <1>1. /\ retrying /\ Becomes("running") /\ Enqueue /\ retrying' = FALSE
        /\ UNCHANGED <<provider, call, dials, leg, crossed, waived, bounds>>
    BY DEF RetryEnqueue
  <1>2. crossed \/ (Live = {} /\ ~retrying' /\ campaign' = "running")
    BY <1>1 DEF Alone, Becomes
  <1>3. job' \in [Jobs -> JobRow] /\ HasRow' /\ Alone' /\ TriesLeft' /\ SlotFound'
    BY <1>1, <1>2, EnqueueKeeps
  <1>4. \A j \in Jobs : job'[j].pc \in {job[j].pc, "queued"}
    BY <1>1 DEF Enqueue, TypeOK, JobRow
  <1>5. Halts' /\ campaign' \in Startable \cup Ended /\ after' \in [Jobs -> Nat]
    BY <1>1, <1>4, BecomesHalts DEF Startable, bounds
  <1>6. TypeOK'
    <2>1. Rows' = Rows
      BY <1>1 DEF Rows
    <2> QED
      BY <1>1, <1>3, <1>5, <2>1 DEF TypeOK, JobRow, bounds
  <1> QED
    BY <1>3, <1>5, <1>6

----------------------------------------------------------------------------
(* The dial loop. *)

(* A step of a loop that dials nothing keeps the invariant.                 *)
LEMMA LoopQuiet ==
  ASSUME Inv, NEW j \in Jobs, NEW pc, NEW todo, job[j].pc \in PcLive, Moves(j, pc, todo),
         Settles, UNCHANGED <<provider, dials, users, deaths>>,
         leg' \in [Sessions -> LegRow],
         waived => waived', waived' \in BOOLEAN, blips' \in blips .. MaxBlips,
         \/ UNCHANGED <<campaign, after>>
         \/ \E st \in Startable \cup Ended : Becomes(st) /\ (pc = "done" \/ st = "running"),
         pc \in {"wait", "place"} => after[j] <= blips',
         pc \in {"wait", "place", "link", "dial"} => todo # {}, pc = "done" => todo = {}, pc # "idle",
         \/ todo \subseteq ToDial(j) \cup With("pending")
         \/ job[j].pc = "link" /\ pc = "dial" /\ todo = job[j].todo,
         pc = "place" => waived' \/ Cardinality(With("calling")) < MaxConcurrent
  PROVE  Inv'
  <1>1. TypeOK
    BY DEF Inv
  <1>2. /\ campaign' \in Startable \cup Ended /\ after' \in [Jobs -> Nat]
        /\ pc = "done" \/ campaign' \in {campaign, "running"}
    BY <1>1 DEF Becomes, TypeOK
  <1>3. blips' \in 0 .. MaxBlips /\ blips' \in Nat /\ blips <= blips'
    BY <1>1 DEF TypeOK
  <1>4. HasRow' /\ Alone' /\ TriesLeft' /\ SlotFound'
    BY <1>2, LoopKeeps
  <1>5. Halts'
    BY <1>3, LoopHalts
  <1>6. TypeOK'
    BY <1>1, <1>2, <1>3 DEF TypeOK, Moves, Settles, users, JobRow
  <1> QED
    BY <1>4, <1>5, <1>6 DEF Inv

LEMMA StartJobInv ==
  ASSUME Inv, NEW j \in Jobs, StartJob(j)
  PROVE  Inv'
  <1>1. /\ TypeOK /\ Settles /\ job[j].pc \in PcLive
        /\ UNCHANGED <<provider, dials, users, deaths, leg, waived, blips>>
        /\ waived' \in BOOLEAN /\ leg' \in [Sessions -> LegRow] /\ blips' \in blips .. MaxBlips
    BY UnchangedSettles DEF StartJob, Inv, TypeOK, PcLive
  <1>2. CASE campaign \in Startable
    <2>1. Becomes("running") /\ job' = [job EXCEPT ![j].pc = "gate", ![j].todo = Snapshot]
      BY <1>2 DEF StartJob
    <2>2. Moves(j, "gate", With("pending"))
      BY <1>1, <2>1 DEF Moves, TypeOK, JobRow, PcLive, Snapshot, With
    <2> QED
      BY <1>1, <2>1, <2>2, LoopQuiet DEF Startable
  <1>3. CASE campaign \notin Startable
    <2>1. Becomes("failed") /\ Moves(j, "done", {})
      BY <1>1, <1>3, EndMoves DEF StartJob
    <2> QED
      BY <1>1, <2>1, LoopQuiet DEF Ended
  <1> QED
    BY <1>2, <1>3

LEMMA GateInv ==
  ASSUME Inv, NEW j \in Jobs, Gate(j)
  PROVE  Inv'
  <1>1. /\ TypeOK /\ job[j].pc \in PcLive /\ ToDial(j) = job[j].todo
        /\ UNCHANGED <<provider, dials, users, deaths, leg, waived, blips>>
        /\ waived' \in BOOLEAN /\ leg' \in [Sessions -> LegRow] /\ blips' \in blips .. MaxBlips
    BY DEF Gate, Inv, TypeOK, PcLive, ToDial
  <1>2. CASE Goto(j, "check") /\ UNCHANGED <<campaign, call, after>>
    <2>1. Moves(j, "check", job[j].todo) /\ Settles
      BY <1>1, <1>2, GotoMoves, UnchangedSettles DEF Pcs, PcLive
    <2> QED
      BY <1>1, <1>2, <2>1, LoopQuiet
  <1>3. CASE Becomes("failed") /\ call' = To(job[j].todo, "failed") /\ End(j)
    <2>1. Moves(j, "done", {}) /\ Settles
      BY <1>1, <1>3, EndMoves, ToSettles DEF CallStatus
    <2> QED
      BY <1>1, <1>3, <2>1, LoopQuiet DEF Ended
  <1> QED
    BY <1>2, <1>3 DEF Gate

(* What a read of the status has to do with the calls placed since. *)
LEMMA StatusRead ==
  ASSUME Inv, NEW seen, ReadStatus(seen), NEW j \in Jobs
  PROVE  /\ blips' \in blips .. MaxBlips
         /\ seen = "running" => after[j] <= blips'
  <1>1. /\ blips \in 0 .. MaxBlips /\ after[j] \in Nat /\ after[j] <= 1 + blips
        /\ campaign = "running" => after[j] = 0
    BY DEF Inv, TypeOK, Halts
  <1>2. CASE seen = campaign /\ UNCHANGED blips
    BY <1>1, <1>2
  <1>3. CASE blips < MaxBlips /\ blips' = blips + 1
    BY <1>1, <1>3, Sizes
  <1> QED
    BY <1>2, <1>3 DEF ReadStatus

LEMMA CheckStatusInv ==
  ASSUME Inv, NEW j \in Jobs, CheckStatus(j)
  PROVE  Inv'
  <1>1. /\ TypeOK /\ Settles /\ job[j].pc \in PcLive /\ ToDial(j) = job[j].todo
        /\ job[j].todo # {}
        /\ UNCHANGED <<provider, campaign, dials, leg, waived, after, users, deaths>>
        /\ waived' \in BOOLEAN /\ leg' \in [Sessions -> LegRow]
    BY UnchangedSettles DEF CheckStatus, Inv, TypeOK, PcLive, ToDial
  <1>2. PICK seen \in {campaign, "running"} :
          /\ ReadStatus(seen)
          /\ IF seen = "running" THEN job' = [job EXCEPT ![j].pc = "wait", ![j].ticks = 0]
             ELSE IF seen \in Ended THEN Goto(j, "skip") ELSE End(j)
    BY DEF CheckStatus
  <1>3. blips' \in blips .. MaxBlips /\ (seen = "running" => after[j] <= blips')
    BY <1>2, StatusRead
  <1>4. CASE seen = "running"
    <2>1. Moves(j, "wait", job[j].todo)
      BY <1>1, <1>2, <1>4 DEF Moves, TypeOK, JobRow, PcLive
    <2> QED
      BY <1>1, <1>3, <1>4, <2>1, LoopQuiet
  <1>5. CASE seen # "running"
    <2>1. Moves(j, "skip", job[j].todo) \/ Moves(j, "done", {})
      BY <1>1, <1>2, <1>5, GotoMoves, EndMoves DEF Pcs, PcLive
    <2> QED
      BY <1>1, <1>3, <2>1, LoopQuiet
  <1> QED
    BY <1>4, <1>5

LEMMA WaitForSlotInv ==
  ASSUME Inv, NEW j \in Jobs, WaitForSlot(j)
  PROVE  Inv'
  <1>1. /\ TypeOK /\ Settles /\ job[j].pc \in PcLive /\ ToDial(j) = job[j].todo
        /\ job[j].todo # {} /\ after[j] <= blips /\ after[j] \in Nat /\ blips \in 0 .. MaxBlips
        /\ UNCHANGED <<provider, campaign, dials, leg, after, users, deaths>>
        /\ leg' \in [Sessions -> LegRow]
    BY UnchangedSettles DEF WaitForSlot, Inv, TypeOK, PcLive, ToDial, HasRow, Halts
  <1>2. CASE Goto(j, "place") /\ waived' = TRUE /\ UNCHANGED blips
    <2>1. Moves(j, "place", job[j].todo)
      BY <1>1, <1>2, GotoMoves DEF Pcs, PcLive
    <2> QED
      BY <1>1, <1>2, <2>1, LoopQuiet
  <1>3. CASE SlotFree /\ Goto(j, "place") /\ UNCHANGED <<waived, blips>>
    <2>1. Moves(j, "place", job[j].todo) /\ waived' \in BOOLEAN
      BY <1>1, <1>3, GotoMoves DEF Pcs, PcLive, TypeOK
    <2> QED
      BY <1>1, <1>3, <2>1, LoopQuiet DEF SlotFree
  <1>4. CASE \E seen \in {campaign, "running"} :
                /\ ReadStatus(seen)
                /\ IF seen = "running"
                   THEN job' = [job EXCEPT ![j].ticks = Polled(@)] /\ UNCHANGED waived
                   ELSE Goto(j, "place") /\ waived' = TRUE
    <2>1. PICK seen \in {campaign, "running"} :
                /\ ReadStatus(seen)
                /\ IF seen = "running"
                   THEN job' = [job EXCEPT ![j].ticks = Polled(@)] /\ UNCHANGED waived
                   ELSE Goto(j, "place") /\ waived' = TRUE
      BY <1>4
    <2>2. blips' \in blips .. MaxBlips /\ after[j] <= blips'
      <3>1. blips' \in blips .. MaxBlips
        BY <2>1, StatusRead
      <3> QED
        BY <1>1, <3>1
    <2>3. CASE seen = "running"
      <3>1. Moves(j, "wait", job[j].todo) /\ waived' = waived
        BY <1>1, <2>1, <2>3 DEF Moves, TypeOK, JobRow, Polled, WaitForSlot
      <3> QED
        BY <1>1, <2>2, <3>1, LoopQuiet DEF TypeOK
    <2>4. CASE seen # "running"
      <3>1. Moves(j, "place", job[j].todo) /\ waived' = TRUE
        BY <1>1, <2>1, <2>4, GotoMoves DEF Pcs, PcLive
      <3> QED
        BY <1>1, <2>2, <3>1, LoopQuiet
    <2> QED
      BY <2>3, <2>4
  <1> QED
    BY <1>2, <1>3, <1>4 DEF WaitForSlot

(* A row is marked "calling": its try is spent, and it takes the slot that  *)
(* was found for it.                                                        *)
LEMMA MarkCallingInv ==
  ASSUME Inv, NEW j \in Jobs, MarkCalling(j)
  PROVE  Inv'
  <1> DEFINE r == Row(j)
  <1>1. /\ TypeOK /\ job[j].pc = "place" /\ job[j].pc \in PcLive /\ ToDial(j) = job[j].todo
        /\ job[j].todo # {} /\ after[j] <= blips
        /\ UNCHANGED <<provider, campaign, leg, waived, users, blips, deaths>>
        /\ leg' \in [Sessions -> LegRow] /\ waived' \in BOOLEAN /\ blips' \in blips .. MaxBlips
    BY DEF MarkCalling, Inv, TypeOK, PcLive, ToDial, HasRow, Halts
  <1>2. r \in job[j].todo /\ r \in Rows
    <2>1. job[j].todo \in SUBSET Rows
      BY <1>1 DEF TypeOK, JobRow
    <2>2. Rows \in SUBSET Nat
      <3>1. Rows \subseteq 1 .. NumRows
        BY <1>1 DEF TypeOK
      <3> QED
        BY <3>1, Sizes
    <2> QED
      BY <1>1, <2>1, <2>2, RowOnList
  <1>3. CASE SetStatus(r, "failed") /\ NextRow(j) /\ UNCHANGED <<dials, after>>
    <2>1. Settles /\ Moves(j, "check", job[j].todo \ {Row(j)})
      BY <1>1, <1>3, SetStatusSettles, NextRowMoves DEF CallStatus
    <2> QED
      BY <1>1, <1>3, <2>1, LoopQuiet
  <1>4. CASE /\ SetStatus(r, "calling")
             /\ dials' = [dials EXCEPT ![r] = @ + 1]
             /\ job' = [job EXCEPT ![j].pc = "link", ![j].session = dials[r] + 1]
             /\ after' = IF campaign = "running" THEN after ELSE [after EXCEPT ![j] = @ + 1]
    <2>1. Moves(j, "link", job[j].todo)
      <3>1. dials[r] + 1 \in Nat
        <4>1. dials \in [Rows -> Nat]
          BY <1>1 DEF TypeOK
        <4>2. dials[r] \in Nat
          BY <1>2, <4>1
        <4> QED
          BY <4>2
      <3> HIDE DEF r
      <3> QED
        BY <1>1, <1>4, <3>1 DEF Moves, TypeOK, JobRow, PcLive
    <2>2. /\ Rows' = Rows /\ call' \in [Rows -> CallRow]
          /\ \A q \in Rows : call'[q].retries = call[q].retries
          /\ \A q \in Rows \ {r} : call'[q] = call[q]
          /\ call'[r].status = "calling"
      BY <1>1, <1>2, <1>4 DEF SetStatus, Rows, TypeOK, CallRow, CallStatus
    <2>3. /\ dials' \in [Rows -> Nat] /\ dials'[r] = dials[r] + 1
          /\ \A q \in Rows \ {r} : dials'[q] = dials[q]
      BY <1>1, <1>2, <1>4 DEF TypeOK
    <2>4. /\ after' \in [Jobs -> Nat]
          /\ after'[j] <= 1 + blips /\ (campaign = "running" => after' = after)
          /\ \A i \in Jobs \ {j} : after'[i] = after[i]
      BY <1>1, <1>4 DEF TypeOK, Inv, Halts
    <2> HIDE DEF r
    <2>5. TypeOK'
      BY <1>1, <2>1, <2>2, <2>3, <2>4 DEF TypeOK, Moves, users, JobRow
    <2>6. HasRow'
      BY <1>1, <2>1 DEF Inv, HasRow, Moves
    <2>7. Live' = Live
      BY <1>1, <2>1 DEF Live, Moves
    <2>8. Alone'
      BY <1>1, <2>7 DEF Inv, Alone, users
    <2>9. Halts'
      BY <1>1, <2>1, <2>4 DEF Inv, Halts, Moves
    <2>10. TriesLeft'
      <3> SUFFICES ASSUME ~crossed, NEW q \in Rows
                   PROVE  /\ dials'[q] <= 1 + call'[q].retries
                          /\ call'[q].status = "pending" => dials'[q] <= call'[q].retries
                          /\ \A i \in Jobs : q \in ToDial(i)' => dials'[q] <= call'[q].retries
        BY <1>1, <2>2 DEF TriesLeft, users
      <3>1. ToDial(j)' = job[j].todo \ {r}
        BY <2>1 DEF ToDial, Row, Moves, r
      <3>2. CASE q = r
        <4>1. dials[r] <= call[r].retries /\ dials[r] \in Nat /\ call[r].retries \in Nat
          BY <1>1, <1>2 DEF Inv, TriesLeft, TypeOK, CallRow
        <4>2. ASSUME NEW i \in Jobs, r \in ToDial(i)' PROVE FALSE
          <5>1. i # j
            BY <3>1, <4>2
          <5>2. job[i].pc \in {"idle", "done"} \/ i \in Live
            BY DEF Live
          <5>3. i \notin Live
            BY <1>1, <5>1 DEF Inv, Alone, Live
          <5>4. ToDial(i)' = {}
            BY <2>1, <5>1, <5>2, <5>3 DEF ToDial, Moves, Inv, HasRow
          <5> QED
            BY <4>2, <5>1, <5>4
        <4> QED
          BY <2>2, <2>3, <3>2, <4>1, <4>2
      <3>3. CASE q # r
        <4>1. \A i \in Jobs : q \in ToDial(i)' => q \in ToDial(i)
          <5>1. \A i \in Jobs \ {j} : ToDial(i)' = ToDial(i)
            BY <2>1 DEF ToDial, Row, Moves
          <5> QED
            BY <1>1, <3>1, <5>1
        <4> QED
          BY <2>2, <2>3, <3>3, <4>1 DEF Inv, TriesLeft
      <3> QED
        BY <3>2, <3>3
    <2>11. SlotFound'
      <3> SUFFICES ASSUME ~crossed, ~waived
                   PROVE  /\ Cardinality(With("calling")') <= MaxConcurrent
                          /\ \A i \in Jobs : job'[i].pc # "place"
        BY <1>1 DEF SlotFound, users
      <3>1. Cardinality(With("calling")) < MaxConcurrent
        BY <1>1 DEF Inv, SlotFound
      <3>2. /\ With("calling") \subseteq Rows
            /\ With("calling")' = With("calling") \cup {r}
        BY <1>2, <2>2 DEF With
      <3>3. Cardinality(With("calling")') <= Cardinality(With("calling")) + 1
            /\ Cardinality(With("calling")) \in Nat /\ Cardinality(With("calling")') \in Nat
        <4>1. With("calling")' \subseteq Rows
          BY <1>2, <3>2
        <4> QED
          BY <1>1, <1>2, <3>2, <4>1, Counted
      <3>4. ASSUME NEW i \in Jobs, job'[i].pc = "place" PROVE FALSE
        <4>1. i # j /\ job[i].pc = "place"
          BY <2>1, <3>4 DEF Moves
        <4> QED
          BY <1>1, <4>1 DEF Inv, Alone, Live
      <3> QED
        BY <3>1, <3>3, <3>4, Sizes
    <2> QED
      BY <2>5, <2>6, <2>8, <2>9, <2>10, <2>11 DEF Inv
  <1> QED
    BY <1>3, <1>4 DEF MarkCalling

LEMMA PlacementInv ==
  ASSUME Inv, NEW j \in Jobs,
         NoNumber(j) \/ LinkSession(j) \/ PlaceCall(j) \/ PlacementError(j)
  PROVE  Inv'
  <1>1. /\ TypeOK /\ job[j].pc \in {"link", "dial"} /\ job[j].pc \in PcLive
        /\ ToDial(j) = job[j].todo \ {Row(j)} /\ job[j].todo # {}
        /\ UNCHANGED <<provider, campaign, dials, waived, after, users, blips, deaths>>
        /\ waived' \in BOOLEAN /\ blips' \in blips .. MaxBlips
    BY DEF NoNumber, LinkSession, PlaceCall, PlacementError, Inv, TypeOK, PcLive, ToDial, HasRow
  <1>2. leg' \in [Sessions -> LegRow]
    <2>1. CASE \E s : Ring(s)
      BY <1>1, <2>1 DEF Ring, TypeOK, LegRow
    <2>2. CASE UNCHANGED leg
      BY <1>1, <2>2 DEF TypeOK
    <2> QED
      BY <2>1, <2>2 DEF NoNumber, LinkSession, PlaceCall, PlacementError
  <1>3. CASE NoNumber(j) \/ PlaceCall(j) \/ PlacementError(j)
    <2>1. Settles
      BY <1>1, <1>3, SetStatusSettles, UnchangedSettles
         DEF NoNumber, PlaceCall, PlacementError, CallStatus
    <2>2. Moves(j, "check", job[j].todo \ {Row(j)})
      BY <1>1, <1>3, NextRowMoves DEF NoNumber, PlaceCall, PlacementError
    <2> QED
      BY <1>1, <1>2, <2>1, <2>2, LoopQuiet
  <1>4. CASE LinkSession(j)
    <2>1. job[j].session \in Nat /\ call \in [Rows -> CallRow]
      BY <1>1 DEF TypeOK, JobRow
    <2>2. Settles
      BY <1>4, <2>1 DEF LinkSession, Settles, Rows, CallRow
    <2>3. Moves(j, "dial", job[j].todo) /\ job[j].pc = "link"
      BY <1>1, <1>4, GotoMoves DEF LinkSession, Pcs, PcLive
    <2> QED
      BY <1>1, <1>2, <2>2, <2>3, LoopQuiet
  <1> QED
    BY <1>3, <1>4

LEMMA LoopEndsInv ==
  ASSUME Inv, NEW j \in Jobs, SkipRest(j) \/ FinishCampaign(j) \/ LoopFails(j)
  PROVE  Inv'
  <1>1. /\ TypeOK /\ job[j].pc \in PcLive /\ Moves(j, "done", {})
        /\ UNCHANGED <<provider, dials, leg, waived, users, blips, deaths>>
        /\ waived' \in BOOLEAN /\ blips' \in blips .. MaxBlips /\ leg' \in [Sessions -> LegRow]
    BY EndMoves DEF SkipRest, FinishCampaign, LoopFails, Inv, TypeOK, PcLive
  <1>2. Settles
    BY <1>1, ToSettles, UnchangedSettles DEF SkipRest, FinishCampaign, LoopFails, CallStatus
  <1>3. \/ UNCHANGED <<campaign, after>>
        \/ \E st \in Startable \cup Ended : Becomes(st)
    BY DEF SkipRest, FinishCampaign, LoopFails, Ended
  <1> QED
    BY <1>1, <1>2, <1>3, LoopQuiet

LEMMA WorkerDiesInv ==
  ASSUME Inv, NEW j \in Jobs, WorkerDies(j)
  PROVE  Inv'
  <1>1. /\ TypeOK /\ Settles /\ job[j].pc \in PcLive
        /\ patches + deaths < MaxEvents /\ deaths' = deaths + 1
        /\ job' = [job EXCEPT ![j] = [Idle EXCEPT !.pc = "queued"]]
        /\ after' = [after EXCEPT ![j] = 0]
        /\ UNCHANGED <<provider, campaign, call, dials, leg, waived, users, blips>>
    BY UnchangedSettles DEF WorkerDies, MoreEvents, Inv, TypeOK, JobRow
  <1>2. Moves(j, "queued", {})
    BY <1>1 DEF Moves, Idle, TypeOK, JobRow, PcLive
  <1>3. HasRow' /\ Alone' /\ TriesLeft' /\ SlotFound'
    BY <1>1, <1>2, LoopKeeps DEF TypeOK
  <1>4. Halts'
    BY <1>1, <1>2 DEF Inv, Halts, Moves, TypeOK
  <1>5. TypeOK'
    <2>1. deaths' \in Nat /\ patches' + deaths' <= MaxEvents
      BY <1>1, Sizes DEF TypeOK, users
    <2>2. Rows' = Rows
      BY <1>1 DEF Rows
    <2> QED
      BY <1>1, <1>2, <2>1, <2>2 DEF TypeOK, Moves, users, JobRow
  <1> QED
    BY <1>3, <1>4, <1>5 DEF Inv

----------------------------------------------------------------------------
(* The provider, its callbacks and the media stream.                        *)

LEMMA OutsideInv ==
  ASSUME Inv, Settles, leg' \in [Sessions -> LegRow], UNCHANGED LoopOnly
  PROVE  Inv'
  <1>1. /\ TypeOK /\ Rows' = Rows
        /\ UNCHANGED <<provider, campaign, dials, job, waived, after, retrying, crossed, patches,
                       blips, deaths>>
    BY DEF Inv, Settles, LoopOnly, users
  <1>2. TypeOK'
    BY <1>1 DEF TypeOK, Settles, JobRow
  <1>3. HasRow' /\ Alone' /\ Halts'
    BY <1>1 DEF Inv, HasRow, Alone, Live, Halts
  <1>4. TriesLeft'
    <2>1. \A j \in Jobs : ToDial(j)' = ToDial(j)
      BY <1>1 DEF ToDial, Row
    <2> QED
      BY <1>1, <2>1 DEF Inv, TriesLeft, Settles
  <1>5. SlotFound'
    BY <1>1, SettlesFrees, Sizes DEF Inv, SlotFound
  <1> QED
    BY <1>2, <1>3, <1>4, <1>5 DEF Inv

LEMMA PhaseKeepsLegs ==
  ASSUME TypeOK, NEW s \in Sessions, NEW from, NEW to \in {"talking", "missed", "ended"},
         Phase(s, from, to)
  PROVE  leg' \in [Sessions -> LegRow]
  BY DEF Phase, TypeOK, LegRow

LEMMA ProviderInv ==
  ASSUME Inv, NEW s \in Sessions,
         \/ Answers(s) \/ RingEnds(s) \/ CallEnds(s)
         \/ MachineAnswers(s) \/ CallbackReads(s) \/ CallbackWrites(s)
         \/ CleanupReads(s) \/ CleanupWrites(s)
  PROVE  Inv'
  <1>1. TypeOK /\ UNCHANGED LoopOnly
    BY DEF Inv, Answers, RingEnds, CallEnds, MachineAnswers, CallbackReads, CallbackWrites,
           CleanupReads, CleanupWrites
  <1>2. Settles
    <2>1. CASE UNCHANGED call
      BY <1>1, <2>1, UnchangedSettles
    <2>2. CASE \E st \in {"completed", "failed", "completed-voicemail"} : SetStatus(s[1], st)
      BY <1>1, <2>2, SetStatusSettles DEF CallStatus
    <2> QED
      BY <2>1, <2>2 DEF Answers, RingEnds, CallEnds, MachineAnswers, CallbackReads, CallbackWrites,
                        CleanupReads, CleanupWrites
  <1>3. leg' \in [Sessions -> LegRow]
    <2>1. CASE Answers(s) \/ RingEnds(s) \/ CallEnds(s) \/ MachineAnswers(s)
      BY <1>1, <2>1, PhaseKeepsLegs DEF Answers, RingEnds, CallEnds, MachineAnswers, TypeOK
    <2>2. CASE CallbackReads(s) \/ CallbackWrites(s)
      BY <1>1, <2>2 DEF CallbackReads, CallbackWrites, TypeOK, LegRow
    <2>3. CASE CleanupReads(s) \/ CleanupWrites(s)
      BY <1>1, <2>3 DEF CleanupReads, CleanupWrites, TypeOK, LegRow
    <2> QED
      BY <2>1, <2>2, <2>3
  <1> QED
    BY <1>1, <1>2, <1>3, OutsideInv

----------------------------------------------------------------------------
(* The theorems. *)

LEMMA NextInv ==
  ASSUME Inv, [Next]_vars
  PROVE  Inv'
  <1>1. CASE Users
    BY <1>1, PatchStatusInv, RetryResetInv, RetryEnqueueInv DEF Users
  <1>2. CASE Worker
    BY <1>2, StartJobInv, GateInv, CheckStatusInv, WaitForSlotInv, MarkCallingInv, PlacementInv,
       LoopEndsInv, WorkerDiesInv DEF Worker, LoopStep
  <1>3. CASE Provider \/ Gateway
    BY <1>3, ProviderInv DEF Provider, Gateway
  <1>4. CASE UNCHANGED vars
    <2>1. UNCHANGED LoopOnly /\ UNCHANGED <<call, leg>>
      BY <1>4 DEF vars, LoopOnly, users
    <2>2. TypeOK /\ Settles /\ leg' \in [Sessions -> LegRow]
      BY <2>1, UnchangedSettles DEF Inv, TypeOK
    <2> QED
      BY <2>1, <2>2, OutsideInv
  <1> QED
    BY <1>1, <1>2, <1>3, <1>4 DEF Next

(* The invariant holds throughout.                                          *)
LEMMA InvHolds == Spec => []Inv
  BY InitInv, NextInv, PTL DEF Spec

(* Every variable of the campaign, its calls, loops and legs keeps its type.*)
THEOREM CampaignTypeCorrect == Spec => []TypeOK
  BY InvHolds, PTL DEF Inv

(* A call is dialled once for each try (MarkCalling before the placement,   *)
(* the snapshot of pending calls), through any number of worker deaths and  *)
(* late callbacks, unless a user crosses a running loop.                    *)
THEOREM DialsOncePerTry == Spec => []DialledOncePerTry
  <1>1. Inv => DialledOncePerTry
    BY DEF Inv, TriesLeft, DialledOncePerTry
  <1> QED
    BY <1>1, InvHolds, PTL

(* No more than max_concurrent_calls are under way (the count of calls and  *)
(* the wait of _wait_for_concurrency_slot), unless a wait was given up or a *)
(* user crosses a running loop.                                             *)
THEOREM RespectsSlots == Spec => []SlotsRespected
  <1>1. Inv => SlotsRespected
    BY DEF Inv, SlotFound, SlotsRespected
  <1> QED
    BY <1>1, InvHolds, PTL

(* A pause or a stop lets a loop place one call more, and one for every     *)
(* failed read of the status - also when users start several loops.         *)
THEOREM PauseHoldsLoops == Spec => []PauseHolds
  <1>1. Inv => PauseHolds
    BY DEF Inv, Halts, PauseHolds
  <1> QED
    BY <1>1, InvHolds, PTL
=============================================================================
