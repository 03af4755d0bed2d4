------------------------- MODULE EventOutbox_proofs -------------------------
(****************************************************************************)
(* Theorems about EventOutbox, for any attempts, events, requests in flight *)
(* and mishaps.                                                             *)
(****************************************************************************)
EXTENDS EventOutbox, WellFoundedInduction, TLAPS

Busy == {"sent", "open", "ok", "refused", "failed"}

TypeOK ==
    /\ cur \in Attempts \cup {Nobody}
    /\ recorded \in [Attempts -> Nat] /\ base \in [Attempts -> Nat]
    /\ owner \in [Attempts -> {0, 1, 2}]
    /\ total \in Nat /\ rep \in {1, 2} /\ mishaps \in 0 .. MaxMishaps
    /\ kept \in [Attempts -> SUBSET Nat] /\ unsent \in [Attempts -> SUBSET Nat]
    /\ lost \in [Attempts -> SUBSET Nat]
    /\ flush \in [by : Callers \cup {Nobody}, todo : SUBSET Attempts,
                  batch : [Attempts -> SUBSET Nat], req : Requests \cup {Nobody},
                  allOk : BOOLEAN]
    /\ waiting \subseteq Callers
    /\ work \in {"none", "scheduled", "running", "succeeding", "retrying"}
    /\ swallowed \in BOOLEAN
    /\ req \in [Requests -> [at : Busy \cup {"free"}, att : Attempts \cup {Nobody},
                             seqs : SUBSET Nat, rep : {0, 1, 2},
                             left : SUBSET Nat, got : SUBSET Nat]]
    /\ applied \in [Attempts -> SUBSET Nat]

(* What precedes an event of S is in S or in A. *)
Closed(S, A) == \A n \in S : \A k \in 1 .. n : k \in S \cup A

(* The rows of the table, and the numbers that NextSeq will give.           *)
Table ==
    /\ \A a \in Attempts : unsent[a] \subseteq kept[a] /\ kept[a] \subseteq 1 .. recorded[a]
    /\ \A a \in Attempts : owner[a] = 0 => recorded[a] = 0 /\ lost[a] = {}
    /\ cur # Nobody => /\ owner[cur] = rep /\ lost[cur] = {}
                       /\ base[cur] + recorded[cur] = total
                       /\ recorded[cur] > 0 => recorded[cur] \in kept[cur]

(* Events are given up only for good. *)
LostForGood ==
    \A a \in Attempts : /\ owner[a] <= rep
                        /\ lost[a] # {} /\ owner[a] = rep => unsent[a] = {}

(* What the server has committed is a beginning of what was recorded. *)
Beginning == \A a \in Attempts : applied[a] \subseteq 1 .. recorded[a] /\ Closed(applied[a], {})

(* What a flush holds, and what a request carries, continues it - if the    *)
(* server will take it.                                                     *)
BatchFits ==
    \A a \in flush.todo :
        /\ flush.batch[a] \subseteq 1 .. recorded[a] /\ flush.batch[a] # {}
        /\ owner[a] = rep => Closed(flush.batch[a], applied[a])

RequestFits ==
    \A q \in Requests : req[q].at \in Busy =>
        LET a == req[q].att IN
        /\ a \in Attempts
        /\ owner[a] # 0 /\ owner[a] <= req[q].rep /\ req[q].rep <= rep
        /\ req[q].seqs \subseteq 1 .. recorded[a]
        /\ req[q].at \in {"sent", "open"} /\ req[q].rep = owner[a] => Closed(req[q].seqs, applied[a])

(* Where a request is. *)
RequestAt ==
    \A q \in Requests :
        LET a == req[q].att IN
        /\ req[q].at = "sent" => req[q].left = req[q].seqs /\ req[q].got = {}
        /\ req[q].at = "open" => /\ req[q].rep = owner[a]
                                 /\ req[q].left \subseteq req[q].seqs /\ req[q].got \subseteq req[q].seqs
                                 /\ req[q].seqs \subseteq req[q].left \cup req[q].got \cup applied[a]
        /\ req[q].at = "ok" => req[q].seqs \subseteq applied[a]
        /\ req[q].at = "refused" => owner[a] # req[q].rep
        /\ req[q].at = "free" => req[q] = Free

(* The post that the flush waits for. *)
Posted ==
    flush.req # Nobody =>
        LET q == flush.req IN
        /\ req[q].at \in Busy /\ req[q].att \in flush.todo
        /\ req[q].seqs = flush.batch[req[q].att]

Inv == /\ TypeOK /\ Table /\ LostForGood /\ Beginning /\ BatchFits /\ RequestFits
       /\ RequestAt /\ Posted /\ NothingForgotten /\ AppliedOnce

----------------------------------------------------------------------------
(* Numbers. *)

(* A set of numbers that is not empty has a smallest, which Smallest picks. *)
LEMMA SmallestIn ==
  ASSUME NEW S \in SUBSET Nat, S # {}
  PROVE  Smallest(S) \in S /\ \A k \in S : Smallest(S) <= k
  <1> DEFINE Less == OpToRel(<, Nat)
  <1>1. \A x, y \in Nat : x < y => <<x, y>> \in Less
    BY DEF OpToRel
  <1>2. IsWellFoundedOn(Less, Nat)
    BY NatLessThanWellFounded
  <1> HIDE DEF Less
  <1>3. PICK x \in S : \A y \in S : ~ (<<y, x>> \in Less)
    BY <1>2, WFMin, Zenon
  <1>4. \A y \in S : x <= y
    <2>1. ASSUME NEW y \in S PROVE x <= y
      <3>1. ~ (y < x)
        BY <1>1, <1>3
      <3> QED
        BY <3>1
    <2> QED
      BY <2>1
  <1> QED
    BY <1>4 DEF Smallest

(* A set below N that holds what precedes its members is 1 .. n.            *)
LEMMA InitialSegment ==
  ASSUME NEW N \in Nat, NEW S \in SUBSET (1 .. N), Closed(S, {})
  PROVE  \E n \in 0 .. N : S = 1 .. n
  <1> DEFINE Gaps == {n \in Nat : n + 1 \notin S}
  <1>1. N \in Gaps
    OBVIOUS
  <1>2. /\ Smallest(Gaps) \in Gaps
        /\ \A k \in Gaps : Smallest(Gaps) <= k
    BY <1>1, SmallestIn
  <1> DEFINE n == Smallest(Gaps)
  <1>3. n \in 0 .. N /\ n + 1 \notin S
    BY <1>1, <1>2
  <1>4. \A k \in Nat : k < n => k + 1 \in S
    BY <1>2, <1>3
  <1> HIDE DEF n
  <1>5. 1 .. n \subseteq S
    <2>1. ASSUME NEW i \in 1 .. n PROVE i \in S
      <3>1. i - 1 \in Nat /\ i - 1 < n /\ (i - 1) + 1 = i
        BY <1>3
      <3> QED
        BY <3>1, <1>4
    <2> QED
      BY <2>1
  <1>6. S \subseteq 1 .. n
    <2>1. ASSUME NEW i \in S, i > n PROVE FALSE
      <3>1. n + 1 \in 1 .. i
        BY <1>3, <2>1
      <3> QED
        BY <3>1, <1>3 DEF Closed
    <2> QED
      BY <2>1, <1>3
  <1> QED
    BY <1>3, <1>5, <1>6

(* The next number of the current attempt is the number of its events so    *)
(* far plus one, whatever prune has deleted.                                *)
LEMMA NextSeqCounts ==
  ASSUME TypeOK, Table, cur # Nobody
  PROVE  NextSeq(cur) = recorded[cur] + 1
  <1>1. /\ cur \in Attempts /\ recorded[cur] \in Nat
        /\ kept[cur] \subseteq 1 .. recorded[cur]
        /\ recorded[cur] > 0 => recorded[cur] \in kept[cur]
    BY DEF TypeOK, Table
  <1>2. CASE kept[cur] = {}
    BY <1>1, <1>2 DEF NextSeq
  <1>3. CASE kept[cur] # {}
    <2>1. recorded[cur] \in kept[cur] /\ \A k \in kept[cur] : k <= recorded[cur]
      BY <1>1, <1>3
    <2>2. Largest(kept[cur]) \in kept[cur] /\ \A k \in kept[cur] : k <= Largest(kept[cur])
      BY <2>1 DEF Largest
    <2>3. Largest(kept[cur]) = recorded[cur]
      BY <1>1, <2>1, <2>2
    <2> QED
      BY <1>3, <2>3 DEF NextSeq
  <1> QED
    BY <1>2, <1>3

----------------------------------------------------------------------------
(* The app. *)

LEMMA InitInv == Init => Inv
  <1> SUFFICES ASSUME Init PROVE Inv
    OBVIOUS
  <1> USE DEF Init, NoEvents, Idle, Free
  <1>1. TypeOK
    <2>1. mishaps \in 0 .. MaxMishaps
      BY OutboxAssumption
    <2>2. flush \in [by : Callers \cup {Nobody}, todo : SUBSET Attempts,
                     batch : [Attempts -> SUBSET Nat], req : Requests \cup {Nobody},
                     allOk : BOOLEAN]
      OBVIOUS
    <2>3. \A q \in Requests : req[q] \in [at : Busy \cup {"free"}, att : Attempts \cup {Nobody},
                                         seqs : SUBSET Nat, rep : {0, 1, 2},
                                         left : SUBSET Nat, got : SUBSET Nat]
      OBVIOUS
    <2> QED
      BY <2>1, <2>2, <2>3 DEF TypeOK
  <1>2. Table /\ LostForGood /\ Beginning /\ BatchFits /\ Posted
    BY DEF Table, LostForGood, Beginning, BatchFits, Posted, Closed
  <1>3. RequestFits /\ RequestAt
    BY DEF RequestFits, RequestAt, Busy
  <1>4. NothingForgotten /\ AppliedOnce
    BY DEF NothingForgotten, AppliedOnce
  <1> QED
    BY <1>1, <1>2, <1>3, <1>4 DEF Inv

LEMMA BeginAttemptInv ==
  ASSUME Inv, NEW a \in Attempts, BeginAttempt(a)
  PROVE  Inv'
  <1> USE DEF Inv, BeginAttempt, tableVars, flushVars, serverVars
  <1>1. TypeOK'
    BY DEF TypeOK
  <1>2. recorded[a] = 0 /\ lost[a] = {} /\ unsent[a] = {}
    BY DEF Table, TypeOK
  <1>3. Table'
    BY <1>2, OutboxAssumption DEF Table, TypeOK
  <1>4. LostForGood'
    BY <1>2 DEF LostForGood, TypeOK
  <1>5. Beginning' /\ Posted' /\ NothingForgotten' /\ AppliedOnce'
    BY DEF Beginning, Posted, NothingForgotten, AppliedOnce, Inserted
  <1>6. BatchFits'
    <2>1. a \notin flush.todo
      BY <1>2 DEF BatchFits
    <2> QED
      BY <2>1 DEF BatchFits, TypeOK
  <1>7. \A q \in Requests : req[q].at \in Busy => req[q].att # a
    BY DEF RequestFits
  <1>8. RequestFits'
    BY <1>7 DEF RequestFits, TypeOK
  <1>9. RequestAt'
    BY <1>7 DEF RequestAt, TypeOK, Busy
  <1> QED
    BY <1>1, <1>3, <1>4, <1>5, <1>6, <1>8, <1>9

LEMMA RecordInv ==
  ASSUME Inv, NEW urgent \in BOOLEAN, Record(urgent)
  PROVE  Inv'
  <1> DEFINE seq == recorded[cur] + 1
  <1> USE DEF Inv
  <1>1. /\ cur \in Attempts /\ recorded[cur] \in Nat /\ seq \in Nat
        /\ owner[cur] = rep /\ lost[cur] = {} /\ base[cur] + recorded[cur] = total
    BY DEF Record, TypeOK, Table
  <1>2. /\ kept' = [kept EXCEPT ![cur] = kept[cur] \cup {seq}]
        /\ unsent' = [unsent EXCEPT ![cur] = unsent[cur] \cup {seq}]
        /\ recorded' = [recorded EXCEPT ![cur] = seq]
        /\ total' = total + 1 /\ cur' \in {cur, Nobody}
        /\ waiting' \subseteq waiting \cup {"urgent", "launched"}
        /\ UNCHANGED <<base, owner, rep, mishaps, lost, flush, work, swallowed, serverVars>>
    BY NextSeqCounts, <1>1 DEF Record, TypeOK
  <1> HIDE DEF seq
  <1>3. \A a \in Attempts : /\ recorded[a] \in Nat /\ recorded'[a] \in Nat
                            /\ recorded[a] <= recorded'[a]
                            /\ 1 .. recorded[a] \subseteq 1 .. recorded'[a]
                            /\ a # cur => recorded'[a] = recorded[a]
    BY <1>1, <1>2 DEF TypeOK, seq
  <1>4. TypeOK'
    BY <1>1, <1>2 DEF TypeOK, Callers, serverVars
  <1>5. Table'
    <2>1. base[cur] + seq = total + 1
      BY <1>1 DEF seq, TypeOK
    <2>2. owner[cur] # 0
      BY <1>1 DEF TypeOK
    <2>3. \A a \in Attempts : /\ unsent'[a] \subseteq kept'[a]
                              /\ kept'[a] \subseteq 1 .. recorded'[a]
      <3>1. seq \in 1 .. seq
        BY <1>1 DEF seq
      <3> QED
        BY <1>1, <1>2, <1>3, <3>1 DEF Table, TypeOK
    <2> QED
      BY <1>1, <1>2, <2>1, <2>2, <2>3 DEF Table, TypeOK
  <1>6. LostForGood'
    BY <1>1, <1>2 DEF LostForGood, TypeOK
  <1>7. Beginning'
    BY <1>2, <1>3 DEF Beginning, serverVars
  <1>8. BatchFits'
    BY <1>2, <1>3 DEF BatchFits, serverVars, TypeOK
  <1>9. RequestFits'
    BY <1>2, <1>3 DEF RequestFits, serverVars
  <1>10. RequestAt' /\ Posted' /\ AppliedOnce'
    BY <1>2 DEF RequestAt, Posted, AppliedOnce, Inserted, serverVars
  <1>11. NothingForgotten'
    <2>1. ASSUME NEW a \in Attempts, NEW k \in 1 .. recorded'[a]
          PROVE  k \in applied[a] \cup unsent'[a] \cup lost[a]
      <3>1. k \in 1 .. recorded[a] \/ (a = cur /\ k = seq)
        BY <1>1, <1>2, <1>3 DEF seq, TypeOK
      <3> QED
        BY <1>1, <1>2, <3>1 DEF NothingForgotten, TypeOK
    <2> QED
      BY <1>2, <2>1 DEF NothingForgotten, serverVars
  <1> QED
    BY <1>4, <1>5, <1>6, <1>7, <1>8, <1>9, <1>10, <1>11

(* A flush that is over, or was cancelled, holds nothing. *)
LEMMA IdleFits ==
  ASSUME flush' = Idle
  PROVE  BatchFits' /\ Posted'
  BY DEF Idle, BatchFits, Posted

(* The order of the rows in the table makes every batch fit.                *)
LEMMA UnsentFits ==
  ASSUME Inv, NEW a \in Attempts, owner[a] = rep
  PROVE  Closed(unsent[a], applied[a])
  <1> USE DEF Inv
  <1>1. unsent[a] \subseteq 1 .. recorded[a] /\ recorded[a] \in Nat
    BY DEF Table, TypeOK
  <1>2. CASE unsent[a] = {}
    BY <1>2 DEF Closed
  <1>3. CASE lost[a] = {}
    <2>1. \A n \in unsent[a] : \A k \in 1 .. n : k \in 1 .. recorded[a]
      BY <1>1
    <2> QED
      BY <1>3, <2>1 DEF NothingForgotten, Closed
  <1> QED
    BY <1>2, <1>3 DEF LostForGood

LEMMA StartFlushInv ==
  ASSUME Inv, NEW by \in Callers, StartFlush(by)
  PROVE  Inv'
  <1> USE DEF Inv, StartFlush, appVars, tableVars, serverVars
  <1>1. CASE Unsent = {}
    <2>1. UNCHANGED <<appVars, tableVars, flush, serverVars>>
      BY <1>1
    <2>2. TypeOK'
      BY <1>1 DEF TypeOK
    <2> QED
      BY <2>1, <2>2 DEF Table, LostForGood, Beginning, BatchFits, RequestFits, RequestAt,
                        Posted, NothingForgotten, AppliedOnce, Inserted
  <1>2. CASE Unsent # {}
    <2>1. /\ flush' = [Idle EXCEPT !.by = by, !.todo = Unsent, !.batch = unsent]
          /\ UNCHANGED <<appVars, tableVars, work, swallowed, serverVars>>
      BY <1>2
    <2>2. /\ flush'.todo = Unsent /\ flush'.batch = unsent /\ flush'.req = Nobody
          /\ flush' \in [by : Callers \cup {Nobody}, todo : SUBSET Attempts,
                  batch : [Attempts -> SUBSET Nat], req : Requests \cup {Nobody},
                  allOk : BOOLEAN]
      BY <2>1 DEF Idle, Unsent, TypeOK
    <2>3. TypeOK'
      BY <2>1, <2>2 DEF TypeOK
    <2>4. BatchFits'
      <3>1. \A a \in Unsent : unsent[a] # {} /\ unsent[a] \subseteq 1 .. recorded[a]
        BY DEF Unsent, Table
      <3>2. \A a \in Unsent : a \in Attempts
        BY DEF Unsent
      <3> QED
        BY <2>1, <2>2, <3>1, <3>2, UnsentFits DEF BatchFits
    <2>5. Posted'
      BY <2>2 DEF Posted
    <2> QED
      BY <2>1, <2>3, <2>4, <2>5
         DEF Table, LostForGood, Beginning, RequestFits, RequestAt, NothingForgotten,
             AppliedOnce, Inserted
  <1> QED
    BY <1>1, <1>2

LEMMA FinishFlushInv ==
  ASSUME Inv, FinishFlush
  PROVE  Inv'
  <1> USE DEF Inv, FinishFlush, appVars, serverVars
  <1>1. \A a \in Attempts : Prunable(a) \subseteq kept[a] \ unsent[a]
    BY DEF Prunable
  <1>2. /\ unsent' = unsent
        /\ \A a \in Attempts : kept'[a] = kept[a] \ Prunable(a)
    BY <1>1 DEF TypeOK
  <1>3. cur # Nobody => recorded[cur] \notin Prunable(cur)
    BY OutboxAssumption DEF Prunable, Table, TypeOK
  <1>4. TypeOK'
    <2>1. kept' \in [Attempts -> SUBSET Nat]
      BY DEF TypeOK
    <2>2. flush' \in [by : Callers \cup {Nobody}, todo : SUBSET Attempts,
                  batch : [Attempts -> SUBSET Nat], req : Requests \cup {Nobody},
                  allOk : BOOLEAN]
      BY DEF Idle, NoEvents
    <2>3. work' \in {"none", "scheduled", "running", "succeeding", "retrying"}
      BY DEF Scheduled, TypeOK
    <2> QED
      BY <1>2, <2>1, <2>2, <2>3 DEF TypeOK
  <1>5. Table'
    BY <1>1, <1>2, <1>3 DEF Table, TypeOK
  <1>6. BatchFits' /\ Posted'
    BY IdleFits
  <1> QED
    BY <1>2, <1>4, <1>5, <1>6
       DEF LostForGood, Beginning, RequestFits, RequestAt, NothingForgotten, AppliedOnce, Inserted

LEMMA CancelUrgentInv ==
  ASSUME Inv, CancelUrgent
  PROVE  Inv'
  <1> USE DEF Inv, CancelUrgent, appVars, tableVars, serverVars
  <1>1. TypeOK'
    BY DEF TypeOK, Idle, NoEvents
  <1>2. BatchFits' /\ Posted'
    BY IdleFits DEF BatchFits, Posted
  <1> QED
    BY <1>1, <1>2 DEF Table, LostForGood, Beginning, RequestFits, RequestAt, NothingForgotten,
                      AppliedOnce, Inserted

LEMMA WorkerInv ==
  ASSUME Inv, StartWorker \/ WorkerReturns
  PROVE  Inv'
  <1> USE DEF Inv, StartWorker, WorkerReturns, appVars, tableVars, serverVars
  <1>1. TypeOK'
    BY DEF TypeOK, Callers
  <1> QED
    BY <1>1 DEF Table, LostForGood, Beginning, BatchFits, RequestFits, RequestAt, Posted,
                NothingForgotten, AppliedOnce, Inserted

(* The process is gone: the table stays, or is dropped by an update.        *)
LEMMA GoneInv ==
  ASSUME Inv, Kill \/ Update
  PROVE  Inv'
  <1> USE DEF Inv
  <1>1. /\ UNCHANGED <<recorded, base, owner, total, rep, serverVars>>
        /\ cur' = Nobody /\ flush' = Idle /\ waiting' = {}
        /\ work' \in {"none", "scheduled"} /\ swallowed' = swallowed
        /\ mishaps < MaxMishaps /\ mishaps' = mishaps + 1
    BY DEF Kill, Update, Mishap, ProcessGone
  <1>2. /\ kept' \in [Attempts -> SUBSET Nat] /\ unsent' \in [Attempts -> SUBSET Nat]
        /\ lost' \in [Attempts -> SUBSET Nat]
        /\ \A a \in Attempts : \/ kept'[a] = kept[a] /\ unsent'[a] = unsent[a] /\ lost'[a] = lost[a]
                               \/ kept'[a] = {} /\ unsent'[a] = {} /\ lost'[a] = lost[a] \cup unsent[a]
    <2>1. CASE Kill
      <3>1. kept' = kept /\ unsent' = unsent /\ lost' = lost
        BY <2>1 DEF Kill, tableVars
      <3>2. /\ kept \in [Attempts -> SUBSET Nat] /\ unsent \in [Attempts -> SUBSET Nat]
            /\ lost \in [Attempts -> SUBSET Nat]
        BY DEF TypeOK
      <3> QED
        BY <3>1, <3>2
    <2>2. CASE Update
      BY <2>2 DEF Update, NoEvents, TypeOK
    <2> QED
      BY <2>1, <2>2
  <1>3. TypeOK'
    <2>1. flush' \in [by : Callers \cup {Nobody}, todo : SUBSET Attempts,
                  batch : [Attempts -> SUBSET Nat], req : Requests \cup {Nobody},
                  allOk : BOOLEAN]
      BY <1>1 DEF Idle, NoEvents
    <2>2. mishaps' \in 0 .. MaxMishaps
      BY <1>1, OutboxAssumption DEF TypeOK
    <2> QED
      BY <1>1, <1>2, <2>1, <2>2 DEF TypeOK, serverVars
  <1>4. Table'
    <2>1. \A a \in Attempts : owner[a] = 0 => unsent[a] = {}
      BY DEF Table, TypeOK
    <2> QED
      BY <1>1, <1>2, <2>1 DEF Table, TypeOK
  <1>5. LostForGood' /\ NothingForgotten'
    BY <1>1, <1>2 DEF LostForGood, NothingForgotten, serverVars
  <1>6. BatchFits' /\ Posted'
    BY <1>1, IdleFits
  <1> QED
    BY <1>1, <1>3, <1>4, <1>5, <1>6
       DEF Beginning, RequestFits, RequestAt, AppliedOnce, Inserted, serverVars

(* Nobody is on a call when the rep changes, and the events of the rep who  *)
(* has gone are never accepted again.                                       *)
LEMMA OtherRepInv ==
  ASSUME Inv, OtherRep
  PROVE  Inv'
  <1> USE DEF Inv, OtherRep, Mishap, tableVars, flushVars, serverVars
  <1>1. TypeOK'
    BY OutboxAssumption DEF TypeOK
  <1>2. \A a \in Attempts : owner[a] \in {0, 1, 2} /\ owner[a] <= 1 /\ owner[a] # rep'
    BY DEF LostForGood, TypeOK
  <1>3. Table' /\ LostForGood' /\ BatchFits'
    BY <1>2 DEF Table, LostForGood, BatchFits, TypeOK
  <1>4. RequestFits'
    BY DEF RequestFits, TypeOK
  <1> QED
    BY <1>1, <1>3, <1>4 DEF Beginning, RequestAt, Posted, NothingForgotten, AppliedOnce, Inserted

----------------------------------------------------------------------------
(* The requests. *)

Slot == [at : Busy \cup {"free"}, att : Attempts \cup {Nobody}, seqs : SUBSET Nat,
         rep : {0, 1, 2}, left : SUBSET Nat, got : SUBSET Nat]

(* A step of request q alone. *)
Moves(q, new) == /\ req'[q] = new
                 /\ \A p \in Requests \ {q} : req'[p] = req[p]

LEMMA EveryMove ==
  ASSUME TypeOK, NEW q \in Requests, NEW new \in Slot, req' = [req EXCEPT ![q] = new]
  PROVE  Moves(q, new) /\ req' \in [Requests -> Slot]
  BY DEF TypeOK, Slot, Moves

LEMMA PostInv ==
  ASSUME Inv, NEW a \in Attempts, NEW q \in Requests, Post(a, q)
  PROVE  Inv'
  <1> DEFINE new == [Free EXCEPT !.at = "sent", !.att = a, !.rep = rep,
                             !.seqs = flush.batch[a], !.left = flush.batch[a]]
  <1> USE DEF Inv
  <1>1. /\ flush.by # Nobody /\ flush.req = Nobody /\ a \in flush.todo /\ req[q] = Free
        /\ req' = [req EXCEPT ![q] = new] /\ flush' = [flush EXCEPT !.req = q]
        /\ UNCHANGED <<appVars, tableVars, waiting, work, swallowed, applied>>
    BY DEF Post
  <1>2. /\ new.at = "sent" /\ new.att = a /\ new.seqs = flush.batch[a] /\ new.rep = rep
        /\ new.left = new.seqs /\ new.got = {} /\ new \in Slot
    <2>1. /\ Free \in Slot /\ Free.got = {} /\ flush.batch[a] \in SUBSET Nat
          /\ rep \in {0, 1, 2}
      BY DEF Free, Slot, TypeOK
    <2> HIDE DEF Inv
    <2> QED
      BY <2>1 DEF Slot, Busy
  <1>3. Moves(q, new) /\ req' \in [Requests -> Slot]
    BY <1>1, <1>2, EveryMove
  <1>4. /\ flush'.todo = flush.todo /\ flush'.batch = flush.batch /\ flush'.req = q
        /\ flush' \in [by : Callers \cup {Nobody}, todo : SUBSET Attempts,
                  batch : [Attempts -> SUBSET Nat], req : Requests \cup {Nobody},
                  allOk : BOOLEAN]
    BY <1>1 DEF TypeOK
  <1>5. TypeOK'
    BY <1>1, <1>3, <1>4 DEF TypeOK, appVars, tableVars, Slot
  <1>6. /\ flush.batch[a] \subseteq 1 .. recorded[a]
        /\ owner[a] = rep => Closed(flush.batch[a], applied[a])
    BY <1>1 DEF BatchFits
  <1>7. owner[a] # 0 /\ owner[a] <= rep
    <2>1. flush.batch[a] # {} /\ recorded[a] \in Nat
      BY <1>1 DEF BatchFits, TypeOK
    <2> QED
      BY <1>6, <2>1 DEF Table, LostForGood
  <1> HIDE DEF new
  <1>8. RequestFits' /\ RequestAt'
    <2>1. ASSUME NEW p \in Requests PROVE (p = q /\ req'[p] = new) \/ (p # q /\ req'[p] = req[p])
      BY <1>3 DEF Moves
    <2>2. RequestFits'
      BY <1>1, <1>2, <1>6, <1>7, <2>1 DEF RequestFits, appVars, TypeOK
    <2>3. RequestAt'
      BY <1>1, <1>2, <2>1 DEF RequestAt, appVars
    <2> QED
      BY <2>2, <2>3
  <1>9. BatchFits' /\ Posted'
    BY <1>1, <1>2, <1>3, <1>4 DEF BatchFits, Posted, Moves, Busy, appVars
  <1>10. AppliedOnce'
    BY <1>1, <1>2, <1>3 DEF AppliedOnce, Inserted, Moves, Free
  <1> QED
    BY <1>1, <1>5, <1>8, <1>9, <1>10
       DEF Table, LostForGood, Beginning, NothingForgotten, appVars, tableVars

(* A request that comes to an end takes its rows with it. *)
LEMMA EndedApart ==
  ASSUME AppliedOnce, NEW q \in Requests, NEW new, Moves(q, new),
         new.at # "open", UNCHANGED applied
  PROVE  AppliedOnce'
  BY DEF AppliedOnce, Inserted, Moves

LEMMA FreeIsSlot == Free \in Slot /\ Free.at = "free"
  BY DEF Free, Slot

LEMMA FreedFits ==
  ASSUME TypeOK, RequestFits, RequestAt, AppliedOnce, NEW q \in Requests,
         req' = [req EXCEPT ![q] = Free], UNCHANGED <<appVars, applied>>
  PROVE  req' \in [Requests -> Slot] /\ RequestFits' /\ RequestAt' /\ AppliedOnce'
  <1>1. Moves(q, Free) /\ req' \in [Requests -> Slot]
    BY EveryMove, FreeIsSlot
  <1>2. ASSUME NEW p \in Requests PROVE (p = q /\ req'[p] = Free) \/ (p # q /\ req'[p] = req[p])
    BY <1>1 DEF Moves
  <1>3. RequestFits'
    BY <1>2, FreeIsSlot DEF RequestFits, Busy, appVars
  <1>4. RequestAt'
    BY <1>2, FreeIsSlot DEF RequestAt, appVars
  <1>5. AppliedOnce'
    BY <1>1, FreeIsSlot, EndedApart
  <1> QED
    BY <1>1, <1>3, <1>4, <1>5

(* An answer: what the phone marks sent was applied, or refused for good.   *)
LEMMA AnswerInv ==
  ASSUME Inv, NEW q \in Requests, Answer(q)
  PROVE  Inv'
  <1> DEFINE a == req[q].att
  <1> DEFINE status == req[q].at
  <1> USE DEF Inv
  <1>1. /\ flush.req = q /\ q # Nobody /\ status \in {"ok", "refused", "failed"}
        /\ unsent' = [unsent EXCEPT ![a] = @ \ Marked(status)]
        /\ lost'   = [lost EXCEPT ![a] = IF status = "refused"
                                           THEN @ \cup (unsent[a] \cap Marked("refused")) ELSE @]
        /\ flush'  = [flush EXCEPT !.req = Nobody, !.todo = @ \ {a}, !.allOk = @ /\ status # "failed"]
        /\ req' = [req EXCEPT ![q] = Free]
        /\ UNCHANGED <<appVars, kept, waiting, work, swallowed, applied>>
    BY DEF Answer
  <1>2. /\ status \in Busy /\ a \in Attempts /\ a \in flush.todo
        /\ req[q].seqs = flush.batch[a] /\ flush.batch[a] \in SUBSET Nat
    BY <1>1 DEF Posted, TypeOK
  <1>3. /\ owner[a] # 0
        /\ status = "refused" => owner[a] # rep
        /\ status = "ok" => flush.batch[a] \subseteq applied[a]
    <2>1. /\ owner[a] # 0 /\ owner[a] <= req[q].rep /\ req[q].rep <= rep
          /\ owner[a] \in Nat /\ rep \in Nat /\ req[q].rep \in Nat
      BY <1>2 DEF RequestFits, TypeOK
    <2> QED
      BY <1>2, <2>1 DEF RequestAt
  <1>4. /\ \A b \in Attempts \ {a} : unsent'[b] = unsent[b] /\ lost'[b] = lost[b]
        /\ \/ status = "ok" /\ unsent'[a] = unsent[a] \ flush.batch[a] /\ lost'[a] = lost[a]
           \/ status = "failed" /\ unsent'[a] = unsent[a] /\ lost'[a] = lost[a]
           \/ /\ status = "refused" /\ unsent'[a] = unsent[a] \ flush.batch[a]
              /\ lost'[a] = lost[a] \cup (unsent[a] \cap flush.batch[a])
        /\ unsent' \in [Attempts -> SUBSET Nat] /\ lost' \in [Attempts -> SUBSET Nat]
    <2>1. /\ unsent'[a] = unsent[a] \ Marked(status)
          /\ lost'[a] = IF status = "refused" THEN lost[a] \cup (unsent[a] \cap Marked("refused"))
                                              ELSE lost[a]
          /\ \A b \in Attempts \ {a} : unsent'[b] = unsent[b] /\ lost'[b] = lost[b]
      BY <1>1, <1>2 DEF TypeOK
    <2>2. Marked(status) = IF status = "failed" THEN {} ELSE flush.batch[a]
      BY <1>1 DEF Marked
    <2>3. Marked("refused") = flush.batch[a]
      BY <1>1 DEF Marked
    <2>4. unsent'[a] \in SUBSET Nat /\ lost'[a] \in SUBSET Nat
      BY <1>2, <2>1, <2>2, <2>3 DEF TypeOK
    <2>5. unsent' \in [Attempts -> SUBSET Nat] /\ lost' \in [Attempts -> SUBSET Nat]
      <3>1. /\ unsent' = [b \in Attempts |-> unsent'[b]]
            /\ lost' = [b \in Attempts |-> lost'[b]]
        BY <1>1 DEF TypeOK
      <3>2. \A b \in Attempts : unsent'[b] \in SUBSET Nat /\ lost'[b] \in SUBSET Nat
        BY <2>1, <2>4 DEF TypeOK
      <3> QED
        BY <3>1, <3>2
    <2> QED
      BY <1>1, <2>1, <2>2, <2>3, <2>5
  <1>5. /\ flush'.req = Nobody /\ flush'.todo = flush.todo \ {a} /\ flush'.batch = flush.batch
        /\ flush' \in [by : Callers \cup {Nobody}, todo : SUBSET Attempts,
                  batch : [Attempts -> SUBSET Nat], req : Requests \cup {Nobody},
                  allOk : BOOLEAN]
    BY <1>1 DEF TypeOK
  <1>6. req' \in [Requests -> Slot] /\ RequestFits' /\ RequestAt' /\ AppliedOnce'
    BY <1>1, FreedFits
  <1> HIDE DEF a, status
  <1>7. TypeOK'
    BY <1>1, <1>4, <1>5, <1>6 DEF TypeOK, appVars, Slot
  <1>8. Table'
    BY <1>1, <1>2, <1>3, <1>4 DEF Table, appVars
  <1>9. LostForGood'
    BY <1>1, <1>2, <1>3, <1>4 DEF LostForGood, appVars
  <1>10. BatchFits' /\ Posted'
    BY <1>1, <1>5 DEF BatchFits, Posted, appVars
  <1>11. NothingForgotten'
    <2>1. ASSUME NEW b \in Attempts
          PROVE  unsent[b] \subseteq applied[b] \cup unsent'[b] \cup lost'[b] /\ lost[b] \subseteq lost'[b]
      BY <1>2, <1>3, <1>4
    <2> QED
      BY <1>1, <2>1 DEF NothingForgotten, appVars
  <1> QED
    BY <1>1, <1>6, <1>7, <1>8, <1>9, <1>10, <1>11 DEF Beginning, appVars

LEMMA ConnectionLostInv ==
  ASSUME Inv, NEW q \in Requests, ConnectionLost(q)
  PROVE  Inv'
  <1> USE DEF Inv
  <1>1. /\ flush' = [flush EXCEPT !.req = Nobody, !.todo = @ \ {req[q].att}, !.allOk = FALSE]
        /\ req' = [req EXCEPT ![q] = Free] \/ UNCHANGED req
        /\ UNCHANGED <<appVars, tableVars, waiting, work, swallowed, applied>>
    BY DEF ConnectionLost
  <1>2. /\ flush'.req = Nobody /\ flush'.todo \subseteq flush.todo /\ flush'.batch = flush.batch
        /\ flush' \in [by : Callers \cup {Nobody}, todo : SUBSET Attempts,
                  batch : [Attempts -> SUBSET Nat], req : Requests \cup {Nobody},
                  allOk : BOOLEAN]
    BY <1>1 DEF TypeOK
  <1>3. req' \in [Requests -> Slot] /\ RequestFits' /\ RequestAt' /\ AppliedOnce'
    <2>1. CASE req' = [req EXCEPT ![q] = Free]
      BY <1>1, <2>1, FreedFits
    <2>2. CASE UNCHANGED req
      BY <1>1, <2>2 DEF RequestFits, RequestAt, AppliedOnce, Inserted, appVars, TypeOK, Slot
    <2> QED
      BY <1>1, <2>1, <2>2
  <1>4. TypeOK'
    BY <1>1, <1>2, <1>3 DEF TypeOK, appVars, tableVars, Slot
  <1>5. BatchFits' /\ Posted'
    BY <1>1, <1>2 DEF BatchFits, Posted, appVars
  <1> QED
    BY <1>1, <1>3, <1>4, <1>5
       DEF Table, LostForGood, Beginning, NothingForgotten, appVars, tableVars

----------------------------------------------------------------------------
(* The server. *)

(* A step of the server leaves the app alone; request q keeps what it       *)
(* carries, or is free when no flush waits for it.                          *)
ServerStep(q, new) ==
    /\ req' = [req EXCEPT ![q] = new] /\ new \in Slot
    /\ \/ new = Free /\ flush.req # q
       \/ new.at \in Busy /\ new.att = req[q].att /\ new.seqs = req[q].seqs /\ new.rep = req[q].rep
    /\ UNCHANGED <<appVars, tableVars, flushVars>>

LEMMA ServerStepKeeps ==
  ASSUME Inv, NEW q \in Requests, NEW new, ServerStep(q, new), req[q].at \in Busy
  PROVE  /\ req' \in [Requests -> Slot] /\ Moves(q, new)
         /\ Table' /\ LostForGood' /\ Posted'
  <1> USE DEF Inv
  <1>1. req' \in [Requests -> Slot] /\ Moves(q, new)
    BY EveryMove DEF ServerStep
  <1>2. UNCHANGED <<appVars, tableVars, flushVars>>
    BY DEF ServerStep
  <1>3. Table' /\ LostForGood'
    BY <1>2 DEF Table, LostForGood, appVars, tableVars
  <1>4. Posted'
    <2>1. ASSUME flush.req # Nobody
          PROVE  LET p == flush.req IN /\ req'[p].at \in Busy /\ req'[p].att \in flush.todo
                                       /\ req'[p].seqs = flush.batch[req'[p].att]
      <3>1. /\ flush.req \in Requests /\ req[flush.req].at \in Busy /\ req[flush.req].att \in flush.todo
            /\ req[flush.req].seqs = flush.batch[req[flush.req].att]
        BY <2>1 DEF Posted, TypeOK
      <3> QED
        BY <1>1, <3>1 DEF ServerStep, Moves
    <2> QED
      BY <1>2, <2>1 DEF Posted, flushVars
  <1> QED
    BY <1>1, <1>3, <1>4

(* An outcome for request q is such a step. *)
LEMMA OutcomeStep ==
  ASSUME Inv, NEW q \in Requests, NEW status \in {"ok", "refused", "failed"}, req[q].at \in Busy,
         req' = [req EXCEPT ![q] = Outcome(q, status)], UNCHANGED <<appVars, tableVars, flushVars>>
  PROVE  /\ ServerStep(q, Outcome(q, status))
         /\ \/ Outcome(q, status) = Free
            \/ /\ Outcome(q, status).at = status /\ Outcome(q, status).got = {}
               /\ Outcome(q, status).att = req[q].att /\ Outcome(q, status).seqs = req[q].seqs
               /\ Outcome(q, status).rep = req[q].rep
  <1> USE DEF Inv
  <1>1. CASE flush.req = q
    <2>1. Outcome(q, status) = [req[q] EXCEPT !.at = status, !.got = {}]
      BY <1>1 DEF Outcome
    <2>2. req[q] \in Slot
      BY DEF TypeOK, Slot
    <2> QED
      BY <2>1, <2>2 DEF ServerStep, Slot, Busy
  <1>2. CASE flush.req # q
    BY <1>2, FreeIsSlot DEF Outcome, ServerStep
  <1> QED
    BY <1>1, <1>2

(* What is true of every request after a step of q that commits nothing.    *)
LEMMA NothingCommitted ==
  ASSUME Inv, NEW q \in Requests, NEW new, ServerStep(q, new), req[q].at \in Busy, UNCHANGED applied
  PROVE  /\ TypeOK' /\ Table' /\ LostForGood' /\ Beginning' /\ BatchFits' /\ Posted'
         /\ NothingForgotten'
         /\ (new.at \in {"sent", "open"} => req[q].at \in {"sent", "open"}) => RequestFits'
  <1> USE DEF Inv
  <1>1. UNCHANGED <<appVars, tableVars, flushVars>>
    BY DEF ServerStep
  <1>2. req' \in [Requests -> Slot] /\ Moves(q, new) /\ Table' /\ LostForGood' /\ Posted'
    BY ServerStepKeeps
  <1>3. TypeOK'
    BY <1>1, <1>2 DEF TypeOK, appVars, tableVars, flushVars, Slot
  <1>4. Beginning' /\ BatchFits' /\ NothingForgotten'
    BY <1>1 DEF Beginning, BatchFits, NothingForgotten, appVars, tableVars, flushVars
  <1>5. ASSUME new.at \in {"sent", "open"} => req[q].at \in {"sent", "open"}
        PROVE  RequestFits'
    <2>1. ASSUME NEW p \in Requests
          PROVE  \/ req'[p] = req[p]
                 \/ req'[p].at = "free"
                 \/ /\ req[p].at \in Busy
                    /\ req'[p].att = req[p].att /\ req'[p].seqs = req[p].seqs /\ req'[p].rep = req[p].rep
                    /\ req'[p].at \in {"sent", "open"} => req[p].at \in {"sent", "open"}
      BY <1>2, <1>5, FreeIsSlot DEF Moves, ServerStep
    <2> QED
      BY <1>1, <2>1 DEF RequestFits, appVars, Busy
  <1> QED
    BY <1>2, <1>3, <1>4, <1>5

LEMMA BeginIngestInv ==
  ASSUME Inv, NEW q \in Requests, BeginIngest(q)
  PROVE  Inv'
  <1> USE DEF Inv
  <1>1. /\ req[q].at = "sent" /\ UNCHANGED <<appVars, tableVars, flushVars, applied>>
        /\ req[q] \in Slot /\ req[q].at \in Busy
        /\ req[q].left = req[q].seqs /\ req[q].got = {}
    BY DEF BeginIngest, TypeOK, Slot, Busy, RequestAt
  <1>2. CASE owner[req[q].att] = req[q].rep
    <2> DEFINE new == [req[q] EXCEPT !.at = "open"]
    <2>1. req' = [req EXCEPT ![q] = new]
      BY <1>2 DEF BeginIngest
    <2>2. /\ new \in Slot /\ new.at = "open" /\ new.att = req[q].att /\ new.seqs = req[q].seqs
          /\ new.rep = req[q].rep /\ new.left = req[q].seqs /\ new.got = {}
      BY <1>1 DEF Slot, Busy
    <2> HIDE DEF new
    <2>3. ServerStep(q, new)
      BY <1>1, <2>1, <2>2 DEF ServerStep, Busy
    <2>4. /\ TypeOK' /\ Table' /\ LostForGood' /\ Beginning' /\ BatchFits' /\ Posted'
          /\ NothingForgotten' /\ RequestFits' /\ Moves(q, new)
      BY <1>1, <2>3, NothingCommitted, ServerStepKeeps
    <2>5. RequestAt'
      BY <1>1, <1>2, <2>2, <2>4 DEF RequestAt, Moves, appVars
    <2>6. AppliedOnce'
      BY <1>1, <2>2, <2>4 DEF AppliedOnce, Inserted, Moves
    <2> QED
      BY <2>4, <2>5, <2>6
  <1>3. CASE owner[req[q].att] # req[q].rep
    <2> DEFINE new == Outcome(q, "refused")
    <2>1. req' = [req EXCEPT ![q] = new]
      BY <1>3 DEF BeginIngest
    <2>2. /\ ServerStep(q, new)
          /\ \/ new = Free
             \/ /\ new.at = "refused" /\ new.got = {}
                /\ new.att = req[q].att /\ new.seqs = req[q].seqs /\ new.rep = req[q].rep
      BY <1>1, <2>1, OutcomeStep
    <2> HIDE DEF new
    <2>3. /\ TypeOK' /\ Table' /\ LostForGood' /\ Beginning' /\ BatchFits' /\ Posted'
          /\ NothingForgotten' /\ RequestFits' /\ Moves(q, new)
      BY <1>1, <2>2, NothingCommitted, ServerStepKeeps
    <2>4. RequestAt'
      BY <1>1, <1>3, <2>2, <2>3, FreeIsSlot DEF RequestAt, Moves, appVars
    <2>5. AppliedOnce'
      BY <1>1, <2>2, <2>3, FreeIsSlot, EndedApart
    <2> QED
      BY <2>3, <2>4, <2>5
  <1> QED
    BY <1>2, <1>3

LEMMA AbortIngestInv ==
  ASSUME Inv, NEW q \in Requests, AbortIngest(q)
  PROVE  Inv'
  <1> DEFINE new == Outcome(q, "failed")
  <1> USE DEF Inv
  <1>1. /\ req[q].at \in Busy /\ UNCHANGED <<appVars, tableVars, flushVars, applied>>
        /\ req' = [req EXCEPT ![q] = new]
    BY DEF AbortIngest, Busy
  <1>2. /\ ServerStep(q, new)
        /\ \/ new = Free
           \/ /\ new.at = "failed" /\ new.got = {}
              /\ new.att = req[q].att /\ new.seqs = req[q].seqs /\ new.rep = req[q].rep
    BY <1>1, OutcomeStep
  <1> HIDE DEF new
  <1>3. /\ TypeOK' /\ Table' /\ LostForGood' /\ Beginning' /\ BatchFits' /\ Posted'
        /\ NothingForgotten' /\ RequestFits' /\ Moves(q, new)
    BY <1>1, <1>2, FreeIsSlot, NothingCommitted, ServerStepKeeps
  <1>4. RequestAt'
    BY <1>1, <1>2, <1>3, FreeIsSlot DEF RequestAt, Moves, appVars
  <1>5. AppliedOnce'
    BY <1>1, <1>2, <1>3, FreeIsSlot, EndedApart
  <1> QED
    BY <1>3, <1>4, <1>5

LEMMA AnswerDroppedInv ==
  ASSUME Inv, NEW q \in Requests, AnswerDropped(q)
  PROVE  Inv'
  <1> USE DEF Inv
  <1>1. /\ flush.req # q /\ req[q].at \in Busy /\ req' = [req EXCEPT ![q] = Free]
        /\ UNCHANGED <<appVars, tableVars, flushVars, applied>>
    BY DEF AnswerDropped, Busy
  <1>2. ServerStep(q, Free)
    BY <1>1, FreeIsSlot DEF ServerStep
  <1>3. TypeOK' /\ Table' /\ LostForGood' /\ Beginning' /\ BatchFits' /\ Posted' /\ NothingForgotten'
    BY <1>1, <1>2, NothingCommitted
  <1>4. RequestFits' /\ RequestAt' /\ AppliedOnce'
    BY <1>1, FreedFits
  <1> QED
    BY <1>3, <1>4

(* The smallest of what is left is inserted, unless another transaction     *)
(* holds it or it is there already.                                         *)
LEMMA InsertEventInv ==
  ASSUME Inv, NEW q \in Requests, InsertEvent(q)
  PROVE  Inv'
  <1> DEFINE a == req[q].att
  <1> DEFINE seq == Smallest(req[q].left)
  <1> DEFINE new == [req[q] EXCEPT !.left = @ \ {seq},
                                   !.got = IF seq \in applied[a] THEN @ ELSE @ \cup {seq}]
  <1> USE DEF Inv
  <1>1. /\ req[q].at = "open" /\ req[q].left # {} /\ seq \notin Inserted(a, q)
        /\ req[q] \in Slot /\ req[q].at \in Busy
        /\ UNCHANGED <<appVars, tableVars, flushVars, applied>>
    BY DEF InsertEvent, TypeOK, Slot, Busy
  <1>2. req' = [req EXCEPT ![q] = new]
    BY DEF InsertEvent, TypeOK
  <1>3. seq \in req[q].left /\ seq \in Nat
    BY <1>1, SmallestIn DEF Slot
  <1> HIDE DEF seq
  <1>4. /\ new \in Slot /\ new.at = "open" /\ new.att = a /\ new.seqs = req[q].seqs
        /\ new.rep = req[q].rep /\ new.left = req[q].left \ {seq}
        /\ \/ seq \in applied[a] /\ new.got = req[q].got
           \/ seq \notin applied[a] /\ new.got = req[q].got \cup {seq}
    BY <1>1, <1>3 DEF Slot, Busy
  <1> HIDE DEF new
  <1>5. ServerStep(q, new)
    BY <1>1, <1>2, <1>4 DEF ServerStep, Busy
  <1>6. /\ TypeOK' /\ Table' /\ LostForGood' /\ Beginning' /\ BatchFits' /\ Posted'
        /\ NothingForgotten' /\ RequestFits' /\ Moves(q, new)
    BY <1>1, <1>5, NothingCommitted, ServerStepKeeps
  <1>7. RequestAt'
    <2>1. /\ new.rep = owner[a] /\ new.left \subseteq new.seqs /\ new.got \subseteq new.seqs
          /\ new.seqs \subseteq new.left \cup new.got \cup applied[a]
      BY <1>1, <1>3, <1>4 DEF RequestAt
    <2> QED
      BY <1>1, <1>4, <1>6, <2>1 DEF RequestAt, Moves, appVars
  <1>8. AppliedOnce'
    <2>1. new.got \cap applied[a] = {}
      BY <1>1, <1>4 DEF AppliedOnce
    <2>2. ASSUME NEW p \in Requests \ {q}, req[p].at = "open", req[p].att = a
          PROVE  new.got \cap req[p].got = {}
      <3>1. seq \notin req[p].got
        BY <1>1, <2>2 DEF Inserted
      <3>2. req[q].got \cap req[p].got = {}
        BY <1>1, <2>2 DEF AppliedOnce, Inserted
      <3> QED
        BY <1>4, <3>1, <3>2
    <2>3. ASSUME NEW p \in Requests, NEW r \in Requests \ {p},
                 req[p].at = "open", req[r].at = "open", req[r].att = req[p].att
          PROVE  req[p].got \cap req[r].got = {}
      BY <2>3 DEF AppliedOnce, Inserted
    <2>4. ASSUME NEW p \in Requests, NEW r \in Requests \ {p},
                 req'[p].at = "open", req'[r].at = "open", req'[r].att = req'[p].att
          PROVE  req'[p].got \cap req'[r].got = {}
      BY <1>1, <1>4, <1>6, <2>2, <2>3, <2>4 DEF Moves
    <2>5. ASSUME NEW p \in Requests, req'[p].at = "open"
          PROVE  req'[p].got \cap applied[req'[p].att] = {}
      BY <1>1, <1>4, <1>6, <2>1, <2>5 DEF Moves, AppliedOnce
    <2> QED
      BY <1>1, <2>4, <2>5 DEF AppliedOnce, Inserted
  <1> QED
    BY <1>6, <1>7, <1>8

(* What is committed continues what the server has. *)
LEMMA CommitIngestInv ==
  ASSUME Inv, NEW q \in Requests, CommitIngest(q)
  PROVE  Inv'
  <1> DEFINE a == req[q].att
  <1> DEFINE new == Outcome(q, "ok")
  <1> USE DEF Inv
  <1>1. /\ req[q].at = "open" /\ req[q].at \in Busy /\ req[q].left = {}
        /\ applied' = [applied EXCEPT ![a] = @ \cup req[q].got]
        /\ req' = [req EXCEPT ![q] = new]
        /\ UNCHANGED <<appVars, tableVars, flushVars>>
    BY DEF CommitIngest, Busy
  <1>2. /\ ServerStep(q, new)
        /\ \/ new = Free
           \/ /\ new.at = "ok" /\ new.got = {}
              /\ new.att = a /\ new.seqs = req[q].seqs /\ new.rep = req[q].rep
    BY <1>1, OutcomeStep
  <1>3. /\ a \in Attempts /\ req[q].seqs \subseteq 1 .. recorded[a]
        /\ Closed(req[q].seqs, applied[a])
        /\ req[q].got \subseteq req[q].seqs /\ req[q].seqs \subseteq req[q].got \cup applied[a]
    BY <1>1 DEF RequestFits, RequestAt
  <1> HIDE DEF a, new
  <1>4. /\ applied' \in [Attempts -> SUBSET Nat]
        /\ applied'[a] = applied[a] \cup req[q].got
        /\ \A b \in Attempts : applied[b] \subseteq applied'[b] /\ (b # a => applied'[b] = applied[b])
    <2>1. req[q].got \in SUBSET Nat
      BY DEF TypeOK
    <2> QED
      BY <1>1, <1>3, <2>1 DEF TypeOK
  <1>5. req' \in [Requests -> Slot] /\ Moves(q, new) /\ Table' /\ LostForGood' /\ Posted'
    BY <1>1, <1>2, ServerStepKeeps
  <1>6. TypeOK'
    BY <1>1, <1>4, <1>5 DEF TypeOK, appVars, tableVars, flushVars, Slot
  <1>7. Beginning'
    <2>1. applied'[a] \subseteq 1 .. recorded[a]
      BY <1>3, <1>4 DEF Beginning
    <2>2. Closed(applied'[a], {})
      BY <1>3, <1>4 DEF Beginning, Closed
    <2> QED
      BY <1>1, <1>4, <2>1, <2>2 DEF Beginning, appVars
  <1>8. ASSUME NEW S, NEW b \in Attempts, Closed(S, applied[b])
        PROVE  Closed(S, applied'[b])
    BY <1>4, <1>8 DEF Closed
  <1>9. BatchFits'
    <2>1. flush.todo \subseteq Attempts
      BY DEF TypeOK
    <2> QED
      BY <1>1, <1>8, <2>1 DEF BatchFits, appVars, flushVars
  <1>10. \A p \in Requests : \/ p = q /\ req'[p] = new
                             \/ p # q /\ req'[p] = req[p]
    BY <1>5 DEF Moves
  <1>11. RequestFits'
    <2>1. ASSUME NEW p \in Requests, req'[p].at \in Busy
          PROVE  /\ req'[p].att = req[p].att /\ req'[p].seqs = req[p].seqs /\ req'[p].rep = req[p].rep
                 /\ req[p].at \in Busy
                 /\ req'[p].at \in {"sent", "open"} => req[p].at \in {"sent", "open"}
      BY <1>1, <1>2, <1>10, <2>1, FreeIsSlot DEF Busy, a
    <2> QED
      BY <1>1, <1>8, <2>1 DEF RequestFits, appVars
  <1>12. RequestAt'
    <2>1. ASSUME NEW p \in Requests, p # q, req[p].at \in Busy PROVE req[p].att \in Attempts
      BY <2>1 DEF RequestFits
    <2>2. new = Free \/ req[q].seqs \subseteq applied'[new.att]
      BY <1>2, <1>3, <1>4
    <2> QED
      BY <1>1, <1>2, <1>4, <1>10, <2>1, <2>2, FreeIsSlot DEF RequestAt, appVars, Busy
  <1>13. AppliedOnce'
    <2>1. new.at # "open"
      BY <1>2, FreeIsSlot
    <2>2. ASSUME NEW p \in Requests \ {q}, req[p].at = "open"
          PROVE  /\ req[p].got \cap applied'[req[p].att] = {}
                 /\ req[p].att = a => req[p].got \cap req[q].got = {}
      <3>1. req[p].att = a => req[p].got \cap req[q].got = {}
        BY <1>1, <2>2 DEF AppliedOnce, Inserted, a
      <3>2. req[p].got \cap applied[req[p].att] = {} /\ req[p].att \in Attempts
        BY <2>2 DEF AppliedOnce, RequestFits, Busy
      <3> QED
        BY <1>4, <3>1, <3>2
    <2>3. ASSUME NEW p \in Requests, NEW r \in Requests \ {p},
                 req'[p].at = "open", req'[r].at = "open", req'[r].att = req'[p].att
          PROVE  req'[p].got \cap req'[r].got = {}
      BY <1>10, <2>1, <2>3 DEF AppliedOnce, Inserted
    <2>4. ASSUME NEW p \in Requests, req'[p].at = "open"
          PROVE  req'[p].got \cap applied'[req'[p].att] = {}
      BY <1>10, <2>1, <2>2, <2>4
    <2> QED
      BY <2>3, <2>4 DEF AppliedOnce, Inserted
  <1>14. NothingForgotten'
    BY <1>1, <1>4 DEF NothingForgotten, appVars, tableVars
  <1> QED
    BY <1>5, <1>6, <1>7, <1>9, <1>11, <1>12, <1>13, <1>14

----------------------------------------------------------------------------
(* The theorems. *)

LEMMA NextInv ==
  ASSUME Inv, [Next]_vars
  PROVE  Inv'
  <1>1. CASE \E a \in Attempts : BeginAttempt(a)
    BY <1>1, BeginAttemptInv
  <1>2. CASE \E urgent \in BOOLEAN : Record(urgent)
    BY <1>2, RecordInv
  <1>3. CASE \E by \in Callers : StartFlush(by)
    BY <1>3, StartFlushInv
  <1>4. CASE \E a \in Attempts, q \in Requests : Post(a, q)
    BY <1>4, PostInv
  <1>5. CASE \E q \in Requests : Answer(q) \/ ConnectionLost(q)
    BY <1>5, AnswerInv, ConnectionLostInv
  <1>6. CASE FinishFlush \/ CancelUrgent \/ StartWorker \/ WorkerReturns
    BY <1>6, FinishFlushInv, CancelUrgentInv, WorkerInv
  <1>7. CASE Kill \/ Update \/ OtherRep
    BY <1>7, GoneInv, OtherRepInv
  <1>8. CASE \E q \in Requests : Server(q) \/ AbortIngest(q) \/ AnswerDropped(q)
    BY <1>8, BeginIngestInv, InsertEventInv, CommitIngestInv, AbortIngestInv, AnswerDroppedInv
       DEF Server
  <1>9. CASE UNCHANGED vars
    BY <1>9 DEF vars, appVars, tableVars, flushVars, serverVars, Inv, TypeOK, Table, LostForGood,
                Beginning, BatchFits, RequestFits, RequestAt, Posted, NothingForgotten,
                AppliedOnce, Inserted
  <1> QED
    BY <1>1, <1>2, <1>3, <1>4, <1>5, <1>6, <1>7, <1>8, <1>9 DEF Next

(* The invariant on which the theorems below rest. *)
THEOREM InvHolds == Spec => []Inv
  BY InitInv, NextInv, PTL DEF Spec

(* Every variable of the outbox and of ingest_events keeps its type.        *)
THEOREM OutboxTypeCorrect == Spec => []TypeOK
  <1>1. Inv => TypeOK
    BY DEF Inv
  <1> QED
    BY InvHolds, <1>1, PTL

(* However requests, answers and the app's processes are lost: an event     *)
(* that is not marked unsent any more (markSent, prune) was applied by the  *)
(* server, or was given up by an update or a refusal.                       *)
THEOREM ForgetsNothing == Spec => []NothingForgotten
  <1>1. Inv => NothingForgotten
    BY DEF Inv
  <1> QED
    BY InvHolds, <1>1, PTL

(* Of two transactions of ingest_events that carry the same event at most   *)
(* one inserts it, and none that is committed already.                      *)
THEOREM AppliesOnce == Spec => []AppliedOnce
  <1>1. Inv => AppliedOnce
    BY DEF Inv
  <1> QED
    BY InvHolds, <1>1, PTL

----------------------------------------------------------------------------
(* The refinement. *)

LEMMA RecordRecords ==
  ASSUME Inv, Inv', NEW urgent \in BOOLEAN, Record(urgent)
  PROVE  cur \in Attempts /\ Channel!Record(cur)
  BY DEF Inv, TypeOK, Record, serverVars, Channel!Record

(* A commit delivers the beginning that the server has then.                *)
LEMMA CommitDelivers ==
  ASSUME Inv, Inv', NEW q \in Requests, CommitIngest(q)
  PROVE  UNCHANGED applied \/ \E a \in Attempts : \E n \in 1 .. recorded[a] : Channel!Deliver(a, n)
  <1> DEFINE a == req[q].att
  <1>1. /\ a \in Attempts /\ req[q].at = "open" /\ UNCHANGED recorded
        /\ applied' = [applied EXCEPT ![a] = @ \cup req[q].got]
        /\ recorded[a] \in Nat /\ req[q].got \in SUBSET Nat
    BY DEF CommitIngest, Inv, RequestFits, TypeOK, Busy, appVars
  <1> HIDE DEF a
  <1>2. applied \in [Attempts -> SUBSET Nat]
    BY DEF Inv, TypeOK
  <1>3. applied'[a] = applied[a] \cup req[q].got
    BY <1>1, <1>2
  <1>4. PICK n \in 0 .. recorded[a] : applied'[a] = 1 .. n
    <2>1. applied'[a] \in SUBSET (1 .. recorded[a]) /\ Closed(applied'[a], {})
      BY <1>1 DEF Inv, Beginning
    <2> QED
      BY <1>1, <2>1, InitialSegment
  <1>5. CASE n \in applied[a] \/ n = 0
    <2>1. 1 .. n \subseteq applied[a]
      BY <1>1, <1>4, <1>5 DEF Inv, Beginning, Closed
    <2>2. applied'[a] = applied[a]
      BY <1>3, <1>4, <2>1
    <2> QED
      BY <1>1, <1>2, <2>2
  <1>6. CASE n \notin applied[a] /\ n # 0
    <2>1. n \in 1 .. recorded[a]
      BY <1>1, <1>4, <1>6
    <2>2. applied' = [applied EXCEPT ![a] = 1 .. n]
      BY <1>1, <1>2, <1>3, <1>4
    <2>3. Channel!Deliver(a, n)
      BY <1>1, <1>6, <2>1, <2>2 DEF Channel!Deliver
    <2> QED
      BY <1>1, <2>1, <2>3
  <1> QED
    BY <1>5, <1>6

(* The phone's outbox, the network, and ingest_events implement the channel *)
(* that applies an attempt's events in order and without a gap: a recording *)
(* is a Record, a commit a Deliver or nothing new, every other step nothing.*)
THEOREM OutboxImplementsEventChannel == Spec => ImplementsEventChannel
  <1>1. Init => Channel!Init
    BY DEF Init, NoEvents, Channel!Init
  <1>2. ASSUME Inv, Inv', [Next]_vars
        PROVE  [Channel!Next]_(Channel!chanVars)
    <2> USE DEF Channel!chanVars
    <2>1. CASE \E urgent \in BOOLEAN : Record(urgent)
      BY <1>2, <2>1, RecordRecords DEF Channel!Next
    <2>2. CASE \E q \in Requests : CommitIngest(q)
      <3>1. UNCHANGED recorded
        BY <2>2 DEF CommitIngest, appVars
      <3> QED
        BY <1>2, <2>2, <3>1, CommitDelivers DEF Channel!Next
    <2>3. CASE \/ UNCHANGED vars
               \/ \E a \in Attempts : BeginAttempt(a)
               \/ \E by \in Callers : StartFlush(by)
               \/ \E a \in Attempts, q \in Requests : Post(a, q)
               \/ \E q \in Requests : Answer(q) \/ ConnectionLost(q)
               \/ FinishFlush \/ CancelUrgent \/ StartWorker \/ WorkerReturns
      BY <2>3 DEF vars, appVars, serverVars, BeginAttempt, StartFlush, Post, Answer, ConnectionLost,
                  FinishFlush, CancelUrgent, StartWorker, WorkerReturns
    <2>4. CASE \/ Kill \/ Update \/ OtherRep
               \/ \E q \in Requests : \/ BeginIngest(q) \/ InsertEvent(q)
                                      \/ AbortIngest(q) \/ AnswerDropped(q)
      BY <2>4 DEF appVars, serverVars, Kill, Update, OtherRep, ProcessGone, BeginIngest, InsertEvent,
                  AbortIngest, AnswerDropped
    <2> QED
      BY <1>2, <2>1, <2>2, <2>3, <2>4 DEF Next, Server
  <1> QED
    BY <1>1, <1>2, InvHolds, PTL DEF Spec, ImplementsEventChannel, Channel!Spec
=============================================================================
