----------------------------- MODULE EventOutbox -----------------------------
(****************************************************************************)
(* The way of a call event from the phone to the server: the Room table,    *)
(* the mutex-protected flush and the WorkManager retry of EventOutbox.kt,   *)
(* and ingest_events of the mobile API, one transaction per request, with   *)
(* the unique index on (attempt, seq).                                      *)
(*                                                                          *)
(* A request may be lost on its way, or its answer; the phone may give up a *)
(* request that the server is still handling (an urgent flush gives up      *)
(* after two seconds) and post the same events again; the app's process may *)
(* die at any point; an update of the app may recreate the table; another   *)
(* rep may sign in on the phone.                                            *)
(*                                                                          *)
(* Bounds: MaxEvents events per attempt (the last of them ends it), the set *)
(* Requests of posts in flight at once, MaxMishaps deaths or updates of the *)
(* app and changes of the rep.  The tables of an instance stay below the    *)
(* 200 rows that one flush reads and the 100 events that the server takes   *)
(* in one batch.                                                            *)
(****************************************************************************)
EXTENDS Naturals, FiniteSets

CONSTANTS Attempts,      \* call attempts, made one after the other
          Requests,      \* slots for POST .../events requests in flight
          Nobody,        \* no attempt, no request
          MaxEvents,     \* events of an attempt
          KeepRows,      \* rows that prune leaves behind the newest (500)
          MaxMishaps     \* deaths and updates of the app, changes of the rep

ASSUME OutboxAssumption ==
    /\ MaxEvents \in Nat \ {0}
    /\ KeepRows \in Nat
    /\ MaxMishaps \in Nat
    /\ Nobody \notin Attempts \cup Requests

VARIABLES
    \* the app
    cur,         \* the attempt the run loop is working on
    recorded,    \* attempt -> number of events recorded so far
    base,        \* attempt -> rows inserted before its first one (row ids are consecutive)
    owner,       \* attempt -> the rep who made it (0: not made yet)
    total,       \* rows inserted so far, the highest row id
    kept,        \* attempt -> seqs of its rows that are in the table
    unsent,      \* attempt -> those of them with sent = 0
    rep,         \* the rep who is signed in: 1, or 2 for good
    flush,       \* the flush that holds flushLock
    waiting,     \* the flushes that wait for it
    work,        \* the unique work "outbox_flush" of WorkManager
    swallowed,   \* a retry was asked for while the worker was returning success
    mishaps,     \* deaths and updates of the app, changes of the rep
    \* the server
    req,         \* request -> where it is, and what its transaction has inserted
    applied,     \* attempt -> seqs of the committed rows of mobile_call_events
    \* history
    lost         \* attempt -> seqs given up by an update or a refusal

appVars    == <<cur, recorded, base, owner, total, rep, mishaps>>
tableVars  == <<kept, unsent, lost>>
flushVars  == <<flush, waiting, work, swallowed>>
serverVars == <<req, applied>>
vars == <<appVars, tableVars, flushVars, serverVars>>

(* Who calls flush(): the coroutine launched after an ordinary event, the   *)
(* run loop itself after an urgent one, the WorkManager worker.             *)
Callers == {"launched", "urgent", "worker"}

NoEvents == [a \in Attempts |-> {}]
Idle == [by |-> Nobody, todo |-> {}, batch |-> NoEvents, req |-> Nobody, allOk |-> TRUE]
Free == [at |-> "free", att |-> Nobody, seqs |-> {}, rep |-> 0, left |-> {}, got |-> {}]

Init ==
    /\ cur = Nobody
    /\ recorded = [a \in Attempts |-> 0]
    /\ base     = [a \in Attempts |-> 0]
    /\ owner    = [a \in Attempts |-> 0]
    /\ total = 0 /\ rep = 1 /\ mishaps = 0
    /\ kept = NoEvents /\ unsent = NoEvents /\ lost = NoEvents
    /\ flush = Idle /\ waiting = {} /\ work = "none" /\ swallowed = FALSE
    /\ req = [q \in Requests |-> Free]
    /\ applied = NoEvents

----------------------------------------------------------------------------
(* Recording.                                                               *)

Largest(S) == CHOOSE m \in S : \A k \in S : k <= m

(* COALESCE(MAX(seq), 0) + 1 over the rows of the attempt in the table. *)
NextSeq(a) == IF kept[a] = {} THEN 1 ELSE Largest(kept[a]) + 1

BeginAttempt(a) ==
    /\ cur = Nobody /\ owner[a] = 0
    /\ cur' = a
    /\ owner' = [owner EXCEPT ![a] = rep]
    /\ base'  = [base EXCEPT ![a] = total]
    /\ UNCHANGED <<recorded, total, rep, mishaps, tableVars, flushVars, serverVars>>

(* The run loop is suspended in an urgent flush. *)
LoopWaits == flush.by = "urgent" \/ "urgent" \in waiting

(* record() and the flush that event() starts after it.  The event that     *)
(* ends the attempt is never urgent (only merged and rep_takeover are).     *)
Record(urgent) ==
    /\ cur # Nobody /\ ~LoopWaits
    /\ LET seq  == NextSeq(cur)
           last == recorded[cur] + 1 = MaxEvents
       IN /\ urgent => ~last
          /\ kept'   = [kept   EXCEPT ![cur] = @ \cup {seq}]
          /\ unsent' = [unsent EXCEPT ![cur] = @ \cup {seq}]
          /\ cur' = IF last THEN Nobody ELSE cur
    /\ recorded' = [recorded EXCEPT ![cur] = @ + 1]
    /\ total' = total + 1
    /\ waiting' = waiting \cup {IF urgent THEN "urgent" ELSE "launched"}
    /\ UNCHANGED <<base, owner, rep, mishaps, lost, flush, work, swallowed, serverVars>>

----------------------------------------------------------------------------
(* flush(), step by step.  flushLock keeps out every other flush.           *)

Unsent == {a \in Attempts : unsent[a] # {}}

(* The lock is taken and the table read.  With nothing unsent the flush     *)
(* returns true, which is success for the worker.                           *)
StartFlush(by) ==
    /\ flush.by = Nobody /\ by \in waiting
    /\ waiting' = waiting \ {by}
    /\ IF Unsent = {}
         THEN /\ UNCHANGED flush
              /\ work' = IF by = "worker" THEN "succeeding" ELSE work
         ELSE /\ flush' = [Idle EXCEPT !.by = by, !.todo = Unsent, !.batch = unsent]
              /\ UNCHANGED work
    /\ UNCHANGED <<appVars, tableVars, swallowed, serverVars>>

Post(a, q) ==
    /\ flush.by # Nobody /\ flush.req = Nobody
    /\ a \in flush.todo /\ req[q] = Free
    /\ req' = [req EXCEPT ![q] = [Free EXCEPT !.at = "sent", !.att = a, !.rep = rep,
                                    !.seqs = flush.batch[a], !.left = flush.batch[a]]]
    /\ flush' = [flush EXCEPT !.req = q]
    /\ UNCHANGED <<appVars, tableVars, waiting, work, swallowed, applied>>

(* Mutant: any outcome of the post marks the batch sent. *)
Marked_AnyOutcome(status) == flush.batch[req[flush.req].att]

(* The answer to the current post: accepted and duplicates are marked sent; *)
(* a refusal (404) marks the batch sent as well; any other error does not.  *)
Marked(status) == IF status = "failed" THEN {} ELSE flush.batch[req[flush.req].att]

Answer(q) ==
    /\ flush.req = q /\ q # Nobody
    /\ req[q].at \in {"ok", "refused", "failed"}
    /\ LET a == req[q].att
       IN /\ unsent' = [unsent EXCEPT ![a] = @ \ Marked(req[q].at)]
          /\ lost'   = [lost EXCEPT ![a] = IF req[q].at = "refused"
                                             THEN @ \cup (unsent[a] \cap Marked("refused")) ELSE @]
          /\ flush'  = [flush EXCEPT !.req = Nobody, !.todo = @ \ {a},
                                     !.allOk = @ /\ req[q].at # "failed"]
    /\ req' = [req EXCEPT ![q] = Free]
    /\ UNCHANGED <<appVars, kept, waiting, work, swallowed, applied>>

(* The request or its answer is lost: the server may never see the request, *)
(* may be handling it still, or may have committed it.                      *)
ConnectionLost(q) ==
    /\ flush.req = q /\ q # Nobody
    /\ flush' = [flush EXCEPT !.req = Nobody, !.todo = @ \ {req[q].att}, !.allOk = FALSE]
    /\ \/ req' = [req EXCEPT ![q] = Free] /\ req[q].at # "open"
       \/ UNCHANGED req
    /\ UNCHANGED <<appVars, tableVars, waiting, work, swallowed, applied>>

(* Mutant: prune without "sent = 1". *)
Prunable_Unsent(a) == {k \in kept[a] : base[a] + k + KeepRows < total}

(* Rows that prune deletes: sent, and KeepRows behind the newest. *)
Prunable(a) == {k \in kept[a] \ unsent[a] : base[a] + k + KeepRows < total}

(* Mutant: the retry is not scheduled. *)
Scheduled_Never == work

(* scheduleRetry with ExistingWorkPolicy.KEEP: work that has not ended yet  *)
(* is left alone.                                                           *)
Scheduled == IF work = "none" THEN "scheduled" ELSE work

FinishFlush ==
    /\ flush.by # Nobody /\ flush.todo = {} /\ flush.req = Nobody
    /\ kept'   = [a \in Attempts |-> kept[a] \ Prunable(a)]
    /\ unsent' = [a \in Attempts |-> unsent[a] \ Prunable(a)]
    /\ work' = CASE flush.by = "worker" -> IF flush.allOk /\ Unsent = {} THEN "succeeding" ELSE "retrying"
                 [] ~flush.allOk -> Scheduled
                 [] OTHER -> work
    /\ swallowed' = (swallowed \/ (~flush.allOk /\ work = "succeeding"))
    /\ flush' = Idle
    /\ UNCHANGED <<appVars, lost, waiting, serverVars>>

(* withTimeoutOrNull(2_000): the run loop stops waiting, and the flush is   *)
(* cancelled where it is, without a retry being scheduled.                  *)
CancelUrgent ==
    /\ LoopWaits
    /\ waiting' = waiting \ {"urgent"}
    /\ flush' = IF flush.by = "urgent" THEN Idle ELSE flush
    /\ UNCHANGED <<appVars, tableVars, work, swallowed, serverVars>>

(* WorkManager starts the worker of the scheduled work, and later takes     *)
(* note of its result.                                                      *)
StartWorker ==
    /\ work = "scheduled"
    /\ work' = "running"
    /\ waiting' = waiting \cup {"worker"}
    /\ UNCHANGED <<appVars, tableVars, flush, swallowed, serverVars>>

WorkerReturns ==
    /\ work \in {"succeeding", "retrying"}
    /\ work' = IF work = "succeeding" THEN "none" ELSE "scheduled"
    /\ UNCHANGED <<appVars, tableVars, flush, waiting, swallowed, serverVars>>

----------------------------------------------------------------------------
(* What may happen to the app.                                              *)

Mishap ==
    /\ mishaps < MaxMishaps
    /\ mishaps' = mishaps + 1

(* The process dies: the run and every flush are gone; the table stays, and *)
(* WorkManager runs work that had not ended once more.                      *)
ProcessGone ==
    /\ cur' = Nobody /\ flush' = Idle /\ waiting' = {}
    /\ work' = IF work = "none" THEN "none" ELSE "scheduled"
    /\ UNCHANGED <<recorded, base, owner, total, rep, swallowed, serverVars>>

Kill ==
    /\ Mishap
    /\ ProcessGone
    /\ UNCHANGED tableVars

(* A version with another schema is installed: the destructive migration    *)
(* drops outbox_events too.                                                 *)
Update ==
    /\ Mishap
    /\ ProcessGone
    /\ kept' = NoEvents /\ unsent' = NoEvents
    /\ lost' = [a \in Attempts |-> lost[a] \cup unsent[a]]

(* Another rep signs in between two calls; logout leaves the table alone. *)
OtherRep ==
    /\ Mishap
    /\ rep = 1 /\ cur = Nobody
    /\ rep' = 2
    /\ UNCHANGED <<cur, recorded, base, owner, total, tableVars, flushVars, serverVars>>

----------------------------------------------------------------------------
(* The server: ingest_events.                                               *)

Outcome(q, status) == IF flush.req = q THEN [req[q] EXCEPT !.at = status, !.got = {}] ELSE Free

(* get_owned_attempt: an attempt of another rep is not found. *)
BeginIngest(q) ==
    /\ req[q].at = "sent"
    /\ req' = [req EXCEPT ![q] = IF owner[req[q].att] = req[q].rep
                                   THEN [@ EXCEPT !.at = "open"] ELSE Outcome(q, "refused")]
    /\ UNCHANGED <<appVars, tableVars, flushVars, applied>>

(* Mutant: no unique index, nothing waits for another transaction. *)
Inserted_NoIndex(a, q) == {}

(* The uncommitted rows of the other transactions: an insert that collides  *)
(* with one of them waits for that transaction to end.                      *)
Inserted(a, q) == UNION {req[p].got : p \in {r \in Requests \ {q} : req[r].at = "open" /\ req[r].att = a}}

Smallest(S) == CHOOSE m \in S : \A k \in S : m <= k

(* The events of the batch in the order of their seq: INSERT ... ON CONFLICT *)
(* DO NOTHING, and the event is applied when the row is new.                *)
InsertEvent(q) ==
    /\ req[q].at = "open" /\ req[q].left # {}
    /\ LET seq == Smallest(req[q].left)
       IN /\ seq \notin Inserted(req[q].att, q)
          /\ req' = [req EXCEPT ![q].left = @ \ {seq},
                                ![q].got  = IF seq \in applied[req[q].att] THEN @ ELSE @ \cup {seq}]
    /\ UNCHANGED <<appVars, tableVars, flushVars, applied>>

CommitIngest(q) ==
    /\ req[q].at = "open" /\ req[q].left = {}
    /\ applied' = [applied EXCEPT ![req[q].att] = @ \cup req[q].got]
    /\ req' = [req EXCEPT ![q] = Outcome(q, "ok")]
    /\ UNCHANGED <<appVars, tableVars, flushVars>>

(* The handler fails or the server goes down: the transaction is rolled back. *)
AbortIngest(q) ==
    /\ req[q].at = "open"
    /\ req' = [req EXCEPT ![q] = Outcome(q, "failed")]
    /\ UNCHANGED <<appVars, tableVars, flushVars, applied>>

(* An answer that nobody waits for any more. *)
AnswerDropped(q) ==
    /\ flush.req # q /\ req[q].at \in {"ok", "refused", "failed"}
    /\ req' = [req EXCEPT ![q] = Free]
    /\ UNCHANGED <<appVars, tableVars, flushVars, applied>>

----------------------------------------------------------------------------
Server(q) == BeginIngest(q) \/ InsertEvent(q) \/ CommitIngest(q)

Next ==
    \/ \E a \in Attempts : BeginAttempt(a)
    \/ \E urgent \in BOOLEAN : Record(urgent)
    \/ \E by \in Callers : StartFlush(by)
    \/ \E a \in Attempts, q \in Requests : Post(a, q)
    \/ \E q \in Requests : Answer(q) \/ ConnectionLost(q)
    \/ FinishFlush \/ CancelUrgent \/ StartWorker \/ WorkerReturns
    \/ Kill \/ Update \/ OtherRep
    \/ \E q \in Requests : Server(q) \/ AbortIngest(q) \/ AnswerDropped(q)

Spec == Init /\ [][Next]_vars

Flushing == (\E by \in Callers : StartFlush(by)) \/ FinishFlush
            \/ (\E a \in Attempts, q \in Requests : Post(a, q)) \/ \E q \in Requests : Answer(q)

(* Fairness: the run loop goes on until the call has ended, the holder of   *)
(* flushLock and WorkManager are not suspended for ever, the server handles *)
(* what it has received; and from some time on the network and the server   *)
(* work, the condition under which the outbox promises delivery.            *)
Fairness ==
    /\ WF_vars(\E urgent \in BOOLEAN : Record(urgent))
    /\ WF_vars(Flushing)
    /\ WF_vars(StartWorker \/ WorkerReturns)
    /\ \A q \in Requests : WF_vars(Server(q) \/ AnswerDropped(q))
    /\ <>[][\A q \in Requests : ~ConnectionLost(q) /\ ~AbortIngest(q)]_vars

FairSpec == Spec /\ Fairness

----------------------------------------------------------------------------
(* Properties.                                                              *)

(* An event that is no longer marked unsent on the phone has been applied   *)
(* by the server or was given up by an update or a refusal: a lost request, *)
(* a lost answer or a post that is abandoned half-way never makes the       *)
(* outbox forget one (flush, markSent, prune).                              *)
NothingForgotten ==
    \A a \in Attempts : 1 .. recorded[a] \subseteq applied[a] \cup unsent[a] \cup lost[a]

(* No event is applied twice: what an open transaction has inserted is not  *)
(* among the committed rows nor in the hands of another transaction,        *)
(* whichever posts of the same batch the phone has given up and made again. *)
AppliedOnce ==
    \A q \in Requests : req[q].at = "open" =>
        /\ req[q].got \cap applied[req[q].att] = {}
        /\ req[q].got \cap Inserted(req[q].att, q) = {}

(* The phone and the server together are an EventChannel: whatever is lost, *)
(* repeated, overtaken or abandoned, the server applies an attempt's events *)
(* in the order of their recording, without a gap.                          *)
Channel == INSTANCE EventChannel WITH delivered <- applied
ImplementsEventChannel == Channel!Spec

(* A recorded event reaches the server in the end, whatever requests and    *)
(* answers are lost on the way and although nothing retries the flush that  *)
(* the run loop abandons; excepted are an app that was killed or updated, a *)
(* change of rep, and a retry swallowed by work that was just succeeding.   *)
EventsArrive ==
    \A a \in Attempts : \A n \in 1 .. MaxEvents :
        recorded[a] >= n ~> n \in applied[a] \/ mishaps > 0 \/ swallowed
=============================================================================
