--------------------------- MODULE ServerCampaign ---------------------------
(***************************************************************************)
(* A campaign the server dials (ai/campaign_executor.py): the arq jobs     *)
(* that run its dial loop, the users who start, pause, stop and retry it   *)
(* (ai/campaign_router.py), the provider's callbacks and hang-ups          *)
(* (voice/webhook_router.py), and the cleanup of the media stream          *)
(* (voice/websocket_handler.py).  Every database session of the code is a  *)
(* step of its own, so a loop, a callback and a user interleave between    *)
(* two of them (the session that starts a job reads the status, writes     *)
(* "running" and reads the calls, which is one step here); a worker may    *)
(* die between any two and arq runs its job again.                         *)
(*                                                                         *)
(* Rows are the campaign's calls in the order of created_at.  A voice      *)
(* session is the row and how many sessions the row had when it was made.  *)
(* Left out: the numbers and their normalisation, the dispositions, the    *)
(* recordings, and the three counters of the campaign, which no code of    *)
(* the loop reads.                                                         *)
(***************************************************************************)
EXTENDS Integers, FiniteSets

CONSTANTS NumRows,        \* calls of the campaign
          MaxLoad,        \* a campaign of n calls gets at most MaxLoad \div n jobs
          Providers,      \* the providers the campaign may be dialled with
          MaxConcurrent,  \* Campaign.max_concurrent_calls
          MaxTicks,       \* polls of a wait for a slot before it gives up
          MaxEvents,      \* status changes by users and worker deaths, together at most
          MaxBlips        \* failed reads of the status, at most

ASSUME Sizes == /\ NumRows \in Nat \ {0} /\ MaxLoad >= NumRows /\ MaxLoad \in Nat
                /\ Providers # {} /\ Providers \subseteq {"twilio", "tata_tele"}
                /\ MaxConcurrent \in Nat \ {0} /\ MaxTicks \in Nat /\ MaxEvents \in Nat
                /\ MaxBlips \in Nat

Jobs     == 1 .. MaxLoad
Sessions == (1 .. NumRows) \X (1 .. (MaxLoad + MaxEvents))

Startable == {"draft", "scheduled", "paused", "running"}
Ended     == {"stopped", "completed", "failed"}

VARIABLES provider,  \* Campaign.provider
          campaign,  \* Campaign.status
          call,      \* CampaignCall rows: status, linked session (0: none), retry_count
          dials,     \* voice sessions begun for a row
          job,       \* the dial loops
          retrying,  \* /retry-failed has reset the rows and not yet enqueued the job
          leg,       \* the provider's legs and what was reported of them
          crossed,   \* a user changed the status under a job that had not ended
          waived,    \* a wait ended without a slot
          after,     \* calls a loop placed since the campaign left "running"
          patches, blips, deaths

vars == <<provider, campaign, call, dials, job, retrying, leg, crossed, waived, after,
          patches, blips, deaths>>
bounds == <<patches, blips, deaths>>
users  == <<retrying, crossed, patches>>   \* what only a user's request changes

Idle == [pc |-> "idle", todo |-> {}, ticks |-> 0, session |-> 0]
NoLeg == [phase |-> "none", hook |-> "due", clean |-> "due"]

Init == /\ provider \in Providers
        /\ campaign = "draft"
        /\ \E n \in 1 .. NumRows :
              /\ call = [r \in 1 .. n |-> [status |-> "pending", link |-> 0, retries |-> 0]]
              /\ dials = [r \in 1 .. n |-> 0]
        /\ job = [j \in Jobs |-> Idle]
        /\ leg = [s \in Sessions |-> NoLeg]
        /\ retrying = FALSE /\ crossed = FALSE /\ waived = FALSE
        /\ after = [j \in Jobs |-> 0]
        /\ patches = 0 /\ blips = 0 /\ deaths = 0

Rows       == DOMAIN call
MoreEvents  == patches + deaths < MaxEvents
Live       == {j \in Jobs : job[j].pc \notin {"idle", "done"}}
With(st)   == {r \in Rows : call[r].status = st}
Row(j)     == CHOOSE r \in job[j].todo : \A q \in job[j].todo : r <= q
To(rs, st) == [r \in Rows |-> IF r \in rs THEN [call[r] EXCEPT !.status = st] ELSE call[r]]
SetStatus(r, st) == call' = [call EXCEPT ![r].status = st]

-----------------------------------------------------------------------------
(* Users                                                                    *)

Spare == {j \in Jobs : job[j].pc = "idle" /\ j * Cardinality(Rows) <= MaxLoad}

Enqueue == \E j \in Spare : /\ \A i \in Spare : j <= i
                            /\ job' = [job EXCEPT ![j].pc = "queued"]

(* Campaign.status becomes st; the count of calls placed since it left      *)
(* "running" starts again when it comes back.                               *)
Becomes(st) == /\ campaign' = st
               /\ after' = IF st = "running" THEN [j \in Jobs |-> 0] ELSE after

(* PATCH /{id}/status writes any status over any other, and enqueues a job  *)
(* whenever the new one is "running".                                       *)
PatchStatus(st) ==
    /\ MoreEvents
    /\ Becomes(st)
    /\ IF st = "running" THEN Enqueue ELSE UNCHANGED job
    /\ crossed' = (crossed \/ Live # {} \/ retrying)
    /\ patches' = patches + 1
    /\ UNCHANGED <<provider, call, dials, retrying, leg, waived, blips, deaths>>

MayRetry == campaign # "running"

(* POST /retry-failed resets the failed calls and commits ...               *)
RetryReset ==
    /\ ~retrying /\ MayRetry
    /\ With("failed") # {}
    /\ Spare # {}
    /\ call' = [r \in Rows |-> IF r \in With("failed")
                               THEN [call[r] EXCEPT !.status = "pending", !.retries = @ + 1]
                               ELSE call[r]]
    /\ retrying' = TRUE
    /\ UNCHANGED <<provider, campaign, dials, job, leg, crossed, waived, after, bounds>>

(* ... then marks the campaign running and enqueues its job.                *)
RetryEnqueue ==
    /\ retrying
    /\ Becomes("running")
    /\ Enqueue
    /\ retrying' = FALSE
    /\ UNCHANGED <<provider, call, dials, leg, crossed, waived, bounds>>

-----------------------------------------------------------------------------
(* The dial loop                                                            *)

Goto(j, pc) == job' = [job EXCEPT ![j].pc = pc]
NextRow(j)  == job' = [job EXCEPT ![j].pc = "check", ![j].session = 0,
                                  ![j].todo = @ \ {Row(j)}]
End(j)      == job' = [job EXCEPT ![j] = [Idle EXCEPT !.pc = "done"]]

Snapshot_AllOpen == With("pending") \cup With("calling")  \* mutant: calls under way as well
Snapshot == With("pending")

(* The campaign is marked running and its pending calls are read; from any  *)
(* other status the ValueError ends in the handler that marks it failed.    *)
StartJob(j) ==
    /\ job[j].pc = "queued"
    /\ IF campaign \in Startable
       THEN /\ Becomes("running")
            /\ job' = [job EXCEPT ![j].pc = "gate", ![j].todo = Snapshot]
       ELSE Becomes("failed") /\ End(j)
    /\ UNCHANGED <<provider, call, dials, leg, waived, users, blips, deaths>>

(* The credit gate: InsufficientCreditsError fails the campaign and every   *)
(* call of the snapshot.                                                    *)
Gate(j) ==
    /\ job[j].pc = "gate"
    /\ \/ Goto(j, "check") /\ UNCHANGED <<campaign, call, after>>
       \/ Becomes("failed") /\ call' = To(job[j].todo, "failed") /\ End(j)
    /\ UNCHANGED <<provider, dials, leg, waived, users, blips, deaths>>

ReadStatus_Once(seen) == seen = "running" /\ UNCHANGED blips  \* mutant: the status is not read again

(* _get_campaign_status fails open: an error reads as "running".            *)
ReadStatus(seen) ==
    \/ seen = campaign /\ UNCHANGED blips
    \/ /\ seen = "running" /\ campaign # "running"
       /\ blips < MaxBlips /\ blips' = blips + 1

(* Before every call the loop reads the status again, and halts when it is  *)
(* no longer running.                                                       *)
CheckStatus(j) ==
    /\ job[j].pc = "check" /\ job[j].todo # {}
    /\ \E seen \in {campaign, "running"} :
          /\ ReadStatus(seen)
          /\ IF seen = "running" THEN job' = [job EXCEPT ![j].pc = "wait", ![j].ticks = 0]
             ELSE IF seen \in Ended THEN Goto(j, "skip") ELSE End(j)
    /\ UNCHANGED <<provider, campaign, call, dials, leg, waived, after, users, deaths>>

(* Halted by a stop, the loop marks what is still pending as skipped.       *)
SkipRest(j) ==
    /\ job[j].pc = "skip"
    /\ call' = To(With("pending"), "skipped")
    /\ End(j)
    /\ UNCHANGED <<provider, campaign, dials, leg, waived, after, users, blips, deaths>>

SlotFree_OneMore == Cardinality(With("calling")) <= MaxConcurrent  \* mutant: one too many
SlotFree == Cardinality(With("calling")) < MaxConcurrent
GivesUp(j) == job[j].ticks >= MaxTicks
Polled_Reset(n) == n  \* mutant: the time waited is not counted
Polled(n)  == n + 1

(* _wait_for_concurrency_slot returns when a slot is free, when the         *)
(* campaign is no longer running, and when it has waited long enough; the   *)
(* loop places the call in all three cases.                                 *)
WaitForSlot(j) ==
    /\ job[j].pc = "wait"
    /\ \/ /\ GivesUp(j)
          /\ Goto(j, "place") /\ waived' = TRUE /\ UNCHANGED blips
       \/ /\ ~GivesUp(j) /\ SlotFree
          /\ Goto(j, "place") /\ UNCHANGED <<waived, blips>>
       \/ /\ ~GivesUp(j) /\ ~SlotFree
          /\ \E seen \in {campaign, "running"} :
                /\ ReadStatus(seen)
                /\ IF seen = "running"
                   THEN job' = [job EXCEPT ![j].ticks = Polled(@)] /\ UNCHANGED waived
                   ELSE Goto(j, "place") /\ waived' = TRUE
    /\ UNCHANGED <<provider, campaign, call, dials, leg, after, users, deaths>>

(* The end of the list completes the campaign, whatever its status is.      *)
FinishCampaign(j) ==
    /\ job[j].pc = "check" /\ job[j].todo = {}
    /\ Becomes("completed")
    /\ End(j)
    /\ UNCHANGED <<provider, call, dials, leg, waived, users, blips, deaths>>

(* _place_call_safe, first half: the row is marked "calling" and committed  *)
(* before anything is dialled - unless the credits have run out.            *)
MarkCalling(j) ==
    /\ job[j].pc = "place"
    /\ \/ /\ SetStatus(Row(j), "failed")
          /\ NextRow(j)
          /\ UNCHANGED <<dials, after>>
       \/ /\ SetStatus(Row(j), "calling")
          /\ dials' = [dials EXCEPT ![Row(j)] = @ + 1]
          /\ job' = [job EXCEPT ![j].pc = "link", ![j].session = dials[Row(j)] + 1]
          /\ after' = IF campaign = "running" THEN after ELSE [after EXCEPT ![j] = @ + 1]
    /\ UNCHANGED <<provider, campaign, leg, waived, users, blips, deaths>>

(* No number is assigned to the agent.                                      *)
NoNumber(j) ==
    /\ job[j].pc = "link"
    /\ SetStatus(Row(j), "failed")
    /\ NextRow(j)
    /\ UNCHANGED <<provider, campaign, dials, leg, waived, after, users, blips, deaths>>

(* The voice session is stored and the row linked to it.                    *)
LinkSession(j) ==
    /\ job[j].pc = "link"
    /\ call' = [call EXCEPT ![Row(j)].link = job[j].session]
    /\ Goto(j, "dial")
    /\ UNCHANGED <<provider, campaign, dials, leg, waived, after, users, blips, deaths>>

Ring(s) == leg' = [leg EXCEPT ![s].phase = "ringing"]

(* The provider accepts the call.                                           *)
PlaceCall(j) ==
    /\ job[j].pc = "dial"
    /\ Ring(<<Row(j), job[j].session>>)
    /\ NextRow(j)
    /\ UNCHANGED <<provider, campaign, call, dials, waived, after, users, blips, deaths>>

(* The placement raises: the row is marked failed.  When what failed is the *)
(* answer to the request, the provider dials all the same.                  *)
PlacementError(j) ==
    /\ job[j].pc \in {"link", "dial"}
    /\ \/ job[j].pc = "dial" /\ Ring(<<Row(j), job[j].session>>)
       \/ UNCHANGED leg
    /\ SetStatus(Row(j), "failed")
    /\ NextRow(j)
    /\ UNCHANGED <<provider, campaign, dials, waived, after, users, blips, deaths>>

(* Any other error of the loop - a read of the credits, the count of calls  *)
(* or the rows to skip - ends it in the handler that marks the campaign     *)
(* failed.                                                                  *)
LoopFails(j) ==
    /\ \/ job[j].pc \in {"queued", "gate", "wait", "skip"}
       \/ job[j].pc = "check" /\ job[j].todo = {}
    /\ Becomes("failed")
    /\ End(j)
    /\ UNCHANGED <<provider, call, dials, leg, waived, users, blips, deaths>>

(* The worker dies; arq runs the job again from its start.                  *)
WorkerDies(j) ==
    /\ MoreEvents
    /\ job[j].pc \notin {"idle", "queued", "done"}
    /\ job' = [job EXCEPT ![j] = [Idle EXCEPT !.pc = "queued"]]
    /\ after' = [after EXCEPT ![j] = 0]
    /\ deaths' = deaths + 1
    /\ UNCHANGED <<provider, campaign, call, dials, leg, waived, users, blips>>

LoopStep(j) == \/ StartJob(j) \/ Gate(j) \/ CheckStatus(j) \/ SkipRest(j) \/ WaitForSlot(j)
               \/ FinishCampaign(j) \/ MarkCalling(j) \/ NoNumber(j) \/ LinkSession(j)
               \/ PlaceCall(j) \/ PlacementError(j)

-----------------------------------------------------------------------------
(* The provider, its callbacks, and the media stream's cleanup              *)

Phase(s, from, to) == leg[s].phase = from /\ leg' = [leg EXCEPT ![s].phase = to]
LoopOnly == <<provider, campaign, dials, job, waived, after, users, blips, deaths>>
Linked(s) == s[1] \in Rows /\ call[s[1]].link = s[2]

Answers(s)  == Phase(s, "ringing", "talking") /\ UNCHANGED <<call, LoopOnly>>
RingEnds(s) == Phase(s, "ringing", "missed") /\ UNCHANGED <<call, LoopOnly>>
CallEnds(s) == Phase(s, "talking", "ended") /\ UNCHANGED <<call, LoopOnly>>

(* Twilio's machine detection marks the linked row and hangs up; the hang-up*)
(* may fail.                                                                *)
MachineAnswers(s) ==
    /\ provider = "twilio" /\ leg[s].phase = "talking"
    /\ IF Linked(s) THEN SetStatus(s[1], "completed-voicemail") ELSE UNCHANGED call
    /\ \/ Phase(s, "talking", "ended")
       \/ UNCHANGED leg
    /\ UNCHANGED LoopOnly

(* Tata's callback names the session.  Twilio's names the call, and the     *)
(* session learns that name in /outbound-twiml, which an answered call      *)
(* fetches; until then it is "pending_...".                                 *)
SessionFound(s) == provider = "tata_tele" \/ leg[s].phase = "ended"

Keeps(st) == st = "completed-voicemail"

(* The status callback reads the row it is about ...                        *)
CallbackReads(s) ==
    /\ leg[s].phase \in {"missed", "ended"} /\ leg[s].hook = "due"
    /\ leg' = [leg EXCEPT ![s].hook =
                 IF ~SessionFound(s) \/ ~Linked(s) \/ Keeps(call[s[1]].status)
                 THEN "done" ELSE "write"]
    /\ UNCHANGED <<call, LoopOnly>>

(* ... and writes the outcome over whatever the row is by then.             *)
CallbackWrites(s) ==
    /\ leg[s].hook = "write"
    /\ leg' = [leg EXCEPT ![s].hook = "done"]
    /\ \/ leg[s].phase = "ended" /\ SetStatus(s[1], "completed")
       \/ SetStatus(s[1], "failed")
    /\ UNCHANGED LoopOnly

CleanupSees_Pending(r) == call[r].status = "pending"  \* mutant: a fallback for the wrong status
CleanupSees(r) == call[r].status = "calling"

(* _update_campaign_call_post_cleanup reads the row ...                     *)
CleanupReads(s) ==
    /\ leg[s].phase = "ended" /\ leg[s].clean = "due"
    /\ leg' = [leg EXCEPT ![s].clean = IF ~Linked(s) THEN "done"
                                       ELSE IF CleanupSees(s[1]) THEN "fill"
                                       ELSE "keep"]
    /\ UNCHANGED <<call, LoopOnly>>

(* ... and fills in the outcome if the row is still "calling"; a voicemail  *)
(* heard in the call overrides any other outcome.                           *)
CleanupWrites(s) ==
    /\ leg[s].clean \in {"fill", "keep"}
    /\ leg' = [leg EXCEPT ![s].clean = "done"]
    /\ \/ SetStatus(s[1], "completed-voicemail")
       \/ /\ leg[s].clean = "fill" /\ call[s[1]].status = "calling"
          /\ \E st \in {"completed", "failed"} : SetStatus(s[1], st)
       \/ /\ leg[s].clean = "keep" \/ call[s[1]].status # "calling"
          /\ UNCHANGED call
    /\ UNCHANGED LoopOnly

Users    == \/ \E st \in {"running", "paused", "stopped"} : PatchStatus(st)
            \/ RetryReset \/ RetryEnqueue
Worker   == \E j \in Jobs : LoopStep(j) \/ LoopFails(j) \/ WorkerDies(j)
Provider == \E s \in Sessions : \/ Answers(s) \/ RingEnds(s) \/ CallEnds(s)
                                \/ MachineAnswers(s) \/ CallbackReads(s) \/ CallbackWrites(s)
Gateway  == \E s \in Sessions : CleanupReads(s) \/ CleanupWrites(s)

Next == Users \/ Worker \/ Provider \/ Gateway

Spec == Init /\ [][Next]_vars

(* A worker keeps running its jobs, a call is not for ever (its length is   *)
(* bounded), and the media stream's cleanup runs.  Callbacks may be lost.   *)
LoopFairness    == WF_vars(\E j \in Jobs : LoopStep(j))
GatewayFairness == WF_vars(\E s \in Sessions : CallEnds(s) \/ CleanupReads(s) \/ CleanupWrites(s))

FairSpec == Spec /\ LoopFairness /\ GatewayFairness

(* No callback is lost and no call rings for ever.                          *)
FairCallbackSpec ==
    FairSpec /\ WF_vars(\E s \in Sessions : \/ Answers(s) \/ RingEnds(s)
                                            \/ CallbackReads(s) \/ CallbackWrites(s))
-----------------------------------------------------------------------------
(* Properties                                                               *)

(* A call is dialled once, and once more for every retry the user asked     *)
(* for: neither a worker that dies nor a late callback dials it again.      *)
(* The exception is a user who changes the status while a job has not       *)
(* ended: the old loop and the new one then dial the same calls.            *)
DialledOncePerTry == crossed \/ \A r \in Rows : dials[r] <= 1 + call[r].retries

(* No more than max_concurrent_calls are under way, the calls a dead worker *)
(* left behind included, unless a wait was given up or a status change let  *)
(* two loops run.                                                           *)
SlotsRespected == crossed \/ waived \/ Cardinality(With("calling")) <= MaxConcurrent

(* A loop that runs when the user pauses or stops places at most one more   *)
(* call, and one more for every read of the status that failed.             *)
PauseHolds == \A j \in Jobs : after[j] <= 1 + blips

(* Every dial loop ends, although calls may stay "calling" for ever.        *)
LoopsEnd == []<>(Live = {})

Newest(r)          == <<r, call[r].link>>
StillCalling(r, ph) == /\ r \in Rows /\ call[r].status = "calling"
                       /\ call[r].link = dials[r] /\ leg[Newest(r)].phase \in ph

(* A call that was answered does not stay "calling", even when the          *)
(* provider's callback is lost: the cleanup of the media stream ends it.    *)
AnsweredCallSettles == \A r \in 1 .. NumRows : []<>~StillCalling(r, {"talking", "ended"})

(* What the status webhook's docstring says: a call that was busy or not    *)
(* answered is updated by its callback.  Under Twilio it is not.            *)
UnansweredCallSettles == \A r \in 1 .. NumRows : []<>~StillCalling(r, {"missed"})

=============================================================================
