---------------------------- MODULE MobileBackend ----------------------------
(****************************************************************************)
(* The server side of the mobile dialer for one mobile campaign: the REST    *)
(* handlers of mobile/service.py, the reconciler cron, and the AI legs of    *)
(* the voice gateway as far as they write the dialer's rows.                 *)
(*                                                                           *)
(* A handler is one atomic action when nothing overlaps it.  Up to           *)
(* MaxInFlight handlers may also be suspended between the reads that guard   *)
(* them and the transaction that writes: each has a ...Begin and a ...Commit *)
(* action, and Commit writes from what Begin saw, as the ORM does.           *)
(****************************************************************************)
EXTENDS Naturals, FiniteSets

CONSTANTS Devices,      \* phones of reps
          Leads,        \* campaign_calls rows of the campaign
          Runs,         \* rows of mobile_campaign_runs that may be created
          Attempts,     \* rows of mobile_call_attempts that may be created
          PhoneOf,      \* PhoneOf[l] : the phone number of lead l
          Nobody,       \* SQL NULL in a reference
          MaxInFlight,  \* handlers suspended at the same time (0 : serial)
          MaxCrashes,   \* gateway processes that die without cleaning up
          MaxVerdicts   \* verdicts that reps give on leads

ASSUME NobodyIsNobody == Nobody \notin Devices \cup Leads \cup Runs \cup Attempts
ASSUME PhoneOfType == DOMAIN PhoneOf = Leads
ASSUME Bounds == MaxInFlight \in Nat /\ MaxCrashes \in Nat /\ MaxVerdicts \in Nat

VARIABLES campaign,  \* Campaign.status
          run,       \* run[r] : a MobileCampaignRun
          lead,      \* lead[l] : a CampaignCall
          att,       \* att[a] : a MobileCallAttempt, its AI leg and its phone
          req,       \* handlers between their reads and their writes
          crashes, verdicts

vars == <<campaign, run, lead, att, req, crashes, verdicts>>

(* "ready" stands for draft, scheduled and paused.                          *)
CampaignStatus == {"ready", "running", "completed"}

RunOpen   == {"running", "paused"}
RunStatus == {"unused"} \cup RunOpen \cup {"stopped", "completed"}

(* Remaining is what RemainingCalls counts; "done" stands for completed,  *)
(* completed-voicemail, failed and skipped.                                 *)
Remaining  == {"pending", "leased", "calling"}
LeadStatus == Remaining \cup {"done"}

(* "failed" stands for lead_failed, merge_failed, ai_failed and skipped.    *)
OPEN_ATTEMPT_STATUSES == {"pending", "ai_connected", "ai_ready", "merged"}
AttemptClosed == {"completed", "failed", "expired", "superseded", "abandoned"}
AttemptStatus == {"unused"} \cup OPEN_ATTEMPT_STATUSES \cup AttemptClosed

(* The AI leg bound to an attempt: connecting to the model, ready for the   *)
(* lead, ended with its cleanup done, or lost with its process.             *)
LegUp     == {"connecting", "ready"}
LegStatus == {"none", "ended", "lost"} \cup LegUp

(* What the phone has had accepted about a call, in the order it sends it.  *)
PhoneTold == {"none", "failed", "merged", "over"}
EventType == {"merged", "lead_failed", "setup_failed", "skipped", "ended"}

RunRow  == [dev : Devices \cup {Nobody}, status : RunStatus]
LeadRow == [status : LeadStatus,
            dev    : Devices \cup {Nobody},   \* leased_by_device_id
            expired : BOOLEAN,                \* lease_expires_at < now
            callback : {"none", "booked", "due"},
            dnc    : BOOLEAN,                 \* disposition = do_not_call
            session : Attempts \cup {Nobody}] \* voice_session_id
AttemptRow == [status : AttemptStatus,
               dev  : Devices \cup {Nobody},
               lead : Leads \cup {Nobody},
               run  : Runs \cup {Nobody},
               leg  : LegStatus,
               heard : BOOLEAN,   \* the leg's own "merged" flag
               late : BOOLEAN,    \* expires_at < now
               told : PhoneTold]

(* What a handler of events read of its attempt: the columns that change.   *)
Read == [status : AttemptStatus, session : Attempts \cup {Nobody}]

Request == [op : {"next", "drain"}, run : Runs]
           \cup [op : {"create"}, run : Runs, lead : Leads]
           \cup [op : {"update"}, run : Runs, to : RunStatus, seen : RunStatus]
           \cup [op : {"event"}, att : Attempts, type : EventType, read : Read]

TypeOK == /\ campaign \in CampaignStatus
          /\ run \in [Runs -> RunRow]
          /\ lead \in [Leads -> LeadRow]
          /\ att \in [Attempts -> AttemptRow]
          /\ req \subseteq Request
          /\ crashes \in 0..MaxCrashes
          /\ verdicts \in 0..MaxVerdicts

Init == /\ campaign = "ready"
        /\ run = [r \in Runs |-> [dev |-> Nobody, status |-> "unused"]]
        /\ lead = [l \in Leads |-> [status |-> "pending", dev |-> Nobody, expired |-> FALSE,
                                    callback |-> "none", dnc |-> FALSE, session |-> Nobody]]
        /\ att = [a \in Attempts |-> [status |-> "unused", dev |-> Nobody, lead |-> Nobody,
                                      run |-> Nobody, leg |-> "none", heard |-> FALSE,
                                      late |-> FALSE, told |-> "none"]]
        /\ req = {} /\ crashes = 0 /\ verdicts = 0

-----------------------------------------------------------------------------
(* Rows                                                                     *)

Open(a) == att[a].status \in OPEN_ATTEMPT_STATUSES
OpenAttempts(d) == {a \in Attempts : Open(a) /\ att[a].dev = d}
OpenRuns(d) == {r \in Runs : run[r].status \in RunOpen /\ run[r].dev = d}

(* Mutant: the index on open attempts is missing.                           *)
AttemptIndexAllows_Missing(a) == TRUE

(* The partial unique indexes.  A write they refuse is rolled back.         *)
AttemptIndexAllows(a) == OpenAttempts(att[a].dev) \subseteq {a}

(* Mutant: the index on open runs is missing.                               *)
RunIndexAllows_Missing(r) == TRUE

RunIndexAllows(r) == OpenRuns(run[r].dev) \subseteq {r}

HeldBy(c, d) == c.status = "leased" /\ c.dev = d

Leave(c, status) == [c EXCEPT !.status = status, !.dev = Nobody, !.expired = FALSE]

ReleaseDeviceLeases(ds) ==
    [l \in Leads |-> IF \E d \in ds : HeldBy(lead[l], d) THEN Leave(lead[l], "pending")
                                                         ELSE lead[l]]

(* Mutant: the lease is not compared.                                       *)
FinishCampaignCall_Unfenced(a, new) == [lead EXCEPT ![att[a].lead] = new]

(* new becomes the lead of this attempt, but only while the attempt's phone *)
(* holds the lease.                                                         *)
FinishCampaignCall(a, new) ==
    [lead EXCEPT ![att[a].lead] = IF HeldBy(@, att[a].dev) THEN new ELSE @]

ReturnToPending(a) == FinishCampaignCall(a, Leave(lead[att[a].lead], "pending"))

(* Mutant: nothing closes a merged call.                                    *)
finish_merged_campaign_call_Missing(c, session) == c

(* Conditional on "calling" only: neither the attempt nor its phone is      *)
(* compared.                                                                *)
finish_merged_campaign_call(c, session) ==
    IF c.status = "calling" THEN [c EXCEPT !.status = "done", !.session = session] ELSE c

ReadOf(a) == [status  |-> att[a].status,
              session |-> IF att[a].leg = "none" THEN Nobody ELSE a]

(* Mutant: a call that is going on is not counted.                          *)
RemainingCalls_OnlyQueued(ld) == {l \in Leads : ld[l].status \in {"pending", "leased"}}

RemainingCalls(ld) == {l \in Leads : ld[l].status \in Remaining}

(* The inner SELECT of _LEASE_SQL: leads that may be leased, a due callback *)
(* before any other.                                                        *)
Leasable(ld) ==
    {l \in Leads : /\ \/ ld[l].status = "pending"
                      \/ ld[l].status = "leased" /\ ld[l].expired
                   /\ ld[l].callback # "booked"
                   /\ \A m \in Leads : PhoneOf[m] = PhoneOf[l] => ~ld[m].dnc}
Front(ld) == LET due == {l \in Leasable(ld) : ld[l].callback = "due"}
             IN  IF due = {} THEN Leasable(ld) ELSE due

-----------------------------------------------------------------------------
(* Runs                                                                     *)

start_run(d, r) ==
    /\ campaign # "completed"
    /\ IF OpenRuns(d) = {}
       THEN /\ run[r].status = "unused"
            /\ run' = [run EXCEPT ![r] = [dev |-> d, status |-> "running"]]
            /\ campaign' = "running"
       ELSE /\ r \in OpenRuns(d)
            /\ run' = [run EXCEPT ![r].status = "running"]
            /\ UNCHANGED campaign
    /\ UNCHANGED <<lead, att, req, crashes, verdicts>>

(* Mutant: a stopped run keeps its lease.                                   *)
WriteRun_KeepsLease(r, seen, to) == /\ to \in RunOpen /\ to # seen => RunIndexAllows(r)
                                    /\ run' = [run EXCEPT ![r].status = to]
                                    /\ UNCHANGED lead

(* What update_run writes over the status it read.                          *)
WriteRun(r, seen, to) ==
    /\ to \in RunOpen /\ to # seen => RunIndexAllows(r)
    /\ run' = IF to = seen THEN run ELSE [run EXCEPT ![r].status = to]
    /\ lead' = IF to = "stopped" THEN ReleaseDeviceLeases({run[r].dev}) ELSE lead

update_run(r, to) ==
    /\ run[r].status \in RunOpen
    /\ to \in {"running", "paused", "stopped"}
    /\ WriteRun(r, run[r].status, to)
    /\ UNCHANGED <<campaign, att, req, crashes, verdicts>>

-----------------------------------------------------------------------------
(* The next lead                                                            *)

(* Mutant: a phone on a call may ask for the next lead.                     *)
NextLeadAllowed_OnACall(r) == run[r].status = "running"

NextLeadAllowed(r) == /\ run[r].status = "running"
                      /\ OpenAttempts(run[r].dev) = {}

(* Mutant: what the phone held is not given back.                           *)
Freed_KeepsLeases(r) == lead

Freed(r) == ReleaseDeviceLeases({run[r].dev})

LeaseOne(r) == \E l \in Front(Freed(r)) :
                  lead' = [Freed(r) EXCEPT ![l].status = "leased", ![l].dev = run[r].dev,
                                           ![l].expired = FALSE]

NothingToLease(r) == Front(Freed(r)) = {} /\ lead' = Freed(r)

(* The run ends, and the campaign with it if it was running.                *)
CompleteRun(r) == /\ run' = [run EXCEPT ![r].status = "completed"]
                  /\ campaign' = IF campaign = "running" THEN "completed" ELSE campaign

next_lead(r) ==
    /\ NextLeadAllowed(r)
    /\ \/ LeaseOne(r) /\ UNCHANGED <<campaign, run>>
       \/ /\ NothingToLease(r)
          /\ IF RemainingCalls(lead') = {} THEN CompleteRun(r)
                                             ELSE UNCHANGED <<campaign, run>>
    /\ UNCHANGED <<att, req, crashes, verdicts>>

-----------------------------------------------------------------------------
(* Attempts                                                                 *)

CreateAllowed(r, l) == run[r].status = "running" /\ HeldBy(lead[l], run[r].dev)

(* Supersede what the phone has open, renew the lease row whatever it has   *)
(* become, and insert the attempt.                                          *)
InsertAttempt(r, l, a) ==
    /\ att[a].status = "unused"
    /\ att' = [b \in Attempts |->
                 IF b = a
                 THEN [att[a] EXCEPT !.status = "pending", !.dev = run[r].dev,
                                     !.lead = l, !.run = r]
                 ELSE IF b \in OpenAttempts(run[r].dev)
                 THEN [att[b] EXCEPT !.status = "superseded"]
                 ELSE att[b]]
    /\ lead' = [lead EXCEPT ![l].expired = FALSE]

create_attempt(r, l, a) == /\ CreateAllowed(r, l)
                           /\ InsertAttempt(r, l, a)
                           /\ UNCHANGED <<campaign, run, req, crashes, verdicts>>

(* The app's events about one call, exactly once and in order: it sends one *)
(* of the failures, or merged and later an end.  A lead the AI has already  *)
(* heard about by another way was merged.                                   *)
Follows(row, type) == \/ row.told = "none" /\ type # "ended" /\ (row.heard => type = "merged")
                      \/ row.told = "merged" /\ type = "ended"

ToldAfter(type) == CASE type = "merged" -> "merged"
                     [] type = "ended"  -> "over"
                     [] OTHER           -> "failed"

(* The app has merged the lead into the call.                               *)
Merged(row) == row.heard \/ row.told \in {"merged", "over"}

(* Mutant: an event is applied to a closed attempt.                         *)
StatusAfter_LateEvent(status, type) ==
    CASE type = "merged" -> "merged"
      [] type = "ended"  -> "completed"
      [] OTHER           -> "failed"

(* The status an event leaves, from the status its handler read.            *)
StatusAfter(status, type) ==
    IF status \notin OPEN_ATTEMPT_STATUSES THEN status
    ELSE CASE type = "merged" -> "merged"
           [] type \in {"lead_failed", "setup_failed", "skipped"} -> "failed"
           [] type = "ended"  -> IF status = "merged" THEN "completed" ELSE "abandoned"

LeadAfter(a, read, type) ==
    LET c == lead[att[a].lead] IN
    CASE type = "merged" ->
            FinishCampaignCall(a, [Leave(c, "calling") EXCEPT
                !.session = IF read.session = Nobody THEN @ ELSE read.session])
      [] type = "lead_failed" -> FinishCampaignCall(a, [Leave(c, "done") EXCEPT !.dnc = FALSE])
      [] type = "skipped" -> FinishCampaignCall(a, Leave(c, "done"))
      [] type = "setup_failed" -> ReturnToPending(a)
      [] type = "ended" ->
            IF read.status = "merged"
            THEN [lead EXCEPT ![att[a].lead] = finish_merged_campaign_call(@, read.session)]
            ELSE ReturnToPending(a)

ApplyEvent(a, type, read) ==
    LET status == StatusAfter(read.status, type)
        now    == [att[a] EXCEPT !.told = ToldAfter(type)]
    IN  IF status = read.status
        THEN att' = [att EXCEPT ![a] = now] /\ UNCHANGED lead
        ELSE /\ type = "merged" => AttemptIndexAllows(a)
             /\ att' = [att EXCEPT ![a] = [now EXCEPT !.status = status]]
             /\ lead' = LeadAfter(a, read, type)

ingest_events(a, type) == /\ att[a].status # "unused"
                          /\ Follows(att[a], type)
                          /\ \A q \in req : q.op = "event" => q.att # a
                          /\ ApplyEvent(a, type, ReadOf(a))
                          /\ UNCHANGED <<campaign, run, req, crashes, verdicts>>

(* A rep's verdict on a lead they talked to (the app asks for it after a    *)
(* merged call).                                                            *)
set_rep_disposition(l, disposition) ==
    /\ \E a \in Attempts : /\ att[a].lead = l /\ Merged(att[a])
                           /\ lead[l].dev \in {Nobody, att[a].dev}
    /\ verdicts < MaxVerdicts /\ verdicts' = verdicts + 1
    /\ lead' = [lead EXCEPT ![l] =
                  IF disposition = "callback"
                  THEN [Leave(@, "pending") EXCEPT !.callback = "booked", !.dnc = FALSE]
                  ELSE [@ EXCEPT !.callback = "none", !.dnc = (disposition = "do_not_call")]]
    /\ UNCHANGED <<campaign, run, att, req, crashes>>

-----------------------------------------------------------------------------
(* Overlapping handlers                                                     *)

Begin(q) == /\ Cardinality(req) < MaxInFlight
            /\ req' = req \cup {q}
            /\ UNCHANGED <<campaign, run, lead, att, crashes, verdicts>>

Done(q) == req' = req \ {q} /\ UNCHANGED <<crashes, verdicts>>

NextLeadBegin(r) == NextLeadAllowed(r) /\ Begin([op |-> "next", run |-> r])

NextLeadCommit(q) ==
    /\ q.op = "next"
    /\ \/ LeaseOne(q.run) /\ Done(q)
       \/ /\ NothingToLease(q.run)
          /\ req' = (req \ {q}) \cup (IF RemainingCalls(lead') = {}
                                      THEN {[op |-> "drain", run |-> q.run]} ELSE {})
          /\ UNCHANGED <<crashes, verdicts>>
    /\ UNCHANGED <<campaign, run, att>>

(* The count came back 0: the run and the campaign are completed.           *)
DrainCommit(q) == /\ q.op = "drain"
                  /\ CompleteRun(q.run)
                  /\ Done(q)
                  /\ UNCHANGED <<lead, att>>

CreateBegin(r, l) == /\ CreateAllowed(r, l)
                     /\ Begin([op |-> "create", run |-> r, lead |-> l])

CreateCommit(q, a) == /\ q.op = "create"
                      /\ InsertAttempt(q.run, q.lead, a)
                      /\ Done(q)
                      /\ UNCHANGED <<campaign, run>>

UpdateBegin(r, to) == /\ run[r].status \in RunOpen
                      /\ to \in {"running", "paused", "stopped"} \ {run[r].status}
                      /\ Begin([op |-> "update", run |-> r, to |-> to, seen |-> run[r].status])

UpdateCommit(q) == /\ q.op = "update"
                   /\ WriteRun(q.run, q.seen, q.to)
                   /\ Done(q)
                   /\ UNCHANGED <<campaign, att>>

(* A request that times out is retried, but the (attempt, seq) index keeps  *)
(* the event from being applied twice: one handler per attempt.             *)
EventBegin(a, type) ==
    /\ att[a].status # "unused"
    /\ Follows(att[a], type)
    /\ \A q \in req : q.op = "event" => q.att # a
    /\ Begin([op |-> "event", att |-> a, type |-> type, read |-> ReadOf(a)])

EventCommit(q) == /\ q.op = "event"
                  /\ ApplyEvent(q.att, q.type, q.read)
                  /\ Done(q)
                  /\ UNCHANGED <<campaign, run>>

(* An index refuses the write: the request fails and leaves nothing.        *)
Refused(q) == /\ \/ /\ q.op = "update" /\ q.to \in RunOpen /\ q.to # q.seen
                    /\ ~RunIndexAllows(q.run)
                 \/ /\ q.op = "event" /\ q.type = "merged"
                    /\ StatusAfter(q.read.status, "merged") # q.read.status
                    /\ ~AttemptIndexAllows(q.att)
              /\ Done(q)
              /\ UNCHANGED <<campaign, run, lead, att>>

Overlap == \/ \E r \in Runs : \/ NextLeadBegin(r)
                              \/ \E l \in Leads : CreateBegin(r, l)
                              \/ \E to \in RunStatus : UpdateBegin(r, to)
           \/ \E a \in Attempts, type \in EventType : EventBegin(a, type)
           \/ \E q \in req : \/ NextLeadCommit(q) \/ DrainCommit(q)
                             \/ \E a \in Attempts : CreateCommit(q, a)
                             \/ UpdateCommit(q) \/ EventCommit(q) \/ Refused(q)

-----------------------------------------------------------------------------
(* The voice gateway: the AI leg of an attempt                              *)

(* resolve_mobile_inbound claims a pending attempt for a call by its caller *)
(* ID, or bind_session_by_token for a waiting session by its token.         *)
LegArrives(a) ==
    /\ att[a].status = "pending" /\ ~att[a].late
    /\ att' = [att EXCEPT ![a].status = "ai_connected", ![a].leg = "connecting"]
    /\ UNCHANGED <<campaign, run, lead, req, crashes, verdicts>>

MarkReady(a) ==
    /\ att[a].leg = "connecting"
    /\ att' = [att EXCEPT ![a].leg = "ready",
                          ![a].status = IF @ \in {"pending", "ai_connected"} THEN "ai_ready" ELSE @,
                          ![a].heard = @ \/ att[a].status = "merged"]
    /\ UNCHANGED <<campaign, run, lead, req, crashes, verdicts>>

(* The control channel tells the leg of the merge, or the row does.         *)
on_merged(a) ==
    /\ att[a].leg \in LegUp /\ ~att[a].heard
    /\ att[a].status = "merged"
    /\ att' = [att EXCEPT ![a].heard = TRUE]
    /\ UNCHANGED <<campaign, run, lead, req, crashes, verdicts>>

(* The app's push socket tells the leg first; no row is read or written.    *)
RelaySignal(a) ==
    /\ att[a].leg \in LegUp /\ ~att[a].heard
    /\ att[a].told \in {"none", "merged"}
    /\ att' = [att EXCEPT ![a].heard = TRUE]
    /\ UNCHANGED <<campaign, run, lead, req, crashes, verdicts>>

(* The app's merge tone on the conference, and what it persists.            *)
PersistDtmfMerge(a) ==
    /\ att[a].leg = "ready" /\ ~att[a].heard
    /\ att[a].told \in {"none", "merged"}
    /\ IF att[a].status = "ai_ready"
       THEN /\ att' = [att EXCEPT ![a].heard = TRUE, ![a].status = "merged"]
            /\ lead' = FinishCampaignCall(a,
                          [Leave(lead[att[a].lead], "calling") EXCEPT !.session = a])
       ELSE /\ att' = [att EXCEPT ![a].heard = TRUE]
            /\ UNCHANGED lead
    /\ UNCHANGED <<campaign, run, req, crashes, verdicts>>

(* The campaign call that points to the session of the leg: a voicemail     *)
(* closes it whatever its status.                                           *)
update_campaign_call_post_cleanup(a, how) ==
    [l \in Leads |->
        IF lead[l].session # a THEN lead[l]
        ELSE CASE how = "voicemail" -> [lead[l] EXCEPT !.status = "done", !.dnc = FALSE]
               [] lead[l].status # "calling" -> lead[l]
               [] how = "no_media" -> [lead[l] EXCEPT !.status = "done", !.dnc = FALSE]
               [] OTHER -> [lead[l] EXCEPT !.status = "done"]]

(* Mutant: an attempt the lead never joined is forgotten.                   *)
CleanupStatus_OnlyMerged(row) ==
    IF row.status = "merged" THEN "completed" ELSE row.status

(* What on_cleanup makes of the attempt: a merge that only the leg heard of *)
(* counts, and an attempt the lead never joined is abandoned.               *)
CleanupStatus(row) ==
    IF row.status = "merged" \/ (row.heard /\ row.status \in OPEN_ATTEMPT_STATUSES)
    THEN "completed"
    ELSE IF row.status \in OPEN_ATTEMPT_STATUSES THEN "abandoned" ELSE row.status

(* And of its lead.                                                         *)
CleanupLead(a, c) ==
    CASE Open(a) /\ CleanupStatus(att[a]) = "completed" -> finish_merged_campaign_call(c, a)
      [] /\ Open(a) /\ CleanupStatus(att[a]) = "abandoned"
         /\ HeldBy(c, att[a].dev)                        -> Leave(c, "pending")
      [] OTHER                                           -> c

(* The leg ends, whoever ended it: first the campaign call that points to   *)
(* its session, then on_cleanup on its attempt.                             *)
on_cleanup(a, how) ==
    /\ att[a].leg \in LegUp
    /\ how = "voicemail" => att[a].heard
    /\ att' = [att EXCEPT ![a].leg = "ended", ![a].status = CleanupStatus(att[a])]
    /\ lead' = [update_campaign_call_post_cleanup(a, how) EXCEPT ![att[a].lead] = CleanupLead(a, @)]
    /\ UNCHANGED <<campaign, run, req, crashes, verdicts>>

(* The gateway process dies: no cleanup runs.                               *)
GatewayCrash(a) == /\ crashes < MaxCrashes /\ crashes' = crashes + 1
                   /\ att[a].leg \in LegUp
                   /\ att' = [att EXCEPT ![a].leg = "lost"]
                   /\ UNCHANGED <<campaign, run, lead, req, verdicts>>

-----------------------------------------------------------------------------
(* Time.  MOBILE_LEASE_SECONDS outlives the attempt's TTL and the wait for  *)
(* a merge, so a lease does not run out under an attempt that is still      *)
(* waiting for its leg or has it up.                                        *)

AttemptGetsLate(a) == /\ att[a].status = "pending" /\ ~att[a].late
                      /\ att' = [att EXCEPT ![a].late = TRUE]
                      /\ UNCHANGED <<campaign, run, lead, req, crashes, verdicts>>

LeaseExpires(l) ==
    /\ lead[l].status = "leased" /\ ~lead[l].expired
    /\ \A a \in OpenAttempts(lead[l].dev) :
          att[a].lead = l => att[a].late \/ att[a].leg \in {"ended", "lost"}
    /\ lead' = [lead EXCEPT ![l].expired = TRUE]
    /\ UNCHANGED <<campaign, run, att, req, crashes, verdicts>>

CallbackFallsDue(l) == /\ lead[l].callback = "booked"
                       /\ lead' = [lead EXCEPT ![l].callback = "due"]
                       /\ UNCHANGED <<campaign, run, att, req, crashes, verdicts>>

-----------------------------------------------------------------------------
(* The reconciler                                                           *)

(* Mutant: an attempt whose lease is gone never expires.                    *)
StaleAttempts_WithLease ==
    {a \in Attempts : /\ att[a].status = "pending" /\ att[a].late
                      /\ HeldBy(lead[att[a].lead], att[a].dev)}

StaleAttempts == {a \in Attempts : att[a].status = "pending" /\ att[a].late}

(* Two hours outlast any call that still has its leg.                       *)
MayBeStuck == {l \in Leads : /\ lead[l].status = "calling"
                             /\ \A a \in Attempts : att[a].lead = l => att[a].leg \notin LegUp}

(* stuck : the calling leads whose two hours are over.                      *)
expire_stale_attempts(stuck) ==
    /\ StaleAttempts # {} \/ stuck # {}
    /\ stuck \subseteq MayBeStuck
    /\ att' = [a \in Attempts |-> IF a \in StaleAttempts THEN [att[a] EXCEPT !.status = "expired"]
                                                         ELSE att[a]]
    /\ lead' = [l \in Leads |->
                  IF \E a \in StaleAttempts : att[a].lead = l /\ HeldBy(lead[l], att[a].dev)
                  THEN Leave(lead[l], "pending")
                  ELSE IF l \in stuck THEN [lead[l] EXCEPT !.status = "done"] ELSE lead[l]]
    /\ UNCHANGED <<campaign, run, req, crashes, verdicts>>

(* Mutant: a paused run is never stale.                                     *)
MayBeStale_OnlyRunning == {r \in Runs : run[r].status = "running"}

(* Six hours without a new attempt outlast an attempt that waits for its    *)
(* leg or for a merge, but not one that never closed.                       *)
MayBeStale == {r \in Runs : /\ run[r].status \in RunOpen
                            /\ \A a \in Attempts : att[a].run = r =>
                                  /\ att[a].status # "pending"
                                  /\ att[a].leg \in LegUp => ~Open(a)}

close_stale_runs(stale) ==
    /\ stale # {} /\ stale \subseteq MayBeStale
    /\ run' = [r \in Runs |-> IF r \in stale THEN [run[r] EXCEPT !.status = "completed"]
                                             ELSE run[r]]
    /\ lead' = ReleaseDeviceLeases({run[r].dev : r \in stale})
    /\ UNCHANGED <<campaign, att, req, crashes, verdicts>>

close_finished_campaigns ==
    /\ campaign = "running"
    /\ RemainingCalls(lead) = {}
    /\ \A r \in Runs : run[r].status \notin RunOpen
    /\ campaign' = "completed"
    /\ UNCHANGED <<run, lead, att, req, crashes, verdicts>>

-----------------------------------------------------------------------------
Api == \/ \E d \in Devices, r \in Runs : start_run(d, r)
       \/ \E r \in Runs : \/ next_lead(r)
                          \/ \E to \in RunStatus : update_run(r, to)
                          \/ \E l \in Leads, a \in Attempts : create_attempt(r, l, a)
       \/ \E a \in Attempts, type \in EventType : ingest_events(a, type)
       \/ \E l \in Leads, disposition \in {"callback", "do_not_call", "other"} :
             set_rep_disposition(l, disposition)

Gateway == \E a \in Attempts : \/ LegArrives(a) \/ MarkReady(a) \/ on_merged(a)
                               \/ RelaySignal(a) \/ PersistDtmfMerge(a)
                               \/ \E how \in {"answered", "no_media", "voicemail"} :
                                     on_cleanup(a, how)
                               \/ GatewayCrash(a)

Time == \/ \E a \in Attempts : AttemptGetsLate(a)
        \/ \E l \in Leads : LeaseExpires(l) \/ CallbackFallsDue(l)

Reconciler == \/ \E stuck \in SUBSET Leads : expire_stale_attempts(stuck)
              \/ \E stale \in SUBSET Runs : close_stale_runs(stale)
              \/ close_finished_campaigns

Next == Api \/ Overlap \/ Gateway \/ Time \/ Reconciler

Spec == Init /\ [][Next]_vars

(* What a fair scheduler gives: the cron runs, clocks advance, and an AI    *)
(* leg ends (the merge wait and the call length are bounded).               *)
ServerFairness ==
    /\ WF_vars(\E stuck \in SUBSET Leads : expire_stale_attempts(stuck))
    /\ \A a \in Attempts : /\ WF_vars(AttemptGetsLate(a))
                           /\ WF_vars(\E how \in {"answered", "no_media", "voicemail"} :
                                         on_cleanup(a, how))
    /\ WF_vars(\E stale \in SUBSET Runs : close_stale_runs(stale))
    /\ WF_vars(close_finished_campaigns)

(* An app that is alive reports the end of a call it reported as merged.    *)
AppFairness == \A a \in Attempts : WF_vars(ingest_events(a, "ended"))

FairSpec       == Spec /\ ServerFairness /\ AppFairness

-----------------------------------------------------------------------------
(* Safety                                                                   *)

(* A device has at most one open attempt, whatever handlers of it overlap   *)
(* (create_attempt supersedes; the partial unique index refuses the rest).  *)
OneOpenAttemptPerDevice ==
    \A a, b \in Attempts : Open(a) /\ Open(b) /\ att[a].dev = att[b].dev => a = b

(* A device has at most one open run, even when a run is reopened by an     *)
(* update that had read it before it was closed.                            *)
OneOpenRunPerDevice == \A d \in Devices : \A r, s \in OpenRuns(d) : r = s

(* Requests that do not overlap leave a phone holding at most one lead:     *)
(* next_lead gives back what the phone held before it leases.               *)
OneLeasePerDevice ==
    \A l, m \in Leads : lead[l].status = "leased" /\ HeldBy(lead[m], lead[l].dev) => l = m

(* A phone that is on a call holds no lead but the one it is calling:       *)
(* next_lead refuses it a second, and every way a lead is lost forgets it.  *)
BusyDeviceHoldsOnlyItsLead ==
    \A a \in Attempts, l \in Leads : Open(a) /\ HeldBy(lead[l], att[a].dev) => att[a].lead = l

(* A lead is held only by a phone whose run is open: stopping, completing   *)
(* or closing a run gives its lease back.                                   *)
LeaseHasOpenRun ==
    \A l \in Leads : lead[l].status = "leased" => OpenRuns(lead[l].dev) # {}

(* A lead that is being talked to has an attempt that will close it: the    *)
(* attempt that was merged with it is still "merged".                       *)
CallingHasMergedAttempt ==
    \A l \in Leads : lead[l].status = "calling" =>
        \E a \in Attempts : att[a].lead = l /\ att[a].status = "merged"

(* An attempt whose AI leg has been cleaned up is closed, in whatever order *)
(* the app's events, the merge signals and the cleanup came.                *)
CleanedUpIsClosed == \A a \in Attempts : att[a].leg = "ended" => ~Open(a)

(* A closed attempt stays as it was closed: a late event, a second merge    *)
(* signal or the cleanup of its leg changes nothing.                        *)
ClosedStaysClosed ==
    [][\A a \in Attempts : att[a].status \in AttemptClosed => att'[a].status = att[a].status]_vars

(* The campaign completes only in a moment when no lead is pending, leased  *)
(* or being talked to.                                                      *)
CompletesOnlyWhenDrained ==
    [][campaign' = "completed" /\ campaign # "completed" =>
          \A l \in Leads : lead'[l].status = "done"]_vars

(* Each open attempt closes in the end, so next_lead does not refuse the    *)
(* phone for ever with attempt_in_progress.                                 *)
DeviceFreed == \A a \in Attempts : Open(a) ~> ~Open(a)

(* A campaign whose leads are all closed completes, even if every app that  *)
(* ran it is gone (a callback may reopen a lead first).                     *)
DrainedCampaignCompletes ==
    (campaign = "running" /\ RemainingCalls(lead) = {})
        ~> (campaign = "completed" \/ RemainingCalls(lead) # {})
-----------------------------------------------------------------------------
(* Refinement: the leads of the campaign move as LeadQueue says, whatever   *)
(* handlers overlap and whatever crashes.                                   *)
Stage(c) == CASE c.status = "pending" -> "queued"
              [] c.status = "leased"  -> "held"
              [] c.status = "calling" -> "talking"
              [] c.status = "done"    -> "closed"

LQ == INSTANCE LeadQueue WITH
        stage  <- [l \in Leads |-> Stage(lead[l])],
        holder <- [l \in Leads |-> IF lead[l].status = "leased" THEN lead[l].dev ELSE Nobody],
        wanted <- [l \in Leads |-> lead[l].callback # "none"]

ImplementsLeadQueue == LQ!Spec
=============================================================================
