------------------------- MODULE MobileBackend_proofs -------------------------
(****************************************************************************)
(* Theorems of MobileBackend, for any number of phones, leads, runs and      *)
(* attempts and any number of overlapping handlers: the types, the two       *)
(* partial unique indexes as the code keeps them, and that the leads move as *)
(* LeadQueue says.                                                           *)
(****************************************************************************)
EXTENDS MobileBackend, TLAPS

-----------------------------------------------------------------------------
(* What the helpers on rows return.                                         *)

LEMMA LeaveType ==
    ASSUME NEW c \in LeadRow, NEW s \in LeadStatus
    PROVE  Leave(c, s) \in LeadRow
  BY DEF Leave, LeadRow

LEMMA FieldType ==
    ASSUME NEW c \in LeadRow
    PROVE  /\ \A s \in LeadStatus : [c EXCEPT !.status = s] \in LeadRow
           /\ \A dnc \in BOOLEAN : [c EXCEPT !.dnc = dnc] \in LeadRow
           /\ [c EXCEPT !.expired = FALSE] \in LeadRow
           /\ [c EXCEPT !.expired = TRUE] \in LeadRow
           /\ \A b \in {"none", "booked", "due"} : [c EXCEPT !.callback = b] \in LeadRow
  BY DEF LeadRow

LEMMA ReleaseType ==
    ASSUME TypeOK, NEW ds
    PROVE  ReleaseDeviceLeases(ds) \in [Leads -> LeadRow]
  <1>1. \A l \in Leads : Leave(lead[l], "pending") \in LeadRow
    BY LeaveType DEF TypeOK, LeadStatus, Remaining
  <1> QED
    BY <1>1 DEF TypeOK, ReleaseDeviceLeases

(* new only has to be a row when the attempt has a lead.                    *)
LEMMA FinishType ==
    ASSUME TypeOK, NEW a \in Attempts, NEW new,
           att[a].lead \in Leads => new \in LeadRow
    PROVE  FinishCampaignCall(a, new) \in [Leads -> LeadRow]
  BY DEF TypeOK, FinishCampaignCall

LEMMA ReturnType ==
    ASSUME TypeOK, NEW a \in Attempts
    PROVE  ReturnToPending(a) \in [Leads -> LeadRow]
  <1>1. att[a].lead \in Leads => Leave(lead[att[a].lead], "pending") \in LeadRow
    BY LeaveType DEF TypeOK, LeadStatus, Remaining
  <1> QED
    BY <1>1, FinishType DEF ReturnToPending

LEMMA FinishMergedType ==
    ASSUME NEW c \in LeadRow, NEW s \in Attempts \cup {Nobody}
    PROVE  finish_merged_campaign_call(c, s) \in LeadRow
  BY DEF LeadRow, LeadStatus, Remaining, finish_merged_campaign_call

LEMMA ReadOfType ==
    ASSUME TypeOK, NEW a \in Attempts
    PROVE  ReadOf(a) \in Read
  BY DEF TypeOK, AttemptRow, Read, ReadOf

(* The kinds of requests differ in op.                                      *)
LEMMA RequestFields ==
    ASSUME NEW q \in Request
    PROVE  /\ q.op \in {"next", "drain", "create", "update"} => q.run \in Runs
           /\ q.op = "create" => q.lead \in Leads
           /\ q.op = "update" => q.to \in RunStatus /\ q.seen \in RunStatus
           /\ q.op = "event" => /\ q.att \in Attempts
                                /\ q.type \in EventType
                                /\ q.read \in Read
  BY DEF Request

-----------------------------------------------------------------------------
(* The parts of handlers that a serial and an overlapping one share.        *)

LEMMA WriteRunType ==
    ASSUME TypeOK, NEW r \in Runs, NEW seen \in RunStatus, NEW to \in RunStatus,
           WriteRun(r, seen, to)
    PROVE  run' \in [Runs -> RunRow] /\ lead' \in [Leads -> LeadRow]
  BY ReleaseType DEF TypeOK, WriteRun, RunRow

LEMMA LeaseOneType ==
    ASSUME TypeOK, NEW r \in Runs, LeaseOne(r)
    PROVE  lead' \in [Leads -> LeadRow]
  <1>1. Freed(r) \in [Leads -> LeadRow]
    BY ReleaseType DEF Freed
  <1>2. PICK l \in Front(Freed(r)) :
           lead' = [Freed(r) EXCEPT ![l].status = "leased", ![l].dev = run[r].dev,
                                    ![l].expired = FALSE]
    BY DEF LeaseOne
  <1>3. run[r].dev \in Devices \cup {Nobody}
    BY DEF TypeOK, RunRow
  <1>4. [Freed(r)[l] EXCEPT !.status = "leased", !.dev = run[r].dev, !.expired = FALSE]
           \in LeadRow \/ l \notin Leads
    BY <1>1, <1>3 DEF LeadRow, LeadStatus, Remaining
  <1>5. \A m \in Leads :
          lead'[m] = IF m = l
                     THEN [Freed(r)[l] EXCEPT !.status = "leased", !.dev = run[r].dev,
                                              !.expired = FALSE]
                     ELSE Freed(r)[m]
    <2> HIDE DEF Freed
    <2> QED
      BY <1>1, <1>2
  <1>6. lead' = [m \in Leads |-> lead'[m]]
    BY <1>1, <1>2
  <1> QED
    BY <1>1, <1>4, <1>5, <1>6

LEMMA NothingToLeaseType ==
    ASSUME TypeOK, NEW r \in Runs, NothingToLease(r)
    PROVE  lead' \in [Leads -> LeadRow]
  BY ReleaseType DEF NothingToLease, Freed

LEMMA CompleteRunType ==
    ASSUME TypeOK, NEW r \in Runs, CompleteRun(r)
    PROVE  run' \in [Runs -> RunRow] /\ campaign' \in CampaignStatus
  BY DEF TypeOK, CompleteRun, RunRow, RunStatus, CampaignStatus

LEMMA InsertAttemptType ==
    ASSUME TypeOK, NEW r \in Runs, NEW l \in Leads, NEW a \in Attempts, InsertAttempt(r, l, a)
    PROVE  att' \in [Attempts -> AttemptRow] /\ lead' \in [Leads -> LeadRow]
  <1>1. lead' \in [Leads -> LeadRow]
    BY DEF TypeOK, InsertAttempt, LeadRow
  <1>2. run[r].dev \in Devices \cup {Nobody}
    BY DEF TypeOK, RunRow
  <1>3. \A b \in Attempts : /\ att[b] \in AttemptRow
                            /\ [att[b] EXCEPT !.status = "superseded"] \in AttemptRow
    BY DEF TypeOK, AttemptRow, AttemptStatus, AttemptClosed
  <1>4. [att[a] EXCEPT !.status = "pending", !.dev = run[r].dev, !.lead = l, !.run = r]
           \in AttemptRow
    BY <1>2, <1>3 DEF AttemptRow, AttemptStatus, OPEN_ATTEMPT_STATUSES
  <1> QED
    BY <1>1, <1>3, <1>4 DEF InsertAttempt

LEMMA StatusAfterType ==
    ASSUME NEW status \in AttemptStatus, NEW type \in EventType
    PROVE  StatusAfter(status, type) \in AttemptStatus
  BY DEF StatusAfter, EventType, AttemptStatus, OPEN_ATTEMPT_STATUSES, AttemptClosed

LEMMA LeadAfterType ==
    ASSUME TypeOK, NEW a \in Attempts, NEW read \in Read, NEW type \in EventType
    PROVE  LeadAfter(a, read, type) \in [Leads -> LeadRow]
  <1> DEFINE c == lead[att[a].lead]
  <1>0. read.session \in Attempts \cup {Nobody}
    BY DEF Read
  <1>1. CASE type = "merged"
    <2> DEFINE left == Leave(c, "calling")
               talked == [left EXCEPT !.session = IF read.session = Nobody THEN @
                                                                          ELSE read.session]
    <2>1. att[a].lead \in Leads => left \in LeadRow
      BY LeaveType DEF TypeOK, LeadStatus, Remaining
    <2>2. att[a].lead \in Leads => talked \in LeadRow
      <3> HIDE DEF left
      <3> QED
        BY <1>0, <2>1 DEF LeadRow
    <2>3. LeadAfter(a, read, type) = FinishCampaignCall(a, talked)
      BY <1>1 DEF LeadAfter
    <2> QED
      <3> HIDE DEF talked
      <3> QED
        BY <2>2, <2>3, FinishType
  <1>2. CASE type = "lead_failed"
    <2>1. att[a].lead \in Leads => Leave(c, "done") \in LeadRow
      BY LeaveType DEF TypeOK, LeadStatus
    <2>2. att[a].lead \in Leads => [Leave(c, "done") EXCEPT !.dnc = FALSE] \in LeadRow
      BY <2>1, FieldType
    <2> QED
      BY <1>2, <2>2, FinishType DEF LeadAfter
  <1>3. CASE type = "skipped"
    <2>1. att[a].lead \in Leads => Leave(c, "done") \in LeadRow
      BY LeaveType DEF TypeOK, LeadStatus
    <2> QED
      BY <1>3, <2>1, FinishType DEF LeadAfter
  <1>4. CASE type = "setup_failed"
    BY <1>4, ReturnType DEF LeadAfter
  <1>5. CASE type = "ended"
    <2>1. att[a].lead \in Leads => finish_merged_campaign_call(c, read.session) \in LeadRow
      BY <1>0, FinishMergedType DEF TypeOK
    <2> QED
      BY <1>5, <2>1, ReturnType DEF LeadAfter, TypeOK
  <1> QED
    BY <1>1, <1>2, <1>3, <1>4, <1>5 DEF EventType

LEMMA ApplyEventType ==
    ASSUME TypeOK, NEW a \in Attempts, NEW read \in Read, NEW type \in EventType,
           ApplyEvent(a, type, read)
    PROVE  att' \in [Attempts -> AttemptRow] /\ lead' \in [Leads -> LeadRow]
  <1>1. StatusAfter(read.status, type) \in AttemptStatus
    BY StatusAfterType DEF Read
  <1>2. ToldAfter(type) \in PhoneTold
    BY DEF ToldAfter, PhoneTold, EventType
  <1>3. LeadAfter(a, read, type) \in [Leads -> LeadRow]
    BY LeadAfterType
  <1> DEFINE now == [att[a] EXCEPT !.told = ToldAfter(type)]
  <1>4. now \in AttemptRow
    BY <1>2 DEF TypeOK, AttemptRow
  <1>5. [now EXCEPT !.status = StatusAfter(read.status, type)] \in AttemptRow
    BY <1>1, <1>4 DEF AttemptRow
  <1> HIDE DEF now
  <1>6. \/ att' = [att EXCEPT ![a] = now] /\ UNCHANGED lead
        \/ /\ att' = [att EXCEPT ![a] = [now EXCEPT !.status = StatusAfter(read.status, type)]]
           /\ lead' = LeadAfter(a, read, type)
    BY DEF ApplyEvent, now
  <1> QED
    BY <1>3, <1>4, <1>5, <1>6 DEF TypeOK

-----------------------------------------------------------------------------
(* One step keeps the types, actor by actor.                                *)

LEMMA ApiType ==
    ASSUME TypeOK, Api
    PROVE  TypeOK'
  <1>1. ASSUME NEW d \in Devices, NEW r \in Runs, start_run(d, r) PROVE TypeOK'
    <2>1. run' \in [Runs -> RunRow] /\ campaign' \in CampaignStatus
      BY <1>1 DEF TypeOK, start_run, RunRow, RunStatus, RunOpen, CampaignStatus
    <2> QED
      BY <1>1, <2>1 DEF TypeOK, start_run
  <1>2. ASSUME NEW r \in Runs, next_lead(r) PROVE TypeOK'
    <2>1. lead' \in [Leads -> LeadRow]
      BY <1>2, LeaseOneType, NothingToLeaseType DEF next_lead
    <2>2. run' \in [Runs -> RunRow] /\ campaign' \in CampaignStatus
      BY <1>2, CompleteRunType DEF next_lead, TypeOK
    <2> QED
      BY <1>2, <2>1, <2>2 DEF TypeOK, next_lead
  <1>3. ASSUME NEW r \in Runs, NEW to \in RunStatus, update_run(r, to) PROVE TypeOK'
    <2>1. run[r].status \in RunStatus
      BY DEF TypeOK, RunRow
    <2>2. run' \in [Runs -> RunRow] /\ lead' \in [Leads -> LeadRow]
      BY <1>3, <2>1, WriteRunType DEF update_run
    <2> QED
      BY <1>3, <2>2 DEF TypeOK, update_run
  <1>4. ASSUME NEW r \in Runs, NEW l \in Leads, NEW a \in Attempts, create_attempt(r, l, a)
        PROVE TypeOK'
    <2>1. att' \in [Attempts -> AttemptRow] /\ lead' \in [Leads -> LeadRow]
      BY <1>4, InsertAttemptType DEF create_attempt
    <2> QED
      BY <1>4, <2>1 DEF TypeOK, create_attempt
  <1>5. ASSUME NEW a \in Attempts, NEW type \in EventType, ingest_events(a, type) PROVE TypeOK'
    <2>1. att' \in [Attempts -> AttemptRow] /\ lead' \in [Leads -> LeadRow]
      BY <1>5, ReadOfType, ApplyEventType DEF ingest_events
    <2> QED
      BY <1>5, <2>1 DEF TypeOK, ingest_events
  <1>6. ASSUME NEW l \in Leads, NEW disposition \in {"callback", "do_not_call", "other"},
               set_rep_disposition(l, disposition)
        PROVE TypeOK'
    <2>1. Leave(lead[l], "pending") \in LeadRow /\ lead[l] \in LeadRow
      BY LeaveType DEF TypeOK, LeadStatus, Remaining
    <2>2. \A c \in LeadRow : /\ [c EXCEPT !.callback = "booked", !.dnc = FALSE] \in LeadRow
                             /\ [c EXCEPT !.callback = "none",
                                          !.dnc = (disposition = "do_not_call")] \in LeadRow
      BY DEF LeadRow
    <2>3. lead' \in [Leads -> LeadRow]
      BY <1>6, <2>1, <2>2 DEF TypeOK, set_rep_disposition
    <2>4. verdicts' \in 0..MaxVerdicts
      BY <1>6, Bounds DEF TypeOK, set_rep_disposition
    <2> QED
      BY <1>6, <2>3, <2>4 DEF TypeOK, set_rep_disposition
  <1> QED
    BY <1>1, <1>2, <1>3, <1>4, <1>5, <1>6 DEF Api

LEMMA OverlapType ==
    ASSUME TypeOK, Overlap
    PROVE  TypeOK'
  <1>1. ASSUME NEW q \in Request, Begin(q) PROVE TypeOK'
    BY <1>1 DEF TypeOK, Begin
  <1>2. ASSUME NEW r \in Runs, NextLeadBegin(r) PROVE TypeOK'
    <2>1. [op |-> "next", run |-> r] \in Request
      BY DEF Request
    <2> QED
      BY <1>1, <1>2, <2>1 DEF NextLeadBegin
  <1>3. ASSUME NEW r \in Runs, NEW l \in Leads, CreateBegin(r, l) PROVE TypeOK'
    <2>1. [op |-> "create", run |-> r, lead |-> l] \in Request
      BY DEF Request
    <2> QED
      BY <1>1, <1>3, <2>1 DEF CreateBegin
  <1>4. ASSUME NEW r \in Runs, NEW to \in RunStatus, UpdateBegin(r, to) PROVE TypeOK'
    <2>1. [op |-> "update", run |-> r, to |-> to, seen |-> run[r].status] \in Request
      BY DEF Request, TypeOK, RunRow
    <2> QED
      BY <1>1, <1>4, <2>1 DEF UpdateBegin
  <1>5. ASSUME NEW a \in Attempts, NEW type \in EventType, EventBegin(a, type) PROVE TypeOK'
    <2>1. [op |-> "event", att |-> a, type |-> type, read |-> ReadOf(a)] \in Request
      BY ReadOfType DEF Request
    <2> QED
      BY <1>1, <1>5, <2>1 DEF EventBegin
  <1>6. ASSUME NEW q \in req, NextLeadCommit(q) PROVE TypeOK'
    <2>1. q.run \in Runs
      BY <1>6, RequestFields DEF TypeOK, NextLeadCommit
    <2>2. lead' \in [Leads -> LeadRow]
      BY <1>6, <2>1, LeaseOneType, NothingToLeaseType DEF NextLeadCommit
    <2>3. [op |-> "drain", run |-> q.run] \in Request
      BY <2>1 DEF Request
    <2>4. req' \subseteq Request
      BY <1>6, <2>3 DEF TypeOK, NextLeadCommit, Done
    <2> QED
      BY <1>6, <2>2, <2>4 DEF TypeOK, NextLeadCommit, Done
  <1>7. ASSUME NEW q \in req, DrainCommit(q) PROVE TypeOK'
    <2>1. q.run \in Runs
      BY <1>7, RequestFields DEF TypeOK, DrainCommit
    <2>2. run' \in [Runs -> RunRow] /\ campaign' \in CampaignStatus
      BY <1>7, <2>1, CompleteRunType DEF DrainCommit
    <2> QED
      BY <1>7, <2>2 DEF TypeOK, DrainCommit, Done
  <1>8. ASSUME NEW q \in req, NEW a \in Attempts, CreateCommit(q, a) PROVE TypeOK'
    <2>1. q.run \in Runs /\ q.lead \in Leads
      BY <1>8, RequestFields DEF TypeOK, CreateCommit
    <2>2. att' \in [Attempts -> AttemptRow] /\ lead' \in [Leads -> LeadRow]
      BY <1>8, <2>1, InsertAttemptType DEF CreateCommit
    <2> QED
      BY <1>8, <2>2 DEF TypeOK, CreateCommit, Done
  <1>9. ASSUME NEW q \in req, UpdateCommit(q) PROVE TypeOK'
    <2>1. q.run \in Runs /\ q.to \in RunStatus /\ q.seen \in RunStatus
      BY <1>9, RequestFields DEF TypeOK, UpdateCommit
    <2>2. run' \in [Runs -> RunRow] /\ lead' \in [Leads -> LeadRow]
      BY <1>9, <2>1, WriteRunType DEF UpdateCommit
    <2> QED
      BY <1>9, <2>2 DEF TypeOK, UpdateCommit, Done
  <1>10. ASSUME NEW q \in req, EventCommit(q) PROVE TypeOK'
    <2>1. q.att \in Attempts /\ q.type \in EventType /\ q.read \in Read
      BY <1>10, RequestFields DEF TypeOK, EventCommit
    <2>2. att' \in [Attempts -> AttemptRow] /\ lead' \in [Leads -> LeadRow]
      BY <1>10, <2>1, ApplyEventType DEF EventCommit
    <2> QED
      BY <1>10, <2>2 DEF TypeOK, EventCommit, Done
  <1>11. ASSUME NEW q \in req, Refused(q) PROVE TypeOK'
    BY <1>11 DEF TypeOK, Refused, Done
  <1> QED
    BY <1>2, <1>3, <1>4, <1>5, <1>6, <1>7, <1>8, <1>9, <1>10, <1>11 DEF Overlap

LEMMA PostCleanupType ==
    ASSUME TypeOK, NEW a \in Attempts, NEW how
    PROVE  update_campaign_call_post_cleanup(a, how) \in [Leads -> LeadRow]
  <1>1. \A c \in LeadRow : /\ [c EXCEPT !.status = "done"] \in LeadRow
                           /\ [c EXCEPT !.status = "done", !.dnc = FALSE] \in LeadRow
    BY DEF LeadRow, LeadStatus
  <1>2. \A l \in Leads : update_campaign_call_post_cleanup(a, how)[l] \in
           {lead[l], [lead[l] EXCEPT !.status = "done"],
            [lead[l] EXCEPT !.status = "done", !.dnc = FALSE]}
    BY DEF update_campaign_call_post_cleanup
  <1>3. update_campaign_call_post_cleanup(a, how) =
           [l \in Leads |-> update_campaign_call_post_cleanup(a, how)[l]]
    BY DEF update_campaign_call_post_cleanup
  <1>4. \A l \in Leads : update_campaign_call_post_cleanup(a, how)[l] \in LeadRow
    <2> TAKE l \in Leads
    <2>1. lead[l] \in LeadRow
      BY DEF TypeOK
    <2> QED
      BY <1>1, <1>2, <2>1
  <1> QED
    BY <1>3, <1>4

LEMMA GatewayType ==
    ASSUME TypeOK, Gateway
    PROVE  TypeOK'
  <1>1. ASSUME NEW a \in Attempts, LegArrives(a) PROVE TypeOK'
    <2>1. [att[a] EXCEPT !.status = "ai_connected", !.leg = "connecting"] \in AttemptRow
      BY DEF TypeOK, AttemptRow, AttemptStatus, OPEN_ATTEMPT_STATUSES, LegStatus, LegUp
    <2> QED
      BY <1>1, <2>1 DEF TypeOK, LegArrives
  <1>2. ASSUME NEW a \in Attempts, MarkReady(a) PROVE TypeOK'
    <2>1. \A s \in AttemptStatus, h \in BOOLEAN :
             [att[a] EXCEPT !.leg = "ready", !.status = s, !.heard = h] \in AttemptRow
      BY DEF TypeOK, AttemptRow, LegStatus, LegUp
    <2>2. \E s \in AttemptStatus, h \in BOOLEAN :
             att' = [att EXCEPT ![a] = [att[a] EXCEPT !.leg = "ready", !.status = s, !.heard = h]]
      <3>1. /\ att[a].status \in AttemptStatus /\ "ai_ready" \in AttemptStatus
            /\ (att[a].heard \/ att[a].status = "merged") \in BOOLEAN
        BY DEF TypeOK, AttemptRow, AttemptStatus, OPEN_ATTEMPT_STATUSES
      <3> DEFINE s == IF att[a].status \in {"pending", "ai_connected"} THEN "ai_ready"
                                                                      ELSE att[a].status
                 h == att[a].heard \/ att[a].status = "merged"
      <3>2. att' = [att EXCEPT ![a] = [att[a] EXCEPT !.leg = "ready", !.status = s, !.heard = h]]
        BY <1>2 DEF MarkReady, TypeOK, AttemptRow
      <3> QED
        BY <3>1, <3>2
    <2>3. att' \in [Attempts -> AttemptRow]
      BY <2>1, <2>2 DEF TypeOK
    <2> QED
      BY <1>2, <2>3 DEF TypeOK, MarkReady
  <1>3. ASSUME NEW a \in Attempts, on_merged(a) \/ RelaySignal(a) PROVE TypeOK'
    <2>1. [att[a] EXCEPT !.heard = TRUE] \in AttemptRow
      BY DEF TypeOK, AttemptRow
    <2> QED
      BY <1>3, <2>1 DEF TypeOK, on_merged, RelaySignal
  <1>4. ASSUME NEW a \in Attempts, PersistDtmfMerge(a) PROVE TypeOK'
    <2> DEFINE left == Leave(lead[att[a].lead], "calling")
    <2>0. /\ [att[a] EXCEPT !.heard = TRUE] \in AttemptRow
          /\ [att[a] EXCEPT !.heard = TRUE, !.status = "merged"] \in AttemptRow
      BY DEF TypeOK, AttemptRow, AttemptStatus, OPEN_ATTEMPT_STATUSES
    <2>1. att' \in [Attempts -> AttemptRow]
      BY <1>4, <2>0 DEF TypeOK, PersistDtmfMerge
    <2>2. att[a].lead \in Leads => left \in LeadRow
      BY LeaveType DEF TypeOK, LeadStatus, Remaining
    <2>3. att[a].lead \in Leads => [left EXCEPT !.session = a] \in LeadRow
      <3> HIDE DEF left
      <3> QED
        BY <2>2 DEF LeadRow
    <2>4. lead' \in [Leads -> LeadRow]
      BY <1>4, <2>3, FinishType DEF PersistDtmfMerge, TypeOK
    <2> QED
      BY <1>4, <2>1, <2>4 DEF TypeOK, PersistDtmfMerge
  <1>5. ASSUME NEW a \in Attempts, NEW how, on_cleanup(a, how) PROVE TypeOK'
    <2> DEFINE cleaned == update_campaign_call_post_cleanup(a, how)
    <2>1. CleanupStatus(att[a]) \in AttemptStatus
      BY DEF TypeOK, AttemptRow, CleanupStatus, AttemptStatus, AttemptClosed
    <2>2. att' \in [Attempts -> AttemptRow]
      <3>1. \A s \in AttemptStatus : [att[a] EXCEPT !.leg = "ended", !.status = s] \in AttemptRow
        BY DEF TypeOK, AttemptRow, LegStatus
      <3> QED
        BY <1>5, <2>1, <3>1 DEF TypeOK, on_cleanup
    <2>3. cleaned \in [Leads -> LeadRow]
      BY PostCleanupType
    <2>4. \A c \in LeadRow : CleanupLead(a, c) \in LeadRow
      BY LeaveType, FinishMergedType DEF CleanupLead, LeadStatus, Remaining
    <2>5. lead' = [cleaned EXCEPT ![att[a].lead] = CleanupLead(a, @)]
      BY <1>5 DEF on_cleanup
    <2>6. lead' \in [Leads -> LeadRow]
      <3> HIDE DEF cleaned
      <3> QED
        BY <2>3, <2>4, <2>5
    <2> QED
      BY <1>5, <2>2, <2>6 DEF TypeOK, on_cleanup
  <1>6. ASSUME NEW a \in Attempts, GatewayCrash(a) PROVE TypeOK'
    <2>1. [att[a] EXCEPT !.leg = "lost"] \in AttemptRow
      BY DEF TypeOK, AttemptRow, LegStatus
    <2>2. crashes' \in 0..MaxCrashes
      BY <1>6, Bounds DEF TypeOK, GatewayCrash
    <2> QED
      BY <1>6, <2>1, <2>2 DEF TypeOK, GatewayCrash
  <1> QED
    BY <1>1, <1>2, <1>3, <1>4, <1>5, <1>6 DEF Gateway

LEMMA TimeType ==
    ASSUME TypeOK, Time
    PROVE  TypeOK'
  <1>1. ASSUME NEW a \in Attempts, AttemptGetsLate(a) PROVE TypeOK'
    <2>1. [att[a] EXCEPT !.late = TRUE] \in AttemptRow
      BY DEF TypeOK, AttemptRow
    <2> QED
      BY <1>1, <2>1 DEF TypeOK, AttemptGetsLate
  <1>2. ASSUME NEW l \in Leads, LeaseExpires(l) \/ CallbackFallsDue(l) PROVE TypeOK'
    <2>0. /\ [lead[l] EXCEPT !.expired = TRUE] \in LeadRow
          /\ [lead[l] EXCEPT !.callback = "due"] \in LeadRow
      BY FieldType DEF TypeOK
    <2>1. lead' \in [Leads -> LeadRow]
      BY <1>2, <2>0 DEF TypeOK, LeaseExpires, CallbackFallsDue
    <2> QED
      BY <1>2, <2>1 DEF TypeOK, LeaseExpires, CallbackFallsDue
  <1> QED
    BY <1>1, <1>2 DEF Time

LEMMA ReconcilerType ==
    ASSUME TypeOK, Reconciler
    PROVE  TypeOK'
  <1>1. ASSUME NEW stuck \in SUBSET Leads, expire_stale_attempts(stuck) PROVE TypeOK'
    <2>1. \A a \in Attempts : [att[a] EXCEPT !.status = "expired"] \in AttemptRow
      BY DEF TypeOK, AttemptRow, AttemptStatus, AttemptClosed
    <2>2. \A l \in Leads : /\ Leave(lead[l], "pending") \in LeadRow
                           /\ [lead[l] EXCEPT !.status = "done"] \in LeadRow
      BY LeaveType, FieldType DEF TypeOK, LeadStatus, Remaining
    <2>3. att' \in [Attempts -> AttemptRow] /\ lead' \in [Leads -> LeadRow]
      BY <1>1, <2>1, <2>2 DEF TypeOK, expire_stale_attempts
    <2> QED
      BY <1>1, <2>3 DEF TypeOK, expire_stale_attempts
  <1>2. ASSUME NEW stale \in SUBSET Runs, close_stale_runs(stale) PROVE TypeOK'
    <2>1. \A r \in Runs : [run[r] EXCEPT !.status = "completed"] \in RunRow
      BY DEF TypeOK, RunRow, RunStatus
    <2>2. run' \in [Runs -> RunRow] /\ lead' \in [Leads -> LeadRow]
      BY <1>2, <2>1, ReleaseType DEF TypeOK, close_stale_runs
    <2> QED
      BY <1>2, <2>2 DEF TypeOK, close_stale_runs
  <1>3. ASSUME close_finished_campaigns PROVE TypeOK'
    BY <1>3 DEF TypeOK, close_finished_campaigns, CampaignStatus
  <1> QED
    BY <1>1, <1>2, <1>3 DEF Reconciler

(* The rows keep the values their columns are declared with: in every       *)
(* reachable state, whatever handlers overlap.                              *)
THEOREM TypeCorrect == Spec => []TypeOK
  <1>1. Init => TypeOK
    BY Bounds DEF Init, TypeOK, CampaignStatus, RunRow, RunStatus, LeadRow, LeadStatus,
              Remaining, AttemptRow, AttemptStatus, LegStatus, PhoneTold
  <1>2. TypeOK /\ [Next]_vars => TypeOK'
    <2> SUFFICES ASSUME TypeOK, [Next]_vars PROVE TypeOK'
      OBVIOUS
    <2>1. CASE Next
      BY <2>1, ApiType, OverlapType, GatewayType, TimeType, ReconcilerType DEF Next
    <2>2. CASE UNCHANGED vars
      BY <2>2 DEF vars, TypeOK
    <2> QED
      BY <2>1, <2>2
  <1> QED
    BY <1>1, <1>2, PTL DEF Spec

-----------------------------------------------------------------------------
(* One open attempt per device.                                             *)

(* Every step that opens no attempt and moves none to another device.       *)
OpensNone == \A a \in Attempts : Open(a)' => Open(a) /\ att'[a].dev = att[a].dev

LEMMA OpensNoneKeeps ==
    ASSUME OneOpenAttemptPerDevice, OpensNone
    PROVE  OneOpenAttemptPerDevice'
  BY DEF OneOpenAttemptPerDevice, OpensNone, Open

LEMMA InsertAttemptKeepsOne ==
    ASSUME TypeOK, OneOpenAttemptPerDevice,
           NEW r \in Runs, NEW l \in Leads, NEW a \in Attempts, InsertAttempt(r, l, a)
    PROVE  OneOpenAttemptPerDevice'
  <1>1. att'[a].dev = run[r].dev
    BY DEF InsertAttempt, TypeOK, AttemptRow
  <1>2. ASSUME NEW b \in Attempts, b # a, Open(b)'
        PROVE  Open(b) /\ att'[b].dev = att[b].dev /\ att[b].dev # run[r].dev
    <2>1. CASE b \in OpenAttempts(run[r].dev)
      <3>1. att'[b].status = "superseded"
        BY <1>2, <2>1 DEF InsertAttempt, TypeOK, AttemptRow
      <3> QED
        BY <1>2, <3>1 DEF Open, OPEN_ATTEMPT_STATUSES
    <2>2. CASE b \notin OpenAttempts(run[r].dev)
      <3>1. att'[b] = att[b]
        BY <1>2, <2>2 DEF InsertAttempt
      <3> QED
        BY <1>2, <2>2, <3>1 DEF Open, OpenAttempts
    <2> QED
      BY <2>1, <2>2
  <1> QED
    BY <1>1, <1>2 DEF OneOpenAttemptPerDevice, Open

(* Even from a stale read: only a merged event can open the attempt again,  *)
(* and then the index is asked.                                             *)
LEMMA ApplyEventKeepsOne ==
    ASSUME TypeOK, OneOpenAttemptPerDevice,
           NEW a \in Attempts, NEW read \in Read, NEW type \in EventType,
           ApplyEvent(a, type, read)
    PROVE  OneOpenAttemptPerDevice'
  <1> DEFINE status == StatusAfter(read.status, type)
  <1>1. \A b \in Attempts : att'[b].dev = att[b].dev
    <2> DEFINE now == [att[a] EXCEPT !.told = ToldAfter(type)]
    <2>1. now.dev = att[a].dev /\ [now EXCEPT !.status = status].dev = att[a].dev
      BY DEF TypeOK, AttemptRow
    <2>2. \/ att' = [att EXCEPT ![a] = now]
          \/ att' = [att EXCEPT ![a] = [now EXCEPT !.status = status]]
      BY DEF ApplyEvent
    <2> HIDE DEF now, status
    <2> QED
      BY <2>1, <2>2 DEF TypeOK
  <1>2. \A b \in Attempts \ {a} : att'[b] = att[b]
    BY DEF ApplyEvent, TypeOK
  <1>3. CASE status = read.status
    <2>1. att'[a].status = att[a].status
      BY <1>3 DEF ApplyEvent, TypeOK, AttemptRow
    <2> QED
      BY <1>1, <1>2, <2>1, OpensNoneKeeps DEF OpensNone, Open
  <1>4. CASE status # read.status /\ type = "merged"
    <2>1. OpenAttempts(att[a].dev) \subseteq {a}
      BY <1>4 DEF ApplyEvent, AttemptIndexAllows
    <2> QED
      BY <1>1, <1>2, <2>1 DEF OneOpenAttemptPerDevice, OpenAttempts, Open
  <1>5. CASE status # read.status /\ type # "merged"
    <2>1. att'[a].status = status
      BY <1>5 DEF ApplyEvent, TypeOK, AttemptRow
    <2>2. status \notin OPEN_ATTEMPT_STATUSES
      BY <1>5 DEF StatusAfter, OPEN_ATTEMPT_STATUSES, EventType
    <2>3. ~Open(a)'
      BY <2>1, <2>2 DEF Open
    <2> QED
      BY <1>1, <1>2, <2>3, OpensNoneKeeps DEF OpensNone, Open
  <1> QED
    BY <1>3, <1>4, <1>5

LEMMA ApiKeepsOne ==
    ASSUME TypeOK, OneOpenAttemptPerDevice, Api
    PROVE  OneOpenAttemptPerDevice'
  <1>1. ASSUME UNCHANGED att PROVE OneOpenAttemptPerDevice'
    BY <1>1, OpensNoneKeeps DEF OpensNone, Open
  <1>2. ASSUME NEW d \in Devices, NEW r \in Runs, start_run(d, r)
        PROVE  OneOpenAttemptPerDevice'
    BY <1>1, <1>2 DEF start_run
  <1>3. ASSUME NEW r \in Runs, NEW to, next_lead(r) \/ update_run(r, to)
        PROVE  OneOpenAttemptPerDevice'
    BY <1>1, <1>3 DEF next_lead, update_run
  <1>4. ASSUME NEW r \in Runs, NEW l \in Leads, NEW a \in Attempts, create_attempt(r, l, a)
        PROVE  OneOpenAttemptPerDevice'
    BY <1>4, InsertAttemptKeepsOne DEF create_attempt
  <1>5. ASSUME NEW a \in Attempts, NEW type \in EventType, ingest_events(a, type)
        PROVE  OneOpenAttemptPerDevice'
    BY <1>5, ReadOfType, ApplyEventKeepsOne DEF ingest_events
  <1>6. ASSUME NEW l \in Leads, NEW disposition, set_rep_disposition(l, disposition)
        PROVE  OneOpenAttemptPerDevice'
    BY <1>1, <1>6 DEF set_rep_disposition
  <1> QED
    BY <1>2, <1>3, <1>4, <1>5, <1>6 DEF Api

LEMMA OverlapKeepsOne ==
    ASSUME TypeOK, OneOpenAttemptPerDevice, Overlap
    PROVE  OneOpenAttemptPerDevice'
  <1>1. ASSUME UNCHANGED att PROVE OneOpenAttemptPerDevice'
    BY <1>1, OpensNoneKeeps DEF OpensNone, Open
  <1>2. ASSUME NEW r \in Runs, NextLeadBegin(r) \/ \E to \in RunStatus : UpdateBegin(r, to)
        PROVE  OneOpenAttemptPerDevice'
    BY <1>1, <1>2 DEF NextLeadBegin, UpdateBegin, Begin
  <1>3. ASSUME NEW r \in Runs, NEW l \in Leads, CreateBegin(r, l)
        PROVE  OneOpenAttemptPerDevice'
    BY <1>1, <1>3 DEF CreateBegin, Begin
  <1>4. ASSUME NEW a \in Attempts, NEW type \in EventType, EventBegin(a, type)
        PROVE  OneOpenAttemptPerDevice'
    BY <1>1, <1>4 DEF EventBegin, Begin
  <1>5. ASSUME NEW q \in req,
               NextLeadCommit(q) \/ DrainCommit(q) \/ UpdateCommit(q) \/ Refused(q)
        PROVE  OneOpenAttemptPerDevice'
    BY <1>1, <1>5 DEF NextLeadCommit, DrainCommit, UpdateCommit, Refused
  <1>6. ASSUME NEW q \in req, NEW a \in Attempts, CreateCommit(q, a)
        PROVE  OneOpenAttemptPerDevice'
    BY <1>6, RequestFields, InsertAttemptKeepsOne DEF TypeOK, CreateCommit
  <1>7. ASSUME NEW q \in req, EventCommit(q)
        PROVE  OneOpenAttemptPerDevice'
    BY <1>7, RequestFields, ApplyEventKeepsOne DEF TypeOK, EventCommit
  <1> QED
    BY <1>2, <1>3, <1>4, <1>5, <1>6, <1>7 DEF Overlap

(* The AI leg moves its attempt between open statuses or closes it, and     *)
(* never opens one: a leg that ends late leaves a closed attempt closed.    *)
LEMMA GatewayOpensNone ==
    ASSUME TypeOK, Gateway
    PROVE  OpensNone
  <1> SUFFICES ASSUME NEW b \in Attempts, Open(b)'
               PROVE  Open(b) /\ att'[b].dev = att[b].dev
    BY DEF OpensNone
  <1>1. ASSUME NEW a \in Attempts, LegArrives(a) PROVE Open(b) /\ att'[b].dev = att[b].dev
    BY <1>1 DEF LegArrives, Open, OPEN_ATTEMPT_STATUSES, TypeOK, AttemptRow
  <1>2. ASSUME NEW a \in Attempts, MarkReady(a) PROVE Open(b) /\ att'[b].dev = att[b].dev
    BY <1>2 DEF MarkReady, Open, OPEN_ATTEMPT_STATUSES, TypeOK, AttemptRow
  <1>3. ASSUME NEW a \in Attempts, on_merged(a) \/ RelaySignal(a) \/ GatewayCrash(a)
        PROVE  Open(b) /\ att'[b].dev = att[b].dev
    BY <1>3 DEF on_merged, RelaySignal, GatewayCrash, Open, TypeOK, AttemptRow
  <1>4. ASSUME NEW a \in Attempts, PersistDtmfMerge(a)
        PROVE  Open(b) /\ att'[b].dev = att[b].dev
    BY <1>4 DEF PersistDtmfMerge, Open, OPEN_ATTEMPT_STATUSES, TypeOK, AttemptRow
  <1>5. ASSUME NEW a \in Attempts, NEW how, on_cleanup(a, how)
        PROVE  Open(b) /\ att'[b].dev = att[b].dev
    <2>1. /\ att'[b].dev = att[b].dev
          /\ att'[b].status = IF b = a THEN CleanupStatus(att[a]) ELSE att[b].status
      BY <1>5 DEF on_cleanup, TypeOK, AttemptRow
    <2> QED
      BY <2>1 DEF CleanupStatus, Open, OPEN_ATTEMPT_STATUSES
  <1> QED
    BY <1>1, <1>2, <1>3, <1>4, <1>5 DEF Gateway

LEMMA TimeOpensNone ==
    ASSUME TypeOK, Time \/ Reconciler
    PROVE  OpensNone
  <1>1. ASSUME UNCHANGED att PROVE OpensNone
    BY <1>1 DEF OpensNone, Open
  <1>2. ASSUME NEW a \in Attempts, AttemptGetsLate(a) PROVE OpensNone
    BY <1>2 DEF OpensNone, Open, AttemptGetsLate, TypeOK, AttemptRow
  <1>3. ASSUME NEW l \in Leads, LeaseExpires(l) \/ CallbackFallsDue(l) PROVE OpensNone
    BY <1>1, <1>3 DEF LeaseExpires, CallbackFallsDue
  <1>4. ASSUME NEW stuck, expire_stale_attempts(stuck) PROVE OpensNone
    BY <1>4 DEF OpensNone, Open, OPEN_ATTEMPT_STATUSES, expire_stale_attempts, TypeOK, AttemptRow
  <1>5. ASSUME NEW stale, close_stale_runs(stale) PROVE OpensNone
    BY <1>1, <1>5 DEF close_stale_runs
  <1>6. ASSUME close_finished_campaigns PROVE OpensNone
    BY <1>1, <1>6 DEF close_finished_campaigns
  <1> QED
    BY <1>2, <1>3, <1>4, <1>5, <1>6 DEF Time, Reconciler

(* A device never has two open attempts, however its requests overlap and   *)
(* however late an event is applied.                                        *)
THEOREM OneOpenAttempt == Spec => []OneOpenAttemptPerDevice
  <1>1. Init => OneOpenAttemptPerDevice
    BY DEF Init, OneOpenAttemptPerDevice, Open, OPEN_ATTEMPT_STATUSES
  <1>2. TypeOK /\ OneOpenAttemptPerDevice /\ [Next]_vars => OneOpenAttemptPerDevice'
    <2> SUFFICES ASSUME TypeOK, OneOpenAttemptPerDevice, [Next]_vars
                 PROVE  OneOpenAttemptPerDevice'
      OBVIOUS
    <2>1. CASE UNCHANGED vars
      BY <2>1 DEF vars, OneOpenAttemptPerDevice, Open
    <2>2. CASE Gateway \/ Time \/ Reconciler
      BY <2>2, GatewayOpensNone, TimeOpensNone, OpensNoneKeeps
    <2> QED
      BY <2>1, <2>2, ApiKeepsOne, OverlapKeepsOne DEF Next
  <1> QED
    BY <1>1, <1>2, TypeCorrect, PTL DEF Spec

-----------------------------------------------------------------------------
(* One open run per device.                                                 *)

(* Every step that opens no run and moves none to another device.           *)
OpensNoRun == \A r \in Runs : run'[r].status \in RunOpen
                                => run[r].status \in RunOpen /\ run'[r].dev = run[r].dev

LEMMA OpensNoRunKeeps ==
    ASSUME OneOpenRunPerDevice, OpensNoRun
    PROVE  OneOpenRunPerDevice'
  BY DEF OneOpenRunPerDevice, OpensNoRun, OpenRuns

LEMMA WriteRunKeepsOne ==
    ASSUME TypeOK, OneOpenRunPerDevice,
           NEW r \in Runs, NEW seen \in RunStatus, NEW to \in RunStatus, WriteRun(r, seen, to)
    PROVE  OneOpenRunPerDevice'
  <1>1. CASE to = seen
    BY <1>1, OpensNoRunKeeps DEF WriteRun, OpensNoRun
  <1>2. \A s \in Runs : /\ run'[s].dev = run[s].dev
                        /\ s # r => run'[s].status = run[s].status
    BY DEF WriteRun, TypeOK, RunRow
  <1>3. CASE to # seen /\ to \in RunOpen
    <2>1. OpenRuns(run[r].dev) \subseteq {r}
      BY <1>3 DEF WriteRun, RunIndexAllows
    <2> QED
      BY <1>2, <2>1 DEF OneOpenRunPerDevice, OpenRuns
  <1>4. CASE to # seen /\ to \notin RunOpen
    <2>1. run'[r].status \notin RunOpen
      BY <1>4 DEF WriteRun, TypeOK, RunRow
    <2> QED
      BY <1>2, <2>1, OpensNoRunKeeps DEF OpensNoRun
  <1> QED
    BY <1>1, <1>3, <1>4

LEMMA CompleteRunOpensNoRun ==
    ASSUME TypeOK, NEW r \in Runs, CompleteRun(r)
    PROVE  OpensNoRun
  BY DEF TypeOK, RunRow, CompleteRun, OpensNoRun, RunOpen

LEMMA ApiKeepsOneRun ==
    ASSUME TypeOK, OneOpenRunPerDevice, Api
    PROVE  OneOpenRunPerDevice'
  <1>1. ASSUME UNCHANGED run PROVE OneOpenRunPerDevice'
    BY <1>1, OpensNoRunKeeps DEF OpensNoRun
  <1>2. ASSUME NEW d \in Devices, NEW r \in Runs, start_run(d, r)
        PROVE  OneOpenRunPerDevice'
    <2>1. CASE OpenRuns(d) = {}
      <3>1. run' = [run EXCEPT ![r] = [dev |-> d, status |-> "running"]]
        BY <1>2, <2>1 DEF start_run
      <3>2. run'[r].dev = d /\ \A s \in Runs \ {r} : run'[s] = run[s]
        BY <3>1 DEF TypeOK
      <3> QED
        BY <2>1, <3>2 DEF OneOpenRunPerDevice, OpenRuns
    <2>2. CASE OpenRuns(d) # {}
      <3>1. run[r].status \in RunOpen /\ run' = [run EXCEPT ![r].status = "running"]
        BY <1>2, <2>2 DEF start_run, OpenRuns
      <3> QED
        BY <3>1, OpensNoRunKeeps DEF OpensNoRun, TypeOK, RunRow
    <2> QED
      BY <2>1, <2>2
  <1>3. ASSUME NEW r \in Runs, next_lead(r) PROVE OneOpenRunPerDevice'
    BY <1>1, <1>3, CompleteRunOpensNoRun, OpensNoRunKeeps DEF next_lead
  <1>4. ASSUME NEW r \in Runs, NEW to \in RunStatus, update_run(r, to)
        PROVE  OneOpenRunPerDevice'
    <2>1. run[r].status \in RunStatus
      BY DEF TypeOK, RunRow
    <2> QED
      BY <1>4, <2>1, WriteRunKeepsOne DEF update_run
  <1>5. ASSUME NEW r \in Runs, NEW l \in Leads, NEW a \in Attempts, create_attempt(r, l, a)
        PROVE  OneOpenRunPerDevice'
    BY <1>1, <1>5 DEF create_attempt
  <1>6. ASSUME NEW a \in Attempts, NEW type, ingest_events(a, type)
        PROVE  OneOpenRunPerDevice'
    BY <1>1, <1>6 DEF ingest_events
  <1>7. ASSUME NEW l \in Leads, NEW disposition, set_rep_disposition(l, disposition)
        PROVE  OneOpenRunPerDevice'
    BY <1>1, <1>7 DEF set_rep_disposition
  <1> QED
    BY <1>2, <1>3, <1>4, <1>5, <1>6, <1>7 DEF Api

LEMMA OverlapKeepsOneRun ==
    ASSUME TypeOK, OneOpenRunPerDevice, Overlap
    PROVE  OneOpenRunPerDevice'
  <1>1. ASSUME UNCHANGED run PROVE OneOpenRunPerDevice'
    BY <1>1, OpensNoRunKeeps DEF OpensNoRun
  <1>2. ASSUME \/ \E r \in Runs : \/ NextLeadBegin(r)
                                  \/ \E l \in Leads : CreateBegin(r, l)
                                  \/ \E to \in RunStatus : UpdateBegin(r, to)
               \/ \E a \in Attempts, type \in EventType : EventBegin(a, type)
        PROVE  OneOpenRunPerDevice'
    BY <1>1, <1>2 DEF NextLeadBegin, UpdateBegin, CreateBegin, EventBegin, Begin
  <1>3. ASSUME NEW q \in req, NEW a,
               NextLeadCommit(q) \/ CreateCommit(q, a) \/ EventCommit(q) \/ Refused(q)
        PROVE  OneOpenRunPerDevice'
    BY <1>1, <1>3 DEF NextLeadCommit, CreateCommit, EventCommit, Refused
  <1>4. ASSUME NEW q \in req, DrainCommit(q) PROVE OneOpenRunPerDevice'
    <2>1. q.run \in Runs
      BY <1>4, RequestFields DEF TypeOK, DrainCommit
    <2> QED
      BY <1>4, <2>1, CompleteRunOpensNoRun, OpensNoRunKeeps DEF DrainCommit
  <1>5. ASSUME NEW q \in req, UpdateCommit(q) PROVE OneOpenRunPerDevice'
    <2>1. q.run \in Runs /\ q.to \in RunStatus /\ q.seen \in RunStatus
      BY <1>5, RequestFields DEF TypeOK, UpdateCommit
    <2> QED
      BY <1>5, <2>1, WriteRunKeepsOne DEF UpdateCommit
  <1> QED
    BY <1>2, <1>3, <1>4, <1>5 DEF Overlap

LEMMA RestOpensNoRun ==
    ASSUME TypeOK, Gateway \/ Time \/ Reconciler
    PROVE  OpensNoRun
  <1>1. ASSUME UNCHANGED run PROVE OpensNoRun
    BY <1>1 DEF OpensNoRun
  <1>2. CASE Gateway
    BY <1>1, <1>2 DEF Gateway, LegArrives, MarkReady, on_merged, RelaySignal, PersistDtmfMerge,
                      on_cleanup, GatewayCrash
  <1>3. CASE Time
    BY <1>1, <1>3 DEF Time, AttemptGetsLate, LeaseExpires, CallbackFallsDue
  <1>4. ASSUME NEW stale, close_stale_runs(stale) PROVE OpensNoRun
    BY <1>4 DEF OpensNoRun, close_stale_runs, RunOpen
  <1>5. ASSUME NEW stuck, expire_stale_attempts(stuck) \/ close_finished_campaigns
        PROVE  OpensNoRun
    BY <1>1, <1>5 DEF expire_stale_attempts, close_finished_campaigns
  <1> QED
    BY <1>2, <1>3, <1>4, <1>5 DEF Reconciler

(* A device never has two open runs, not even when an update that was read  *)
(* before its run closed is written after a new run began.                  *)
THEOREM OneOpenRun == Spec => []OneOpenRunPerDevice
  <1>1. Init => OneOpenRunPerDevice
    BY DEF Init, OneOpenRunPerDevice, OpenRuns, RunOpen
  <1>2. TypeOK /\ OneOpenRunPerDevice /\ [Next]_vars => OneOpenRunPerDevice'
    <2> SUFFICES ASSUME TypeOK, OneOpenRunPerDevice, [Next]_vars
                 PROVE  OneOpenRunPerDevice'
      OBVIOUS
    <2>1. CASE UNCHANGED vars
      BY <2>1, OpensNoRunKeeps DEF vars, OpensNoRun
    <2>2. CASE Gateway \/ Time \/ Reconciler
      BY <2>2, RestOpensNoRun, OpensNoRunKeeps
    <2> QED
      BY <2>1, <2>2, ApiKeepsOneRun, OverlapKeepsOneRun DEF Next
  <1> QED
    BY <1>1, <1>2, TypeCorrect, PTL DEF Spec

-----------------------------------------------------------------------------
(* The leads move as LeadQueue says.                                        *)

(* What a row that is not blank refers to: by the foreign keys, and by the  *)
(* reads that found it.                                                     *)
Linked ==
    /\ \A r \in Runs : run[r].status # "unused" => run[r].dev \in Devices
    /\ \A a \in Attempts : att[a].status # "unused" => att[a].lead \in Leads
    /\ \A l \in Leads : lead[l].status = "leased" => lead[l].dev \in Devices
    /\ \A q \in req : /\ q.op # "event" => run[q.run].status # "unused"
                      /\ q.op = "update" => q.to # "unused"
                      /\ q.op = "event" => att[q.att].status # "unused"

(* Lead l is put into the hands of a phone that did not have it.            *)
Leased(l) == /\ lead'[l].status = "leased"
             /\ lead[l].status = "leased" => lead'[l].dev # lead[l].dev

(* Lead l makes one of the moves of LeadQueue.                              *)
Moves(l) ==
    \/ /\ lead'[l].status = lead[l].status
       /\ lead[l].status = "leased" => lead'[l].dev = lead[l].dev
    \/ /\ lead[l].status \in {"pending", "leased"}
       /\ lead'[l].status = "leased" /\ lead'[l].dev \in Devices
    \/ lead[l].status = "leased" /\ lead'[l].status \in {"pending", "calling"}
    \/ lead'[l].status = "done"
    \/ lead'[l].status = "pending" /\ lead'[l].callback # "none"

QueueStep == /\ \A l \in Leads : Moves(l)
             /\ \A l, m \in Leads : Leased(l) /\ Leased(m) => l = m

(* A step that leases nothing.                                              *)
QuietStep == \A l \in Leads : Moves(l) /\ ~Leased(l)

LEMMA QueueStepRefines ==
    ASSUME TypeOK, TypeOK', QueueStep
    PROVE  LQ!Next
  <1>1. \A l \in Leads : LQ!Move(l)
    <2> TAKE l \in Leads
    <2>1. Moves(l) /\ lead[l].status \in LeadStatus /\ lead'[l].status \in LeadStatus
      BY DEF QueueStep, TypeOK, LeadRow
    <2> QED
      BY <2>1 DEF Moves, LQ!Move, LQ!Keep, LQ!Hold, LQ!Release, LQ!Talk, LQ!Close, LQ!Requeue,
                  Stage, LeadStatus, Remaining
  <1>2. \A l \in Leads : LQ!NewlyHeld(l) => Leased(l)
    <2> TAKE l \in Leads
    <2>1. lead[l].status \in LeadStatus /\ lead'[l].status \in LeadStatus
      BY DEF TypeOK, LeadRow
    <2> QED
      BY <2>1 DEF LQ!NewlyHeld, Leased, Stage, LeadStatus, Remaining
  <1> QED
    BY <1>1, <1>2 DEF QueueStep, LQ!Next

LEMMA QuietIsQueueStep ==
    ASSUME QuietStep
    PROVE  QueueStep
  BY DEF QuietStep, QueueStep

LEMMA UnchangedIsQuiet ==
    ASSUME UNCHANGED lead
    PROVE  QuietStep
  BY DEF QuietStep, Moves, Leased

LEMMA ReleaseIsQuiet ==
    ASSUME TypeOK, NEW ds, lead' = ReleaseDeviceLeases(ds)
    PROVE  QuietStep
  <1> SUFFICES ASSUME NEW l \in Leads PROVE Moves(l) /\ ~Leased(l)
    BY DEF QuietStep
  <1>1. CASE \E d \in ds : HeldBy(lead[l], d)
    <2>1. lead'[l].status = "pending" /\ lead[l].status = "leased"
      BY <1>1 DEF ReleaseDeviceLeases, HeldBy, Leave, TypeOK, LeadRow
    <2> QED
      BY <2>1 DEF Moves, Leased
  <1>2. CASE ~\E d \in ds : HeldBy(lead[l], d)
    BY <1>2 DEF ReleaseDeviceLeases, Moves, Leased
  <1> QED
    BY <1>1, <1>2

LEMMA FinishIsQuiet ==
    ASSUME TypeOK, NEW a \in Attempts, att[a].lead \in Leads, NEW new,
           new.status \in {"pending", "calling", "done"},
           lead' = FinishCampaignCall(a, new)
    PROVE  QuietStep
  <1> SUFFICES ASSUME NEW l \in Leads PROVE Moves(l) /\ ~Leased(l)
    BY DEF QuietStep
  <1>1. CASE l = att[a].lead /\ HeldBy(lead[l], att[a].dev)
    <2>1. lead'[l] = new
      BY <1>1 DEF FinishCampaignCall, TypeOK
    <2>2. lead[l].status = "leased"
      BY <1>1 DEF HeldBy
    <2> QED
      BY <2>1, <2>2 DEF Moves, Leased
  <1>2. CASE ~(l = att[a].lead /\ HeldBy(lead[l], att[a].dev))
    <2>1. lead'[l] = lead[l]
      BY <1>2 DEF FinishCampaignCall, TypeOK
    <2> QED
      BY <2>1 DEF Moves, Leased
  <1> QED
    BY <1>1, <1>2

LEMMA LeaveStatus ==
    ASSUME NEW c \in LeadRow, NEW s
    PROVE  /\ Leave(c, s).status = s
           /\ [Leave(c, s) EXCEPT !.dnc = FALSE].status = s
           /\ \A x : [Leave(c, s) EXCEPT !.session = x].status = s
  BY DEF Leave, LeadRow

LEMMA LeaseOneIsQueueStep ==
    ASSUME TypeOK, NEW r \in Runs, run[r].dev \in Devices, LeaseOne(r)
    PROVE  QueueStep
  <1>1. PICK k \in Front(Freed(r)) :
           lead' = [Freed(r) EXCEPT ![k].status = "leased", ![k].dev = run[r].dev,
                                    ![k].expired = FALSE]
    BY DEF LeaseOne
  <1>2. Freed(r) \in [Leads -> LeadRow]
    BY ReleaseType DEF Freed
  <1>3. k \in Leads /\ Freed(r)[k].status \in {"pending", "leased"}
    BY DEF Front, Leasable
  <1>4. \A l \in Leads : \/ Freed(r)[l] = lead[l]
                         \/ lead[l].status = "leased" /\ Freed(r)[l].status = "pending"
    <2> TAKE l \in Leads
    <2>1. Leave(lead[l], "pending").status = "pending"
      BY LeaveStatus DEF TypeOK
    <2> QED
      BY <2>1 DEF Freed, ReleaseDeviceLeases, HeldBy
  <1>5. \A l \in Leads \ {k} : lead'[l] = Freed(r)[l]
    <2> HIDE DEF Freed
    <2> QED
      BY <1>1, <1>2, <1>3
  <1>6. lead'[k].status = "leased" /\ lead'[k].dev = run[r].dev
    <2> HIDE DEF Freed
    <2> QED
      BY <1>1, <1>2, <1>3 DEF LeadRow
  <1>7. Moves(k)
    BY <1>3, <1>4, <1>6 DEF Moves
  <1>8. \A l \in Leads \ {k} : Moves(l) /\ ~Leased(l)
    BY <1>4, <1>5 DEF Moves, Leased
  <1> QED
    BY <1>7, <1>8 DEF QueueStep

LEMMA NothingToLeaseIsQuiet ==
    ASSUME TypeOK, NEW r \in Runs, NothingToLease(r)
    PROVE  QuietStep
  BY ReleaseIsQuiet DEF NothingToLease, Freed

LEMMA WriteRunIsQuiet ==
    ASSUME TypeOK, NEW r \in Runs, NEW seen, NEW to, WriteRun(r, seen, to)
    PROVE  QuietStep
  BY ReleaseIsQuiet, UnchangedIsQuiet DEF WriteRun

(* create_attempt renews the lease of a row that may no longer be leased:   *)
(* it moves nothing.                                                        *)
LEMMA InsertAttemptIsQuiet ==
    ASSUME TypeOK, NEW r \in Runs, NEW l \in Leads, NEW a \in Attempts, InsertAttempt(r, l, a)
    PROVE  QuietStep
  <1>1. \A m \in Leads : lead'[m].status = lead[m].status /\ lead'[m].dev = lead[m].dev
    BY DEF TypeOK, LeadRow, InsertAttempt
  <1> QED
    BY <1>1 DEF QuietStep, Moves, Leased

LEMMA LeadAfterIsQuiet ==
    ASSUME TypeOK, NEW a \in Attempts, att[a].lead \in Leads,
           NEW read \in Read, NEW type \in EventType,
           lead' = LeadAfter(a, read, type)
    PROVE  QuietStep
  <1> DEFINE c == lead[att[a].lead]
  <1>0. c \in LeadRow
    BY DEF TypeOK
  <1> HIDE DEF c
  <1>1. ASSUME lead' = ReturnToPending(a) PROVE QuietStep
    <2>1. lead' = FinishCampaignCall(a, Leave(c, "pending"))
      BY <1>1 DEF ReturnToPending, c
    <2>2. Leave(c, "pending").status = "pending"
      BY <1>0, LeaveStatus
    <2> QED
      BY <2>1, <2>2, FinishIsQuiet
  <1>2. CASE type = "merged"
    <2> DEFINE session == IF read.session = Nobody THEN Leave(c, "calling").session
                                                   ELSE read.session
               talked == [Leave(c, "calling") EXCEPT !.session = session]
    <2>1. talked.status = "calling"
      BY <1>0, LeaveStatus
    <2>2. lead' = FinishCampaignCall(a, talked)
      BY <1>2 DEF LeadAfter, c
    <2> HIDE DEF talked
    <2> QED
      BY <2>1, <2>2, FinishIsQuiet
  <1>3. CASE type = "lead_failed"
    <2> DEFINE failed == [Leave(c, "done") EXCEPT !.dnc = FALSE]
    <2>1. failed.status = "done"
      BY <1>0, LeaveStatus
    <2>2. lead' = FinishCampaignCall(a, failed)
      BY <1>3 DEF LeadAfter, c
    <2> HIDE DEF failed
    <2> QED
      BY <2>1, <2>2, FinishIsQuiet
  <1>4. CASE type = "skipped"
    <2>1. lead' = FinishCampaignCall(a, Leave(c, "done"))
      BY <1>4 DEF LeadAfter, c
    <2>2. Leave(c, "done").status = "done"
      BY <1>0, LeaveStatus
    <2> QED
      BY <2>1, <2>2, FinishIsQuiet
  <1>5. CASE type = "setup_failed" \/ (type = "ended" /\ read.status # "merged")
    <2>1. lead' = ReturnToPending(a)
      BY <1>5 DEF LeadAfter
    <2> QED
      BY <1>1, <2>1
  <1>6. CASE type = "ended" /\ read.status = "merged"
    <2>1. lead' = [lead EXCEPT ![att[a].lead] = finish_merged_campaign_call(c, read.session)]
      BY <1>6 DEF LeadAfter, c
    <2>2. \/ finish_merged_campaign_call(c, read.session) = c
          \/ finish_merged_campaign_call(c, read.session).status = "done"
      BY <1>0 DEF finish_merged_campaign_call, LeadRow
    <2>3. \A l \in Leads : lead'[l] = lead[l] \/ lead'[l].status = "done"
      BY <2>1, <2>2 DEF TypeOK, c
    <2> QED
      BY <2>3 DEF QuietStep, Moves, Leased
  <1> QED
    BY <1>2, <1>3, <1>4, <1>5, <1>6 DEF EventType

LEMMA ApplyEventIsQuiet ==
    ASSUME TypeOK, NEW a \in Attempts, att[a].lead \in Leads,
           NEW read \in Read, NEW type \in EventType, ApplyEvent(a, type, read)
    PROVE  QuietStep
  BY LeadAfterIsQuiet, UnchangedIsQuiet DEF ApplyEvent

(* A leg that ends gives its lead back, or closes leads.                    *)
LEMMA CleanupIsQuiet ==
    ASSUME TypeOK, NEW a \in Attempts, NEW how, on_cleanup(a, how)
    PROVE  QuietStep
  <1> DEFINE cleaned == update_campaign_call_post_cleanup(a, how)
  <1>1. cleaned \in [Leads -> LeadRow]
    BY PostCleanupType
  <1>2. \A l \in Leads : cleaned[l] = lead[l] \/ cleaned[l].status = "done"
    <2> TAKE l \in Leads
    <2>1. /\ [lead[l] EXCEPT !.status = "done"].status = "done"
          /\ [lead[l] EXCEPT !.status = "done", !.dnc = FALSE].status = "done"
      BY DEF TypeOK, LeadRow
    <2> QED
      BY <2>1 DEF update_campaign_call_post_cleanup
  <1>3. \A c \in LeadRow : \/ CleanupLead(a, c) = c
                           \/ CleanupLead(a, c).status = "done"
                           \/ /\ c.status = "leased"
                              /\ CleanupLead(a, c).status = "pending"
    <2> TAKE c \in LeadRow
    <2>1. Leave(c, "pending").status = "pending"
      BY LeaveStatus
    <2>2. \/ finish_merged_campaign_call(c, a) = c
          \/ finish_merged_campaign_call(c, a).status = "done"
      BY DEF finish_merged_campaign_call, LeadRow
    <2> QED
      BY <2>1, <2>2 DEF CleanupLead, HeldBy
  <1>4. lead' = [cleaned EXCEPT ![att[a].lead] = CleanupLead(a, @)]
    BY DEF on_cleanup
  <1>5. \A l \in Leads : lead'[l] = cleaned[l] \/ lead'[l] = CleanupLead(a, cleaned[l])
    <2> HIDE DEF cleaned
    <2> QED
      BY <1>1, <1>4
  <1> HIDE DEF cleaned
  <1>6. \A l \in Leads : \/ lead'[l] = lead[l]
                         \/ lead'[l].status = "done"
                         \/ lead[l].status = "leased" /\ lead'[l].status = "pending"
    <2> TAKE l \in Leads
    <2>1. cleaned[l] \in LeadRow
      BY <1>1
    <2> QED
      BY <1>2, <1>3, <1>5, <2>1
  <1> QED
    BY <1>6 DEF QuietStep, Moves, Leased

LEMMA DispositionIsQuiet ==
    ASSUME TypeOK, NEW l \in Leads, NEW disposition, set_rep_disposition(l, disposition)
    PROVE  QuietStep
  <1>1. \A m \in Leads \ {l} : lead'[m] = lead[m]
    BY DEF set_rep_disposition, TypeOK
  <1>2. CASE disposition = "callback"
    <2>1. lead'[l] = [Leave(lead[l], "pending") EXCEPT !.callback = "booked", !.dnc = FALSE]
      BY <1>2 DEF set_rep_disposition, TypeOK
    <2>2. lead'[l].status = "pending" /\ lead'[l].callback = "booked"
      BY <2>1 DEF Leave, TypeOK, LeadRow
    <2> QED
      BY <1>1, <2>2 DEF QuietStep, Moves, Leased
  <1>3. CASE disposition # "callback"
    <2>1. lead'[l].status = lead[l].status /\ lead'[l].dev = lead[l].dev
      BY <1>3 DEF set_rep_disposition, TypeOK, LeadRow
    <2> QED
      BY <1>1, <2>1 DEF QuietStep, Moves, Leased
  <1> QED
    BY <1>2, <1>3

LEMMA ApiQueueStep ==
    ASSUME TypeOK, Linked, Api
    PROVE  QueueStep
  <1>1. ASSUME UNCHANGED lead PROVE QueueStep
    BY <1>1, UnchangedIsQuiet, QuietIsQueueStep
  <1>2. ASSUME NEW d \in Devices, NEW r \in Runs, start_run(d, r) PROVE QueueStep
    BY <1>1, <1>2 DEF start_run
  <1>3. ASSUME NEW r \in Runs, next_lead(r) PROVE QueueStep
    <2>1. run[r].dev \in Devices
      BY <1>3 DEF next_lead, NextLeadAllowed, Linked
    <2> QED
      BY <1>3, <2>1, LeaseOneIsQueueStep, NothingToLeaseIsQuiet, QuietIsQueueStep DEF next_lead
  <1>4. ASSUME NEW r \in Runs, NEW to, update_run(r, to) PROVE QueueStep
    BY <1>4, WriteRunIsQuiet, QuietIsQueueStep DEF update_run
  <1>5. ASSUME NEW r \in Runs, NEW l \in Leads, NEW a \in Attempts, create_attempt(r, l, a)
        PROVE  QueueStep
    BY <1>5, InsertAttemptIsQuiet, QuietIsQueueStep DEF create_attempt
  <1>6. ASSUME NEW a \in Attempts, NEW type \in EventType, ingest_events(a, type)
        PROVE  QueueStep
    <2>1. att[a].lead \in Leads
      BY <1>6 DEF ingest_events, Linked
    <2> QED
      BY <1>6, <2>1, ReadOfType, ApplyEventIsQuiet, QuietIsQueueStep DEF ingest_events
  <1>7. ASSUME NEW l \in Leads, NEW disposition, set_rep_disposition(l, disposition)
        PROVE  QueueStep
    BY <1>7, DispositionIsQuiet, QuietIsQueueStep
  <1> QED
    BY <1>2, <1>3, <1>4, <1>5, <1>6, <1>7 DEF Api

LEMMA OverlapQueueStep ==
    ASSUME TypeOK, Linked, Overlap
    PROVE  QueueStep
  <1>1. ASSUME UNCHANGED lead PROVE QueueStep
    BY <1>1, UnchangedIsQuiet, QuietIsQueueStep
  <1>2. ASSUME \/ \E r \in Runs : \/ NextLeadBegin(r)
                                  \/ \E l \in Leads : CreateBegin(r, l)
                                  \/ \E to \in RunStatus : UpdateBegin(r, to)
               \/ \E a \in Attempts, type \in EventType : EventBegin(a, type)
        PROVE  QueueStep
    BY <1>1, <1>2 DEF NextLeadBegin, UpdateBegin, CreateBegin, EventBegin, Begin
  <1>3. ASSUME NEW q \in req, NextLeadCommit(q) PROVE QueueStep
    <2>1. q.run \in Runs
      BY <1>3, RequestFields DEF TypeOK, NextLeadCommit
    <2>2. run[q.run].dev \in Devices
      BY <1>3, <2>1 DEF NextLeadCommit, Linked
    <2> QED
      BY <1>3, <2>1, <2>2, LeaseOneIsQueueStep, NothingToLeaseIsQuiet, QuietIsQueueStep
         DEF NextLeadCommit
  <1>4. ASSUME NEW q \in req, DrainCommit(q) \/ Refused(q) PROVE QueueStep
    BY <1>1, <1>4 DEF DrainCommit, Refused
  <1>5. ASSUME NEW q \in req, NEW a \in Attempts, CreateCommit(q, a) PROVE QueueStep
    BY <1>5, RequestFields, InsertAttemptIsQuiet, QuietIsQueueStep DEF TypeOK, CreateCommit
  <1>6. ASSUME NEW q \in req, UpdateCommit(q) PROVE QueueStep
    BY <1>6, RequestFields, WriteRunIsQuiet, QuietIsQueueStep DEF TypeOK, UpdateCommit
  <1>7. ASSUME NEW q \in req, EventCommit(q) PROVE QueueStep
    <2>1. q.att \in Attempts /\ q.type \in EventType /\ q.read \in Read
      BY <1>7, RequestFields DEF TypeOK, EventCommit
    <2>2. att[q.att].lead \in Leads
      BY <1>7, <2>1 DEF EventCommit, Linked
    <2> QED
      BY <1>7, <2>1, <2>2, ApplyEventIsQuiet, QuietIsQueueStep DEF EventCommit
  <1> QED
    BY <1>2, <1>3, <1>4, <1>5, <1>6, <1>7 DEF Overlap

LEMMA RestIsQuiet ==
    ASSUME TypeOK, Linked, Gateway \/ Time \/ Reconciler
    PROVE  QuietStep
  <1>1. ASSUME NEW a \in Attempts, PersistDtmfMerge(a) PROVE QuietStep
    <2>1. CASE UNCHANGED lead
      BY <2>1, UnchangedIsQuiet
    <2>2. CASE att[a].status = "ai_ready"
      <3>1. att[a].lead \in Leads
        BY <2>2 DEF Linked
      <3> DEFINE talked == [Leave(lead[att[a].lead], "calling") EXCEPT !.session = a]
      <3>2. talked.status \in {"pending", "calling", "done"}
        BY <3>1, LeaveStatus DEF TypeOK
      <3>3. lead' = FinishCampaignCall(a, talked)
        BY <1>1, <2>2 DEF PersistDtmfMerge
      <3> HIDE DEF talked
      <3> QED
        BY <3>1, <3>2, <3>3, FinishIsQuiet
    <2> QED
      BY <1>1, <2>1, <2>2 DEF PersistDtmfMerge
  <1>2. CASE Gateway
    BY <1>1, <1>2, CleanupIsQuiet, UnchangedIsQuiet
       DEF Gateway, LegArrives, MarkReady, on_merged, RelaySignal, GatewayCrash
  <1>3. ASSUME NEW l \in Leads, LeaseExpires(l) \/ CallbackFallsDue(l) PROVE QuietStep
    <2>1. \A m \in Leads : lead'[m].status = lead[m].status /\ lead'[m].dev = lead[m].dev
      BY <1>3 DEF LeaseExpires, CallbackFallsDue, TypeOK, LeadRow
    <2> QED
      BY <2>1 DEF QuietStep, Moves, Leased
  <1>4. CASE Time
    BY <1>3, <1>4, UnchangedIsQuiet DEF Time, AttemptGetsLate
  <1>5. ASSUME NEW stuck, expire_stale_attempts(stuck) PROVE QuietStep
    <2> SUFFICES ASSUME NEW l \in Leads PROVE Moves(l) /\ ~Leased(l)
      BY DEF QuietStep
    <2>1. /\ Leave(lead[l], "pending").status = "pending"
          /\ [lead[l] EXCEPT !.status = "done"].status = "done"
      BY LeaveStatus DEF TypeOK, LeadRow
    <2>2. \/ lead'[l] = lead[l]
          \/ lead[l].status = "leased" /\ lead'[l].status = "pending"
          \/ lead'[l].status = "done"
      BY <1>5, <2>1 DEF expire_stale_attempts, HeldBy
    <2> QED
      BY <2>2 DEF Moves, Leased
  <1>6. ASSUME NEW stale, close_stale_runs(stale) PROVE QuietStep
    BY <1>6, ReleaseIsQuiet DEF close_stale_runs
  <1>7. CASE Reconciler
    BY <1>5, <1>6, <1>7, UnchangedIsQuiet DEF Reconciler, close_finished_campaigns
  <1> QED
    BY <1>2, <1>4, <1>7

(* A lead that is held is held by a device.                                 *)
LEMMA QueueStepHolds ==
    ASSUME Linked, QueueStep
    PROVE  \A l \in Leads : lead'[l].status = "leased" => lead'[l].dev \in Devices
  BY DEF Linked, QueueStep, Moves

RunsStayLinked ==
    \A r \in Runs : /\ run[r].status # "unused" => run'[r].status # "unused"
                    /\ run'[r].status # "unused" => run'[r].dev \in Devices

AttemptsStayLinked ==
    \A a \in Attempts : /\ att[a].status # "unused" => att'[a].status # "unused"
                        /\ att'[a].status # "unused" => att'[a].lead \in Leads

LinkedRequest(q) == /\ q.op # "event" => run[q.run].status # "unused"
                    /\ q.op = "update" => q.to # "unused"
                    /\ q.op = "event" => att[q.att].status # "unused"

RequestsStayLinked == \A q \in req' : q \in req \/ LinkedRequest(q)

LEMMA StaysLinked ==
    ASSUME Linked, TypeOK', QueueStep, RunsStayLinked, AttemptsStayLinked, RequestsStayLinked
    PROVE  Linked'
  <1>1. \A r \in Runs : run'[r].status # "unused" => run'[r].dev \in Devices
    BY DEF RunsStayLinked
  <1>2. \A a \in Attempts : att'[a].status # "unused" => att'[a].lead \in Leads
    BY DEF AttemptsStayLinked
  <1>3. \A l \in Leads : lead'[l].status = "leased" => lead'[l].dev \in Devices
    BY QueueStepHolds
  <1>4. ASSUME NEW q \in req' PROVE LinkedRequest(q)'
    <2>1. LinkedRequest(q)
      BY <1>4 DEF RequestsStayLinked, Linked, LinkedRequest
    <2>2. q \in Request
      BY <1>4 DEF TypeOK
    <2>3. /\ q.op # "event" => q.run \in Runs
          /\ q.op = "event" => q.att \in Attempts
      BY <2>2, RequestFields DEF Request
    <2> QED
      BY <2>1, <2>3 DEF LinkedRequest, RunsStayLinked, AttemptsStayLinked
  <1> QED
    BY <1>1, <1>2, <1>3, <1>4 DEF Linked, LinkedRequest

LEMMA WriteRunStaysLinked ==
    ASSUME TypeOK, Linked, NEW r \in Runs, NEW seen, NEW to,
           run[r].status # "unused", to # "unused", WriteRun(r, seen, to)
    PROVE  RunsStayLinked
  BY DEF RunsStayLinked, WriteRun, Linked, TypeOK, RunRow

LEMMA CompleteRunStaysLinked ==
    ASSUME TypeOK, Linked, NEW r \in Runs, run[r].status # "unused", CompleteRun(r)
    PROVE  RunsStayLinked
  BY DEF RunsStayLinked, CompleteRun, Linked, TypeOK, RunRow

LEMMA InsertAttemptStaysLinked ==
    ASSUME TypeOK, Linked, NEW r \in Runs, NEW l \in Leads, NEW a \in Attempts,
           InsertAttempt(r, l, a)
    PROVE  AttemptsStayLinked
  <1> SUFFICES ASSUME NEW b \in Attempts
               PROVE  /\ att[b].status # "unused" => att'[b].status # "unused"
                      /\ att'[b].status # "unused" => att'[b].lead \in Leads
    BY DEF AttemptsStayLinked
  <1>1. CASE b = a
    BY <1>1 DEF InsertAttempt, TypeOK, AttemptRow
  <1>2. CASE b # a /\ b \in OpenAttempts(run[r].dev)
    <2>1. att'[b].status = "superseded" /\ att'[b].lead = att[b].lead
      BY <1>2 DEF InsertAttempt, TypeOK, AttemptRow
    <2>2. att[b].status # "unused"
      BY <1>2 DEF OpenAttempts, Open, OPEN_ATTEMPT_STATUSES
    <2> QED
      BY <2>1, <2>2 DEF Linked
  <1>3. CASE b # a /\ b \notin OpenAttempts(run[r].dev)
    <2>1. att'[b] = att[b]
      BY <1>3 DEF InsertAttempt
    <2> QED
      BY <2>1 DEF Linked
  <1> QED
    BY <1>1, <1>2, <1>3

LEMMA ApplyEventStaysLinked ==
    ASSUME TypeOK, Linked, NEW a \in Attempts, att[a].status # "unused",
           NEW read \in Read, NEW type \in EventType, ApplyEvent(a, type, read)
    PROVE  AttemptsStayLinked
  <1> DEFINE status == StatusAfter(read.status, type)
             now == [att[a] EXCEPT !.told = ToldAfter(type)]
  <1>1. /\ now.lead = att[a].lead /\ now.status = att[a].status
        /\ [now EXCEPT !.status = status].lead = att[a].lead
        /\ [now EXCEPT !.status = status].status = status
    BY DEF TypeOK, AttemptRow
  <1>2. status # read.status => status # "unused"
    BY DEF StatusAfter, EventType
  <1>3. \/ att' = [att EXCEPT ![a] = now]
        \/ status # read.status /\ att' = [att EXCEPT ![a] = [now EXCEPT !.status = status]]
    BY DEF ApplyEvent
  <1> HIDE DEF now, status
  <1>4. \A b \in Attempts : /\ att'[b].lead = att[b].lead
                            /\ att[b].status # "unused" => att'[b].status # "unused"
                            /\ att'[b].status # "unused" => att[b].status # "unused"
    BY <1>1, <1>2, <1>3 DEF TypeOK
  <1> QED
    BY <1>4 DEF Linked, AttemptsStayLinked

LEMMA ApiLinked ==
    ASSUME TypeOK, Linked, TypeOK', Api
    PROVE  Linked'
  <1>0. QueueStep
    BY ApiQueueStep
  <1>1. UNCHANGED run => RunsStayLinked
    BY DEF RunsStayLinked, Linked
  <1>2. UNCHANGED att => AttemptsStayLinked
    BY DEF AttemptsStayLinked, Linked
  <1>3. UNCHANGED req => RequestsStayLinked
    BY DEF RequestsStayLinked
  <1>4. ASSUME NEW d \in Devices, NEW r \in Runs, start_run(d, r) PROVE Linked'
    <2>1. RunsStayLinked
      <3>1. CASE OpenRuns(d) = {}
        BY <1>4, <3>1 DEF start_run, RunsStayLinked, Linked, TypeOK, RunRow
      <3>2. CASE OpenRuns(d) # {}
        <4>1. run[r].status # "unused" /\ run' = [run EXCEPT ![r].status = "running"]
          BY <1>4, <3>2 DEF start_run, OpenRuns, RunOpen
        <4> QED
          BY <4>1 DEF RunsStayLinked, Linked, TypeOK, RunRow
      <3> QED
        BY <3>1, <3>2
    <2> QED
      BY <1>0, <1>2, <1>3, <1>4, <2>1, StaysLinked DEF start_run
  <1>5. ASSUME NEW r \in Runs, next_lead(r) PROVE Linked'
    <2>1. run[r].status # "unused"
      BY <1>5 DEF next_lead, NextLeadAllowed
    <2>2. RunsStayLinked
      BY <1>1, <1>5, <2>1, CompleteRunStaysLinked DEF next_lead
    <2> QED
      BY <1>0, <1>2, <1>3, <1>5, <2>2, StaysLinked DEF next_lead
  <1>6. ASSUME NEW r \in Runs, NEW to, update_run(r, to) PROVE Linked'
    <2>1. run[r].status # "unused" /\ to # "unused"
      BY <1>6 DEF update_run, RunOpen
    <2>2. RunsStayLinked
      BY <1>6, <2>1, WriteRunStaysLinked DEF update_run
    <2> QED
      BY <1>0, <1>2, <1>3, <1>6, <2>2, StaysLinked DEF update_run
  <1>7. ASSUME NEW r \in Runs, NEW l \in Leads, NEW a \in Attempts, create_attempt(r, l, a)
        PROVE  Linked'
    BY <1>0, <1>1, <1>3, <1>7, InsertAttemptStaysLinked, StaysLinked DEF create_attempt
  <1>8. ASSUME NEW a \in Attempts, NEW type \in EventType, ingest_events(a, type)
        PROVE  Linked'
    <2>1. AttemptsStayLinked
      BY <1>8, ReadOfType, ApplyEventStaysLinked DEF ingest_events
    <2> QED
      BY <1>0, <1>1, <1>3, <1>8, <2>1, StaysLinked DEF ingest_events
  <1>9. ASSUME NEW l \in Leads, NEW disposition, set_rep_disposition(l, disposition)
        PROVE  Linked'
    BY <1>0, <1>1, <1>2, <1>3, <1>9, StaysLinked DEF set_rep_disposition
  <1> QED
    BY <1>4, <1>5, <1>6, <1>7, <1>8, <1>9 DEF Api

LEMMA OverlapLinked ==
    ASSUME TypeOK, Linked, TypeOK', Overlap
    PROVE  Linked'
  <1>0. QueueStep
    BY OverlapQueueStep
  <1>1. UNCHANGED run => RunsStayLinked
    BY DEF RunsStayLinked, Linked
  <1>2. UNCHANGED att => AttemptsStayLinked
    BY DEF AttemptsStayLinked, Linked
  <1>3. \A q : Done(q) => RequestsStayLinked
    BY DEF RequestsStayLinked, Done
  <1>4. ASSUME NEW q, LinkedRequest(q), Begin(q) PROVE Linked'
    <2>1. RequestsStayLinked
      BY <1>4 DEF RequestsStayLinked, Begin
    <2> QED
      BY <1>0, <1>1, <1>2, <1>4, <2>1, StaysLinked DEF Begin
  <1>5. ASSUME NEW r \in Runs, NextLeadBegin(r) PROVE Linked'
    <2>1. LinkedRequest([op |-> "next", run |-> r])
      BY <1>5 DEF LinkedRequest, NextLeadBegin, NextLeadAllowed
    <2> QED
      BY <1>4, <1>5, <2>1 DEF NextLeadBegin
  <1>6. ASSUME NEW r \in Runs, NEW l \in Leads, CreateBegin(r, l) PROVE Linked'
    <2>1. LinkedRequest([op |-> "create", run |-> r, lead |-> l])
      BY <1>6 DEF LinkedRequest, CreateBegin, CreateAllowed
    <2> QED
      BY <1>4, <1>6, <2>1 DEF CreateBegin
  <1>7. ASSUME NEW r \in Runs, NEW to \in RunStatus, UpdateBegin(r, to) PROVE Linked'
    <2>1. LinkedRequest([op |-> "update", run |-> r, to |-> to, seen |-> run[r].status])
      BY <1>7 DEF LinkedRequest, UpdateBegin, RunOpen
    <2> QED
      BY <1>4, <1>7, <2>1 DEF UpdateBegin
  <1>8. ASSUME NEW a \in Attempts, NEW type \in EventType, EventBegin(a, type) PROVE Linked'
    <2>1. LinkedRequest([op |-> "event", att |-> a, type |-> type, read |-> ReadOf(a)])
      BY <1>8 DEF LinkedRequest, EventBegin
    <2> QED
      BY <1>4, <1>8, <2>1 DEF EventBegin
  <1>9. ASSUME NEW q \in req, NextLeadCommit(q) PROVE Linked'
    <2>1. LinkedRequest([op |-> "drain", run |-> q.run])
      BY <1>9 DEF LinkedRequest, NextLeadCommit, Linked
    <2>2. RequestsStayLinked
      BY <1>9, <1>3, <2>1 DEF RequestsStayLinked, NextLeadCommit
    <2> QED
      BY <1>0, <1>1, <1>2, <1>9, <2>2, StaysLinked DEF NextLeadCommit
  <1>10. ASSUME NEW q \in req, DrainCommit(q) PROVE Linked'
    <2>1. q.run \in Runs /\ run[q.run].status # "unused"
      BY <1>10, RequestFields DEF TypeOK, DrainCommit, Linked
    <2>2. RunsStayLinked
      BY <1>10, <2>1, CompleteRunStaysLinked DEF DrainCommit
    <2> QED
      BY <1>0, <1>2, <1>3, <1>10, <2>2, StaysLinked DEF DrainCommit
  <1>11. ASSUME NEW q \in req, NEW a \in Attempts, CreateCommit(q, a) PROVE Linked'
    <2>1. q.run \in Runs /\ q.lead \in Leads
      BY <1>11, RequestFields DEF TypeOK, CreateCommit
    <2>2. AttemptsStayLinked
      BY <1>11, <2>1, InsertAttemptStaysLinked DEF CreateCommit
    <2> QED
      BY <1>0, <1>1, <1>3, <1>11, <2>2, StaysLinked DEF CreateCommit
  <1>12. ASSUME NEW q \in req, UpdateCommit(q) PROVE Linked'
    <2>1. q.run \in Runs /\ run[q.run].status # "unused" /\ q.to # "unused"
      BY <1>12, RequestFields DEF TypeOK, UpdateCommit, Linked
    <2>2. RunsStayLinked
      BY <1>12, <2>1, WriteRunStaysLinked DEF UpdateCommit
    <2> QED
      BY <1>0, <1>2, <1>3, <1>12, <2>2, StaysLinked DEF UpdateCommit
  <1>13. ASSUME NEW q \in req, EventCommit(q) PROVE Linked'
    <2>1. q.att \in Attempts /\ q.type \in EventType /\ q.read \in Read
      BY <1>13, RequestFields DEF TypeOK, EventCommit
    <2>2. att[q.att].status # "unused"
      BY <1>13 DEF EventCommit, Linked
    <2>3. AttemptsStayLinked
      BY <1>13, <2>1, <2>2, ApplyEventStaysLinked DEF EventCommit
    <2> QED
      BY <1>0, <1>1, <1>3, <1>13, <2>3, StaysLinked DEF EventCommit
  <1>14. ASSUME NEW q \in req, Refused(q) PROVE Linked'
    BY <1>0, <1>1, <1>2, <1>3, <1>14, StaysLinked DEF Refused
  <1> QED
    BY <1>5, <1>6, <1>7, <1>8, <1>9, <1>10, <1>11, <1>12, <1>13, <1>14 DEF Overlap

LEMMA GatewayStaysLinked ==
    ASSUME TypeOK, Linked, Gateway
    PROVE  AttemptsStayLinked
  <1> SUFFICES ASSUME NEW b \in Attempts
               PROVE  /\ att'[b].lead = att[b].lead
                      /\ att[b].status # "unused" <=> att'[b].status # "unused"
    BY DEF AttemptsStayLinked, Linked
  <1> DEFINE Kept == /\ att'[b].lead = att[b].lead
                     /\ att[b].status # "unused" <=> att'[b].status # "unused"
  <1>1. ASSUME NEW a \in Attempts, LegArrives(a) PROVE Kept
    BY <1>1 DEF LegArrives, TypeOK, AttemptRow
  <1>2. ASSUME NEW a \in Attempts, MarkReady(a) PROVE Kept
    BY <1>2 DEF MarkReady, TypeOK, AttemptRow
  <1>3. ASSUME NEW a \in Attempts, on_merged(a) \/ RelaySignal(a) \/ GatewayCrash(a) PROVE Kept
    BY <1>3 DEF on_merged, RelaySignal, GatewayCrash, TypeOK, AttemptRow
  <1>4. ASSUME NEW a \in Attempts, PersistDtmfMerge(a) PROVE Kept
    BY <1>4 DEF PersistDtmfMerge, TypeOK, AttemptRow
  <1>5. ASSUME NEW a \in Attempts, NEW how, on_cleanup(a, how) PROVE Kept
    <2>1. /\ att'[b].lead = att[b].lead
          /\ att'[b].status = IF b = a THEN CleanupStatus(att[a]) ELSE att[b].status
      BY <1>5 DEF on_cleanup, TypeOK, AttemptRow
    <2> QED
      BY <2>1 DEF CleanupStatus, OPEN_ATTEMPT_STATUSES
  <1> QED
    BY <1>1, <1>2, <1>3, <1>4, <1>5 DEF Gateway

LEMMA RestLinked ==
    ASSUME TypeOK, Linked, TypeOK', Gateway \/ Time \/ Reconciler
    PROVE  Linked'
  <1>0. QueueStep
    BY RestIsQuiet, QuietIsQueueStep
  <1>1. UNCHANGED run => RunsStayLinked
    BY DEF RunsStayLinked, Linked
  <1>2. UNCHANGED att => AttemptsStayLinked
    BY DEF AttemptsStayLinked, Linked
  <1>3. UNCHANGED req => RequestsStayLinked
    BY DEF RequestsStayLinked
  <1>4. CASE Gateway
    <2>1. UNCHANGED run /\ UNCHANGED req
      BY <1>4 DEF Gateway, LegArrives, MarkReady, on_merged, RelaySignal, PersistDtmfMerge,
                  on_cleanup, GatewayCrash
    <2> QED
      BY <1>0, <1>1, <1>3, <1>4, <2>1, GatewayStaysLinked, StaysLinked
  <1>5. ASSUME NEW a \in Attempts, AttemptGetsLate(a) PROVE Linked'
    <2>1. AttemptsStayLinked
      BY <1>5 DEF AttemptsStayLinked, Linked, AttemptGetsLate, TypeOK, AttemptRow
    <2> QED
      BY <1>0, <1>1, <1>3, <1>5, <2>1, StaysLinked DEF AttemptGetsLate
  <1>6. ASSUME NEW l \in Leads, LeaseExpires(l) \/ CallbackFallsDue(l) PROVE Linked'
    BY <1>0, <1>1, <1>2, <1>3, <1>6, StaysLinked DEF LeaseExpires, CallbackFallsDue
  <1>7. ASSUME NEW stuck, expire_stale_attempts(stuck) PROVE Linked'
    <2>1. AttemptsStayLinked
      BY <1>7 DEF AttemptsStayLinked, Linked, expire_stale_attempts, StaleAttempts,
                  TypeOK, AttemptRow
    <2> QED
      BY <1>0, <1>1, <1>3, <1>7, <2>1, StaysLinked DEF expire_stale_attempts
  <1>8. ASSUME NEW stale, close_stale_runs(stale) PROVE Linked'
    <2>1. RunsStayLinked
      <3>1. \A r \in stale : run[r].status # "unused"
        BY <1>8 DEF close_stale_runs, MayBeStale, RunOpen
      <3>2. \A r \in Runs : run'[r].dev = run[r].dev
        BY <1>8 DEF close_stale_runs, TypeOK, RunRow
      <3>3. \A r \in Runs : run'[r].status = IF r \in stale THEN "completed" ELSE run[r].status
        BY <1>8 DEF close_stale_runs, TypeOK, RunRow
      <3> QED
        BY <3>1, <3>2, <3>3 DEF RunsStayLinked, Linked
    <2> QED
      BY <1>0, <1>2, <1>3, <1>8, <2>1, StaysLinked DEF close_stale_runs
  <1>9. ASSUME close_finished_campaigns PROVE Linked'
    BY <1>0, <1>1, <1>2, <1>3, <1>9, StaysLinked DEF close_finished_campaigns
  <1> QED
    BY <1>4, <1>5, <1>6, <1>7, <1>8, <1>9 DEF Time, Reconciler

LEMMA UnchangedLinked ==
    ASSUME TypeOK, Linked, UNCHANGED vars
    PROVE  Linked'
  BY DEF vars, Linked

LEMMA AlwaysLinked == Spec => []Linked
  <1>1. Init => Linked
    BY DEF Init, Linked
  <1>2. TypeOK /\ TypeOK' /\ Linked /\ [Next]_vars => Linked'
    <2> SUFFICES ASSUME TypeOK, TypeOK', Linked, [Next]_vars PROVE Linked'
      OBVIOUS
    <2>1. CASE UNCHANGED vars
      BY <2>1, UnchangedLinked
    <2> QED
      BY <2>1, ApiLinked, OverlapLinked, RestLinked DEF Next
  <1> QED
    BY <1>1, <1>2, TypeCorrect, PTL DEF Spec

(* The server implements the promise about each lead: it is called only     *)
(* from the hands of a phone, no request puts two leads into phones' hands, *)
(* and a closed lead comes back only by a callback.                         *)
THEOREM ServerImplementsLeadQueue == Spec => ImplementsLeadQueue
  <1>1. Init => LQ!Init
    <2> SUFFICES ASSUME Init PROVE LQ!Init
      OBVIOUS
    <2>1. \A l \in Leads : lead[l].status = "pending" /\ lead[l].callback = "none"
      BY DEF Init
    <2>2. \A l \in Leads : Stage(lead[l]) = "queued"
      BY <2>1 DEF Stage
    <2>3. [l \in Leads |-> Stage(lead[l])] = [l \in Leads |-> "queued"]
      BY <2>2
    <2>4. [l \in Leads |-> IF lead[l].status = "leased" THEN lead[l].dev ELSE Nobody]
             = [l \in Leads |-> Nobody]
      BY <2>1
    <2>5. [l \in Leads |-> lead[l].callback # "none"] = [l \in Leads |-> FALSE]
      BY <2>1
    <2> QED
      BY <2>3, <2>4, <2>5 DEF LQ!Init
  <1>2. TypeOK /\ TypeOK' /\ Linked /\ [Next]_vars => [LQ!Next]_(LQ!vars)
    <2> SUFFICES ASSUME TypeOK, TypeOK', Linked, [Next]_vars
                 PROVE  [LQ!Next]_(LQ!vars)
      OBVIOUS
    <2>1. CASE UNCHANGED vars
      BY <2>1 DEF vars, LQ!vars
    <2>2. CASE Next
      <3>1. QueueStep
        BY <2>2, ApiQueueStep, OverlapQueueStep, RestIsQuiet, QuietIsQueueStep DEF Next
      <3> QED
        BY <3>1, QueueStepRefines
    <2> QED
      BY <2>1, <2>2
  <1> QED
    BY <1>1, <1>2, TypeCorrect, AlwaysLinked, PTL DEF Spec, ImplementsLeadQueue, LQ!Spec
=============================================================================
