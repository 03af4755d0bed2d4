-------------------------- MODULE MobileSerial_proofs -------------------------
(****************************************************************************)
(* Theorems of MobileBackend when no handler is suspended between its reads *)
(* and its writes (MaxInFlight = 0), for any number of phones, leads, runs,  *)
(* attempts, crashes and verdicts: who holds which lead, what becomes of an  *)
(* attempt, and when the campaign completes.  Handlers that overlap break    *)
(* most of it: a lease is written for a run that was read open, a merge for  *)
(* an attempt that was read open.                                            *)
(****************************************************************************)
EXTENDS MobileBackend_proofs, FiniteSetTheorems

-----------------------------------------------------------------------------
(* The inductive invariant.                                                 *)

(* An attempt that was never created has no AI leg.                         *)
FreshHasNoLeg == \A a \in Attempts : att[a].status = "unused" => att[a].leg = "none"

(* A merge was told by the app or heard by the leg, so the app reports no   *)
(* failure of the call any more.                                            *)
MergeIsKnown ==
    \A a \in Attempts : att[a].status = "merged" => att[a].heard \/ att[a].told = "merged"

(* The leads in the hands of phones.                                        *)
Hands == OneLeasePerDevice /\ BusyDeviceHoldsOnlyItsLead /\ LeaseHasOpenRun

(* The attempts and their leads.                                            *)
Calls == FreshHasNoLeg /\ MergeIsKnown /\ CallingHasMergedAttempt /\ CleanedUpIsClosed

SerialInv == TypeOK /\ Linked /\ req = {} /\ Hands /\ Calls

(* What may happen when no handler is suspended.                            *)
SerialNext == Api \/ Gateway \/ Time \/ Reconciler

LEMMA NothingOverlaps ==
    ASSUME MaxInFlight = 0, req = {}, [Next]_vars
    PROVE  req' = {} /\ (SerialNext \/ UNCHANGED vars)
  <1>1. Cardinality(req) = 0
    BY FS_EmptySet
  <1>2. ~Overlap
    BY <1>1 DEF Overlap, NextLeadBegin, CreateBegin, UpdateBegin, EventBegin, Begin
  <1>3. SerialNext \/ UNCHANGED vars
    BY <1>2 DEF Next, SerialNext
  <1>4. Api => UNCHANGED req
    BY DEF Api, start_run, next_lead, update_run, create_attempt, ingest_events,
           set_rep_disposition
  <1>5. Gateway => UNCHANGED req
    BY DEF Gateway, LegArrives, MarkReady, on_merged, RelaySignal, PersistDtmfMerge,
           on_cleanup, GatewayCrash
  <1>6. Time \/ Reconciler => UNCHANGED req
    BY DEF Time, AttemptGetsLate, LeaseExpires, CallbackFallsDue, Reconciler,
           expire_stale_attempts, close_stale_runs, close_finished_campaigns
  <1>7. UNCHANGED vars => UNCHANGED req
    BY DEF vars
  <1> QED
    BY <1>3, <1>4, <1>5, <1>6, <1>7 DEF SerialNext

-----------------------------------------------------------------------------
(* What the steps do to an attempt.                                         *)

(* The attempt stays the attempt of its phone at its lead.                  *)
SameCall(b) == att'[b].dev = att[b].dev /\ att'[b].lead = att[b].lead

(* An event of the app on attempt a, from a fresh read.                     *)
LEMMA EventEffect ==
    ASSUME TypeOK, NEW a \in Attempts, NEW type \in EventType, ApplyEvent(a, type, ReadOf(a))
    PROVE  /\ \A b \in Attempts \ {a} : att'[b] = att[b]
           /\ SameCall(a)
           /\ att'[a].leg = att[a].leg /\ att'[a].heard = att[a].heard
           /\ att'[a].told = ToldAfter(type)
           /\ att'[a].status = StatusAfter(att[a].status, type)
  <1> DEFINE now == [att[a] EXCEPT !.told = ToldAfter(type)]
             new == [now EXCEPT !.status = StatusAfter(att[a].status, type)]
  <1>1. ReadOf(a).status = att[a].status
    BY DEF ReadOf
  <1>2. /\ now.dev = att[a].dev /\ now.lead = att[a].lead /\ now.leg = att[a].leg
        /\ now.heard = att[a].heard /\ now.told = ToldAfter(type) /\ now.status = att[a].status
    BY DEF TypeOK, AttemptRow
  <1>3. /\ new.dev = att[a].dev /\ new.lead = att[a].lead /\ new.leg = att[a].leg
        /\ new.heard = att[a].heard /\ new.told = ToldAfter(type)
        /\ new.status = StatusAfter(att[a].status, type)
    BY DEF TypeOK, AttemptRow
  <1>4. \/ att' = [att EXCEPT ![a] = now] /\ StatusAfter(att[a].status, type) = att[a].status
        \/ att' = [att EXCEPT ![a] = new]
    BY <1>1 DEF ApplyEvent
  <1> HIDE DEF now, new
  <1> QED
    BY <1>2, <1>3, <1>4 DEF TypeOK, SameCall

(* The attempt that is created, and those of its phone that it supersedes.  *)
LEMMA InsertEffect ==
    ASSUME TypeOK, NEW r \in Runs, NEW l \in Leads, NEW a \in Attempts, InsertAttempt(r, l, a)
    PROVE  /\ att[a].status = "unused"
           /\ att'[a].status = "pending" /\ att'[a].dev = run[r].dev /\ att'[a].lead = l
           /\ att'[a].leg = att[a].leg
           /\ \A b \in Attempts \ {a} :
                 /\ SameCall(b)
                 /\ att'[b].leg = att[b].leg /\ att'[b].heard = att[b].heard
                 /\ att'[b].told = att[b].told
                 /\ att'[b].status = IF b \in OpenAttempts(run[r].dev) THEN "superseded"
                                                                       ELSE att[b].status
  <1>1. att[a].status = "unused"
    BY DEF InsertAttempt
  <1>2. /\ att'[a].status = "pending" /\ att'[a].dev = run[r].dev /\ att'[a].lead = l
        /\ att'[a].leg = att[a].leg
    BY DEF InsertAttempt, TypeOK, AttemptRow
  <1>3. ASSUME NEW b \in Attempts \ {a}
        PROVE  /\ SameCall(b)
               /\ att'[b].leg = att[b].leg /\ att'[b].heard = att[b].heard
               /\ att'[b].told = att[b].told
               /\ att'[b].status = IF b \in OpenAttempts(run[r].dev) THEN "superseded"
                                                                     ELSE att[b].status
    <2>1. CASE b \in OpenAttempts(run[r].dev)
      BY <2>1 DEF InsertAttempt, TypeOK, AttemptRow, SameCall
    <2>2. CASE b \notin OpenAttempts(run[r].dev)
      BY <2>2 DEF InsertAttempt, SameCall
    <2> QED
      BY <2>1, <2>2
  <1> QED
    BY <1>1, <1>2, <1>3

(* The steps of an AI leg, and what they may make of the status.            *)
LegStep(b) == \/ att'[b].status = att[b].status
              \/ att[b].status = "pending" /\ att'[b].status = "ai_connected"
              \/ att[b].status \in {"pending", "ai_connected"} /\ att'[b].status = "ai_ready"
              \/ /\ att[b].status = "ai_ready" /\ att'[b].status = "merged"
                 /\ att'[b].heard
              \/ Open(b) /\ att'[b].status \in {"completed", "abandoned"}

(* And of the leg itself.                                                   *)
LegMoves(b) == \/ att'[b].leg = att[b].leg
               \/ att[b].status = "pending" /\ att'[b].leg = "connecting"
               \/ att[b].leg \in LegUp /\ att'[b].leg \in {"ready", "lost"}
               \/ /\ att[b].leg \in LegUp /\ att'[b].leg = "ended"
                  /\ att'[b].status = CleanupStatus(att[b])

LEMMA GatewayEffect ==
    ASSUME TypeOK, Gateway, NEW b \in Attempts
    PROVE  /\ SameCall(b) /\ LegStep(b) /\ LegMoves(b)
           /\ att'[b].told = att[b].told
           /\ att[b].heard => att'[b].heard
  <1> DEFINE Kept == /\ SameCall(b) /\ LegStep(b) /\ LegMoves(b)
                     /\ att'[b].told = att[b].told
                     /\ att[b].heard => att'[b].heard
  <1>1. ASSUME NEW a \in Attempts, LegArrives(a) PROVE Kept
    BY <1>1 DEF LegArrives, TypeOK, AttemptRow, SameCall, LegStep, LegMoves
  <1>2. ASSUME NEW a \in Attempts, MarkReady(a) PROVE Kept
    <2>1. CASE b = a
      <3>1. /\ att'[b].status = IF att[b].status \in {"pending", "ai_connected"} THEN "ai_ready"
                                                                               ELSE att[b].status
            /\ att'[b].leg = "ready" /\ att[b].leg = "connecting"
            /\ att'[b].heard = (att[b].heard \/ att[b].status = "merged")
            /\ att'[b].told = att[b].told /\ SameCall(b)
        BY <1>2, <2>1 DEF MarkReady, TypeOK, AttemptRow, SameCall
      <3> QED
        BY <3>1 DEF LegStep, LegMoves, LegUp
    <2>2. CASE b # a
      BY <1>2, <2>2 DEF MarkReady, TypeOK, SameCall, LegStep, LegMoves
    <2> QED
      BY <2>1, <2>2
  <1>3. ASSUME NEW a \in Attempts, on_merged(a) \/ RelaySignal(a) PROVE Kept
    BY <1>3 DEF on_merged, RelaySignal, TypeOK, AttemptRow, SameCall, LegStep, LegMoves
  <1>4. ASSUME NEW a \in Attempts, GatewayCrash(a) PROVE Kept
    BY <1>4 DEF GatewayCrash, TypeOK, AttemptRow, SameCall, LegStep, LegMoves
  <1>5. ASSUME NEW a \in Attempts, PersistDtmfMerge(a) PROVE Kept
    BY <1>5 DEF PersistDtmfMerge, TypeOK, AttemptRow, SameCall, LegStep, LegMoves
  <1>6. ASSUME NEW a \in Attempts, NEW how, on_cleanup(a, how) PROVE Kept
    <2>1. CASE b = a
      <3>1. /\ att'[b].status = CleanupStatus(att[b])
            /\ att'[b].leg = "ended" /\ att[b].leg \in LegUp
            /\ att'[b].heard = att[b].heard /\ att'[b].told = att[b].told /\ SameCall(b)
        BY <1>6, <2>1 DEF on_cleanup, TypeOK, AttemptRow, SameCall
      <3>2. LegStep(b)
        BY <3>1 DEF LegStep, CleanupStatus, Open, OPEN_ATTEMPT_STATUSES
      <3> QED
        BY <3>1, <3>2 DEF LegMoves
    <2>2. CASE b # a
      BY <1>6, <2>2 DEF on_cleanup, TypeOK, SameCall, LegStep, LegMoves
    <2> QED
      BY <2>1, <2>2
  <1> QED
    BY <1>1, <1>2, <1>3, <1>4, <1>5, <1>6 DEF Gateway

(* Time and the reconciler only let an attempt expire that waits for its    *)
(* leg.                                                                     *)
LEMMA RestEffect ==
    ASSUME TypeOK, Time \/ Reconciler, NEW b \in Attempts
    PROVE  /\ SameCall(b)
           /\ att'[b].leg = att[b].leg /\ att'[b].heard = att[b].heard
           /\ att'[b].told = att[b].told
           /\ \/ att'[b].status = att[b].status
              \/ att[b].status = "pending" /\ att'[b].status = "expired"
  <1> DEFINE Kept == /\ SameCall(b)
                     /\ att'[b].leg = att[b].leg /\ att'[b].heard = att[b].heard
                     /\ att'[b].told = att[b].told
                     /\ \/ att'[b].status = att[b].status
                        \/ att[b].status = "pending" /\ att'[b].status = "expired"
  <1>1. UNCHANGED att => Kept
    BY DEF SameCall
  <1>2. ASSUME NEW a \in Attempts, AttemptGetsLate(a) PROVE Kept
    BY <1>2 DEF AttemptGetsLate, TypeOK, AttemptRow, SameCall
  <1>3. ASSUME NEW l \in Leads, LeaseExpires(l) \/ CallbackFallsDue(l) PROVE Kept
    BY <1>1, <1>3 DEF LeaseExpires, CallbackFallsDue
  <1>4. ASSUME NEW stuck, expire_stale_attempts(stuck) PROVE Kept
    <2>1. CASE b \in StaleAttempts
      BY <1>4, <2>1 DEF expire_stale_attempts, StaleAttempts, TypeOK, AttemptRow, SameCall
    <2>2. CASE b \notin StaleAttempts
      BY <1>4, <2>2 DEF expire_stale_attempts, SameCall
    <2> QED
      BY <2>1, <2>2
  <1>5. ASSUME NEW stale, close_stale_runs(stale) PROVE Kept
    BY <1>1, <1>5 DEF close_stale_runs
  <1>6. close_finished_campaigns => Kept
    BY <1>1 DEF close_finished_campaigns
  <1> QED
    BY <1>2, <1>3, <1>4, <1>5, <1>6 DEF Time, Reconciler

(* The handlers that write attempts.                                        *)
LEMMA ApiWritesAttempts ==
    ASSUME Api
    PROVE  \/ UNCHANGED att
           \/ \E r \in Runs, l \in Leads, a \in Attempts : create_attempt(r, l, a)
           \/ \E a \in Attempts, type \in EventType : ingest_events(a, type)
  BY DEF Api, start_run, next_lead, update_run, set_rep_disposition

LEMMA IngestEffect ==
    ASSUME TypeOK, NEW a \in Attempts, NEW type \in EventType, ingest_events(a, type)
    PROVE  /\ Follows(att[a], type)
           /\ ApplyEvent(a, type, ReadOf(a))
           /\ \A b \in Attempts \ {a} : att'[b] = att[b]
           /\ SameCall(a)
           /\ att'[a].leg = att[a].leg /\ att'[a].heard = att[a].heard
           /\ att'[a].told = ToldAfter(type)
           /\ att'[a].status = StatusAfter(att[a].status, type)
  <1>1. Follows(att[a], type) /\ ApplyEvent(a, type, ReadOf(a))
    BY DEF ingest_events
  <1> QED
    BY <1>1, EventEffect

-----------------------------------------------------------------------------
(* Attempts: what is closed stays closed, and a leg that was cleaned up     *)
(* leaves its attempt closed.                                               *)

LEMMA ClosedStaysInStep ==
    ASSUME TypeOK, SerialNext, NEW b \in Attempts, att[b].status \in AttemptClosed
    PROVE  att'[b].status = att[b].status
  <1>0. att[b].status # "unused" /\ ~Open(b)
    BY DEF AttemptClosed, Open, OPEN_ATTEMPT_STATUSES
  <1>1. ASSUME NEW r \in Runs, NEW l \in Leads, NEW a \in Attempts, create_attempt(r, l, a)
        PROVE  att'[b].status = att[b].status
    <2>1. InsertAttempt(r, l, a)
      BY <1>1 DEF create_attempt
    <2>2. b \notin OpenAttempts(run[r].dev)
      BY <1>0 DEF OpenAttempts
    <2> QED
      BY <1>0, <2>1, <2>2, InsertEffect
  <1>2. ASSUME NEW a \in Attempts, NEW type \in EventType, ingest_events(a, type)
        PROVE  att'[b].status = att[b].status
    BY <1>0, <1>2, IngestEffect DEF StatusAfter, Open
  <1>3. CASE Api
    BY <1>1, <1>2, <1>3, ApiWritesAttempts
  <1>4. CASE Gateway
    BY <1>4, GatewayEffect DEF LegStep, Open, AttemptClosed, OPEN_ATTEMPT_STATUSES
  <1>5. CASE Time \/ Reconciler
    BY <1>5, RestEffect DEF AttemptClosed
  <1> QED
    BY <1>3, <1>4, <1>5 DEF SerialNext

LEMMA FreshStepHolds ==
    ASSUME TypeOK, FreshHasNoLeg, SerialNext
    PROVE  FreshHasNoLeg'
  <1> SUFFICES ASSUME NEW b \in Attempts, att'[b].status = "unused"
               PROVE  att'[b].leg = "none"
    BY DEF FreshHasNoLeg
  <1>0. att[b].status = "unused" => att[b].leg = "none"
    BY DEF FreshHasNoLeg
  <1>1. ASSUME NEW r \in Runs, NEW l \in Leads, NEW a \in Attempts, create_attempt(r, l, a)
        PROVE  att'[b].leg = "none"
    <2>1. InsertAttempt(r, l, a)
      BY <1>1 DEF create_attempt
    <2> QED
      BY <1>0, <2>1, InsertEffect
  <1>2. ASSUME NEW a \in Attempts, NEW type \in EventType, ingest_events(a, type)
        PROVE  att'[b].leg = "none"
    BY <1>0, <1>2, IngestEffect DEF StatusAfter, EventType, OPEN_ATTEMPT_STATUSES
  <1>3. CASE Api
    BY <1>0, <1>1, <1>2, <1>3, ApiWritesAttempts
  <1>4. CASE Gateway
    BY <1>0, <1>4, GatewayEffect DEF LegStep, LegMoves, LegUp
  <1>5. CASE Time \/ Reconciler
    BY <1>0, <1>5, RestEffect
  <1> QED
    BY <1>3, <1>4, <1>5 DEF SerialNext

LEMMA MergeStepKnown ==
    ASSUME TypeOK, MergeIsKnown, SerialNext
    PROVE  MergeIsKnown'
  <1> SUFFICES ASSUME NEW b \in Attempts, att'[b].status = "merged"
               PROVE  att'[b].heard \/ att'[b].told = "merged"
    BY DEF MergeIsKnown
  <1>0. att[b].status = "merged" => att[b].heard \/ att[b].told = "merged"
    BY DEF MergeIsKnown
  <1>1. ASSUME NEW r \in Runs, NEW l \in Leads, NEW a \in Attempts, create_attempt(r, l, a)
        PROVE  att'[b].heard \/ att'[b].told = "merged"
    <2>1. InsertAttempt(r, l, a)
      BY <1>1 DEF create_attempt
    <2> QED
      BY <1>0, <2>1, InsertEffect
  <1>2. ASSUME NEW a \in Attempts, NEW type \in EventType, ingest_events(a, type)
        PROVE  att'[b].heard \/ att'[b].told = "merged"
    <2>1. CASE b # a
      BY <1>0, <1>2, <2>1, IngestEffect
    <2>2. CASE b = a
      <3>1. StatusAfter(att[b].status, type) = "merged" /\ att'[b].told = ToldAfter(type)
        BY <1>2, <2>2, IngestEffect
      <3>2. type = "merged"
        BY <3>1 DEF StatusAfter, EventType, OPEN_ATTEMPT_STATUSES
      <3> QED
        BY <3>1, <3>2 DEF ToldAfter
    <2> QED
      BY <2>1, <2>2
  <1>3. CASE Api
    BY <1>0, <1>1, <1>2, <1>3, ApiWritesAttempts
  <1>4. CASE Gateway
    BY <1>0, <1>4, GatewayEffect DEF LegStep
  <1>5. CASE Time \/ Reconciler
    BY <1>0, <1>5, RestEffect
  <1> QED
    BY <1>3, <1>4, <1>5 DEF SerialNext

LEMMA CleanedUpStaysClosed ==
    ASSUME TypeOK, FreshHasNoLeg, CleanedUpIsClosed, SerialNext
    PROVE  CleanedUpIsClosed'
  <1> SUFFICES ASSUME NEW b \in Attempts, att'[b].leg = "ended"
               PROVE  att'[b].status \notin OPEN_ATTEMPT_STATUSES
    BY DEF CleanedUpIsClosed, Open
  <1>0. /\ att[b].leg = "ended" => ~Open(b)
        /\ att[b].status = "unused" => att[b].leg = "none"
    BY DEF CleanedUpIsClosed, FreshHasNoLeg
  <1>1. ASSUME NEW r \in Runs, NEW l \in Leads, NEW a \in Attempts, create_attempt(r, l, a)
        PROVE  att'[b].status \notin OPEN_ATTEMPT_STATUSES
    <2>1. InsertAttempt(r, l, a)
      BY <1>1 DEF create_attempt
    <2> QED
      BY <1>0, <2>1, InsertEffect DEF Open, OPEN_ATTEMPT_STATUSES
  <1>2. ASSUME NEW a \in Attempts, NEW type \in EventType, ingest_events(a, type)
        PROVE  att'[b].status \notin OPEN_ATTEMPT_STATUSES
    BY <1>0, <1>2, IngestEffect DEF StatusAfter, Open
  <1>3. CASE Api
    BY <1>0, <1>1, <1>2, <1>3, ApiWritesAttempts DEF Open
  <1>4. CASE Gateway
    <2>1. LegStep(b) /\ LegMoves(b)
      BY <1>4, GatewayEffect
    <2>2. CASE att[b].leg = "ended"
      BY <1>0, <2>1, <2>2 DEF LegStep, Open, OPEN_ATTEMPT_STATUSES
    <2>3. CASE att[b].leg # "ended"
      <3>1. att'[b].status = CleanupStatus(att[b])
        BY <2>1, <2>3 DEF LegMoves
      <3> QED
        BY <3>1 DEF CleanupStatus, OPEN_ATTEMPT_STATUSES
    <2> QED
      BY <2>2, <2>3
  <1>5. CASE Time \/ Reconciler
    BY <1>0, <1>5, RestEffect DEF Open, OPEN_ATTEMPT_STATUSES
  <1> QED
    BY <1>3, <1>4, <1>5 DEF SerialNext

-----------------------------------------------------------------------------
(* Leads in the hands of phones.                                            *)

(* No phone gets a lead.                                                    *)
KeepsHands == \A l \in Leads : lead'[l].status = "leased" =>
                  lead[l].status = "leased" /\ lead'[l].dev = lead[l].dev

LEMMA QuietKeepsHands ==
    ASSUME QuietStep
    PROVE  KeepsHands
  BY DEF QuietStep, Leased, KeepsHands

(* What phones held and had to give back is in nobody's hands.              *)
LEMMA ReleaseEffect ==
    ASSUME TypeOK, NEW ds, NEW l \in Leads
    PROVE  /\ \/ ReleaseDeviceLeases(ds)[l] = lead[l]
              \/ ReleaseDeviceLeases(ds)[l].status = "pending"
           /\ ReleaseDeviceLeases(ds)[l].status = "leased" =>
                 ReleaseDeviceLeases(ds)[l] = lead[l] /\ lead[l].dev \notin ds
  <1>1. Leave(lead[l], "pending").status = "pending"
    BY LeaveStatus DEF TypeOK
  <1> QED
    BY <1>1 DEF ReleaseDeviceLeases, HeldBy

(* The phone of run r gets lead k and holds no other.                       *)
Gets(r, k) ==
    /\ lead'[k].status = "leased" /\ lead'[k].dev = run[r].dev
    /\ \A l \in Leads \ {k} :
          /\ lead'[l].status = "leased" => /\ lead[l].status = "leased"
                                          /\ lead'[l].dev = lead[l].dev
                                          /\ lead[l].dev # run[r].dev
          /\ lead'[l].status = "calling" => lead[l].status = "calling"

LEMMA LeaseOneEffect ==
    ASSUME TypeOK, NEW r \in Runs, LeaseOne(r)
    PROVE  \E k \in Leads : Gets(r, k)
  <1>1. PICK k \in Front(Freed(r)) :
           lead' = [Freed(r) EXCEPT ![k].status = "leased", ![k].dev = run[r].dev,
                                    ![k].expired = FALSE]
    BY DEF LeaseOne
  <1>2. Freed(r) \in [Leads -> LeadRow]
    BY ReleaseType DEF Freed
  <1>3. k \in Leads
    BY DEF Front, Leasable
  <1>4. /\ lead'[k].status = "leased" /\ lead'[k].dev = run[r].dev
        /\ \A l \in Leads \ {k} : lead'[l] = Freed(r)[l]
    <2> HIDE DEF Freed
    <2> QED
      BY <1>1, <1>2, <1>3 DEF LeadRow
  <1>5. \A l \in Leads : /\ Freed(r)[l] = lead[l] \/ Freed(r)[l].status = "pending"
                         /\ Freed(r)[l].status = "leased" =>
                               Freed(r)[l] = lead[l] /\ lead[l].dev # run[r].dev
    BY ReleaseEffect DEF Freed
  <1> QED
    BY <1>3, <1>4, <1>5 DEF Gets

LEMMA ApiHands ==
    ASSUME TypeOK, Linked, Api
    PROVE  \/ KeepsHands
           \/ \E r \in Runs, k \in Leads : next_lead(r) /\ UNCHANGED run /\ Gets(r, k)
  <1>1. UNCHANGED lead => KeepsHands
    BY UnchangedIsQuiet, QuietKeepsHands
  <1>2. ASSUME NEW d \in Devices, NEW r \in Runs, start_run(d, r) PROVE KeepsHands
    BY <1>1, <1>2 DEF start_run
  <1>3. ASSUME NEW r \in Runs, next_lead(r)
        PROVE  KeepsHands \/ (UNCHANGED run /\ \E k \in Leads : Gets(r, k))
    BY <1>3, LeaseOneEffect, NothingToLeaseIsQuiet, QuietKeepsHands DEF next_lead
  <1>4. ASSUME NEW r \in Runs, NEW to, update_run(r, to) PROVE KeepsHands
    BY <1>4, WriteRunIsQuiet, QuietKeepsHands DEF update_run
  <1>5. ASSUME NEW r \in Runs, NEW l \in Leads, NEW a \in Attempts, create_attempt(r, l, a)
        PROVE  KeepsHands
    BY <1>5, InsertAttemptIsQuiet, QuietKeepsHands DEF create_attempt
  <1>6. ASSUME NEW a \in Attempts, NEW type \in EventType, ingest_events(a, type)
        PROVE  KeepsHands
    <2>1. att[a].lead \in Leads
      BY <1>6 DEF ingest_events, Linked
    <2> QED
      BY <1>6, <2>1, ReadOfType, ApplyEventIsQuiet, QuietKeepsHands DEF ingest_events
  <1>7. ASSUME NEW l \in Leads, NEW disposition, set_rep_disposition(l, disposition)
        PROVE  KeepsHands
    BY <1>7, DispositionIsQuiet, QuietKeepsHands
  <1> QED
    BY <1>2, <1>3, <1>4, <1>5, <1>6, <1>7 DEF Api

LEMMA SerialHands ==
    ASSUME TypeOK, Linked, SerialNext
    PROVE  \/ KeepsHands
           \/ \E r \in Runs, k \in Leads : next_lead(r) /\ UNCHANGED run /\ Gets(r, k)
  BY ApiHands, RestIsQuiet, QuietKeepsHands DEF SerialNext

LEMMA OneLeaseKept ==
    ASSUME TypeOK, Linked, OneLeasePerDevice, SerialNext
    PROVE  OneLeasePerDevice'
  <1>1. CASE KeepsHands
    BY <1>1 DEF KeepsHands, OneLeasePerDevice, HeldBy
  <1>2. ASSUME NEW r \in Runs, NEW k \in Leads, Gets(r, k)
        PROVE  OneLeasePerDevice'
    BY <1>2 DEF Gets, OneLeasePerDevice, HeldBy
  <1> QED
    BY <1>1, <1>2, SerialHands

(* A step that opens no attempt and moves none to another call.             *)
OpensNoCall == \A a \in Attempts : Open(a)' => Open(a) /\ SameCall(a)

LEMMA SerialOpens ==
    ASSUME TypeOK, SerialNext
    PROVE  \/ OpensNoCall
           \/ \E r \in Runs, l \in Leads, a \in Attempts : create_attempt(r, l, a)
  <1>1. UNCHANGED att => OpensNoCall
    BY DEF OpensNoCall, Open, SameCall
  <1>2. ASSUME NEW a \in Attempts, NEW type \in EventType, ingest_events(a, type)
        PROVE  OpensNoCall
    <2> SUFFICES ASSUME NEW b \in Attempts, Open(b)' PROVE Open(b) /\ SameCall(b)
      BY DEF OpensNoCall
    <2>1. CASE b = a
      BY <1>2, <2>1, IngestEffect DEF StatusAfter, Open
    <2>2. CASE b # a
      BY <1>2, <2>2, IngestEffect DEF Open, SameCall
    <2> QED
      BY <2>1, <2>2
  <1>3. CASE Gateway
    BY <1>3, GatewayEffect DEF OpensNoCall, LegStep, Open, OPEN_ATTEMPT_STATUSES
  <1>4. CASE Time \/ Reconciler
    BY <1>4, RestEffect DEF OpensNoCall, Open, OPEN_ATTEMPT_STATUSES
  <1> QED
    BY <1>1, <1>2, <1>3, <1>4, ApiWritesAttempts DEF SerialNext

LEMMA BusyKept ==
    ASSUME TypeOK, Linked, OneLeasePerDevice, BusyDeviceHoldsOnlyItsLead, SerialNext
    PROVE  BusyDeviceHoldsOnlyItsLead'
  <1> SUFFICES ASSUME NEW b \in Attempts, NEW m \in Leads,
                      Open(b)', lead'[m].status = "leased", lead'[m].dev = att'[b].dev
               PROVE  att'[b].lead = m
    BY DEF BusyDeviceHoldsOnlyItsLead, HeldBy
  <1>1. ASSUME NEW r \in Runs, NEW l \in Leads, NEW a \in Attempts, create_attempt(r, l, a)
        PROVE  att'[b].lead = m
    <2>1. InsertAttempt(r, l, a) /\ HeldBy(lead[l], run[r].dev)
      BY <1>1 DEF create_attempt, CreateAllowed
    <2>2. KeepsHands
      BY <2>1, InsertAttemptIsQuiet, QuietKeepsHands
    <2>3. lead[m].status = "leased" /\ lead[m].dev = att'[b].dev
      BY <2>2 DEF KeepsHands
    <2>4. CASE b = a
      <3>1. att'[b].dev = run[r].dev /\ att'[b].lead = l
        BY <2>1, <2>4, InsertEffect
      <3> QED
        BY <2>1, <2>3, <3>1 DEF OneLeasePerDevice, HeldBy
    <2>5. CASE b # a
      <3>1. SameCall(b) /\ Open(b)
        BY <2>1, <2>5, InsertEffect DEF Open, OPEN_ATTEMPT_STATUSES
      <3> QED
        BY <2>3, <3>1 DEF SameCall, BusyDeviceHoldsOnlyItsLead, HeldBy
    <2> QED
      BY <2>4, <2>5
  <1>2. CASE OpensNoCall /\ KeepsHands
    BY <1>2 DEF OpensNoCall, KeepsHands, SameCall, BusyDeviceHoldsOnlyItsLead, HeldBy
  <1>3. ASSUME OpensNoCall, NEW r \in Runs, NEW k \in Leads, next_lead(r), Gets(r, k)
        PROVE  att'[b].lead = m
    <2>1. Open(b) /\ SameCall(b)
      BY <1>3 DEF OpensNoCall
    <2>2. att[b].dev # run[r].dev
      BY <1>3, <2>1 DEF next_lead, NextLeadAllowed, OpenAttempts
    <2>3. m # k
      BY <1>3, <2>1, <2>2 DEF Gets, SameCall
    <2> QED
      BY <1>3, <2>1, <2>3 DEF Gets, SameCall, BusyDeviceHoldsOnlyItsLead, HeldBy
  <1> QED
    BY <1>1, <1>2, <1>3, SerialHands, SerialOpens

-----------------------------------------------------------------------------
(* The runs behind the leases.                                              *)

RunsStayOpen == \A s \in Runs : run[s].status \in RunOpen =>
                    run'[s].status \in RunOpen /\ run'[s].dev = run[s].dev

LEMMA OpenRunStays ==
    ASSUME LeaseHasOpenRun, KeepsHands, RunsStayOpen
    PROVE  LeaseHasOpenRun'
  BY DEF LeaseHasOpenRun, KeepsHands, RunsStayOpen, OpenRuns

(* Runs are closed, and their phones give back what they held.              *)
LEMMA ClosedRunsGiveBack ==
    ASSUME TypeOK, LeaseHasOpenRun, NEW rs,
           lead' = ReleaseDeviceLeases({run[r].dev : r \in rs}),
           \A s \in Runs \ rs : run'[s] = run[s]
    PROVE  LeaseHasOpenRun'
  <1> SUFFICES ASSUME NEW l \in Leads, lead'[l].status = "leased"
               PROVE  \E s \in Runs : run'[s].status \in RunOpen /\ run'[s].dev = lead'[l].dev
    BY DEF LeaseHasOpenRun, OpenRuns
  <1>1. lead'[l] = lead[l] /\ \A r \in rs : lead[l].dev # run[r].dev
    BY ReleaseEffect
  <1>2. PICK s \in Runs : run[s].status \in RunOpen /\ run[s].dev = lead[l].dev
    BY <1>1 DEF LeaseHasOpenRun, OpenRuns
  <1>3. s \notin rs
    BY <1>1, <1>2
  <1> QED
    BY <1>1, <1>2, <1>3

LEMMA RunsKept ==
    ASSUME TypeOK, Linked, LeaseHasOpenRun, SerialNext
    PROVE  LeaseHasOpenRun'
  <1>1. KeepsHands /\ UNCHANGED run => LeaseHasOpenRun'
    BY OpenRunStays DEF RunsStayOpen
  <1>2. ASSUME NEW d \in Devices, NEW r \in Runs, start_run(d, r) PROVE LeaseHasOpenRun'
    <2>1. KeepsHands
      BY <1>2, UnchangedIsQuiet, QuietKeepsHands DEF start_run
    <2>2. CASE OpenRuns(d) = {}
      <3>1. run[r].status = "unused" /\ \A s \in Runs \ {r} : run'[s] = run[s]
        BY <1>2, <2>2 DEF start_run, TypeOK
      <3>2. RunsStayOpen
        BY <3>1 DEF RunsStayOpen, RunOpen
      <3> QED
        BY <2>1, <3>2, OpenRunStays
    <2>3. CASE OpenRuns(d) # {}
      <3>1. run' = [run EXCEPT ![r].status = "running"]
        BY <1>2, <2>3 DEF start_run
      <3>2. RunsStayOpen
        BY <3>1 DEF RunsStayOpen, RunOpen, TypeOK, RunRow
      <3> QED
        BY <2>1, <3>2, OpenRunStays
    <2> QED
      BY <2>2, <2>3
  <1>3. ASSUME NEW r \in Runs, next_lead(r) PROVE LeaseHasOpenRun'
    <2>1. CASE LeaseOne(r)
      <3>1. PICK k \in Leads : Gets(r, k)
        BY <2>1, LeaseOneEffect
      <3>2. UNCHANGED run \/ RemainingCalls(lead') = {}
        BY <1>3 DEF next_lead
      <3>3. lead'[k].status = "leased"
        BY <3>1 DEF Gets
      <3>4. UNCHANGED run
        BY <3>2, <3>3 DEF RemainingCalls, Remaining
      <3>5. run[r].status \in RunOpen
        BY <1>3 DEF next_lead, NextLeadAllowed, RunOpen
      <3> QED
        BY <3>1, <3>4, <3>5 DEF Gets, LeaseHasOpenRun, OpenRuns
    <2>2. CASE NothingToLease(r)
      <3>1. KeepsHands
        BY <2>2, NothingToLeaseIsQuiet, QuietKeepsHands
      <3>2. CASE UNCHANGED run
        BY <1>1, <3>1, <3>2
      <3>3. CASE RemainingCalls(lead') = {}
        BY <3>3 DEF RemainingCalls, Remaining, LeaseHasOpenRun
      <3> QED
        BY <1>3, <3>2, <3>3 DEF next_lead
    <2> QED
      BY <1>3, <2>1, <2>2 DEF next_lead
  <1>4. ASSUME NEW r \in Runs, NEW to, update_run(r, to) PROVE LeaseHasOpenRun'
    <2>1. run[r].status \in RunOpen /\ to \in {"running", "paused", "stopped"}
          /\ WriteRun(r, run[r].status, to)
      BY <1>4 DEF update_run
    <2>2. CASE to \in RunOpen
      <3>1. RunsStayOpen
        BY <2>1, <2>2 DEF RunsStayOpen, WriteRun, TypeOK, RunRow
      <3>2. KeepsHands
        BY <2>1, WriteRunIsQuiet, QuietKeepsHands
      <3> QED
        BY <3>1, <3>2, OpenRunStays
    <2>3. CASE to \notin RunOpen
      <3>1. to = "stopped"
        BY <2>1, <2>3 DEF RunOpen
      <3>2. lead' = ReleaseDeviceLeases({run[s].dev : s \in {r}})
        BY <2>1, <3>1 DEF WriteRun
      <3>3. \A s \in Runs \ {r} : run'[s] = run[s]
        BY <2>1 DEF WriteRun, TypeOK
      <3> QED
        BY <3>2, <3>3, ClosedRunsGiveBack
    <2> QED
      BY <2>2, <2>3
  <1>5. ASSUME NEW r \in Runs, NEW l \in Leads, NEW a \in Attempts, create_attempt(r, l, a)
        PROVE  LeaseHasOpenRun'
    BY <1>1, <1>5, InsertAttemptIsQuiet, QuietKeepsHands DEF create_attempt
  <1>6. ASSUME NEW a \in Attempts, NEW type \in EventType, ingest_events(a, type)
        PROVE  LeaseHasOpenRun'
    <2>1. att[a].lead \in Leads
      BY <1>6 DEF ingest_events, Linked
    <2> QED
      BY <1>1, <1>6, <2>1, ReadOfType, ApplyEventIsQuiet, QuietKeepsHands DEF ingest_events
  <1>7. ASSUME NEW l \in Leads, NEW disposition, set_rep_disposition(l, disposition)
        PROVE  LeaseHasOpenRun'
    BY <1>1, <1>7, DispositionIsQuiet, QuietKeepsHands DEF set_rep_disposition
  <1>8. CASE Api
    BY <1>2, <1>3, <1>4, <1>5, <1>6, <1>7, <1>8 DEF Api
  <1>9. CASE Gateway \/ Time
    <2>1. UNCHANGED run
      BY <1>9 DEF Gateway, LegArrives, MarkReady, on_merged, RelaySignal, PersistDtmfMerge,
                  on_cleanup, GatewayCrash, Time, AttemptGetsLate, LeaseExpires,
                  CallbackFallsDue
    <2> QED
      BY <1>1, <1>9, <2>1, RestIsQuiet, QuietKeepsHands
  <1>10. ASSUME NEW stale, close_stale_runs(stale) PROVE LeaseHasOpenRun'
    <2>1. /\ lead' = ReleaseDeviceLeases({run[r].dev : r \in stale})
          /\ \A s \in Runs \ stale : run'[s] = run[s]
      BY <1>10 DEF close_stale_runs
    <2> QED
      BY <2>1, ClosedRunsGiveBack
  <1>11. ASSUME NEW stuck, expire_stale_attempts(stuck), Reconciler PROVE LeaseHasOpenRun'
    BY <1>1, <1>11, RestIsQuiet, QuietKeepsHands DEF expire_stale_attempts
  <1>12. CASE close_finished_campaigns
    BY <1>1, <1>12, UnchangedIsQuiet, QuietKeepsHands DEF close_finished_campaigns
  <1>13. CASE Reconciler
    BY <1>10, <1>11, <1>12, <1>13 DEF Reconciler
  <1> QED
    BY <1>8, <1>9, <1>13 DEF SerialNext

-----------------------------------------------------------------------------
(* The leads that are talked to.                                            *)

(* What an event makes of the lead of its attempt.                          *)
LEMMA LeadAfterEffect ==
    ASSUME TypeOK, NEW a \in Attempts, att[a].lead \in Leads, NEW read \in Read,
           NEW type \in EventType, NEW l \in Leads,
           LeadAfter(a, read, type)[l].status = "calling"
    PROVE  /\ lead[l].status = "calling" \/ (l = att[a].lead /\ type = "merged")
           /\ ~(l = att[a].lead /\ type = "ended" /\ read.status = "merged")
  <1> DEFINE c == lead[att[a].lead]
  <1>0. c \in LeadRow
    BY DEF TypeOK
  <1> HIDE DEF c
  <1>1. \A new : FinishCampaignCall(a, new)[l] = lead[l]
                 \/ (l = att[a].lead /\ FinishCampaignCall(a, new)[l] = new)
    BY DEF FinishCampaignCall, TypeOK
  <1>2. CASE type = "merged"
    <2>1. \E new : LeadAfter(a, read, type) = FinishCampaignCall(a, new)
      BY <1>2 DEF LeadAfter
    <2> QED
      BY <1>1, <1>2, <2>1
  <1>3. ASSUME NEW new, new.status # "calling",
               LeadAfter(a, read, type) = FinishCampaignCall(a, new)
        PROVE  lead[l].status = "calling"
    BY <1>1, <1>3
  <1>4. CASE type = "lead_failed"
    <2>1. LeadAfter(a, read, type) = FinishCampaignCall(a, [Leave(c, "done") EXCEPT !.dnc = FALSE])
      BY <1>4 DEF LeadAfter, c
    <2>2. [Leave(c, "done") EXCEPT !.dnc = FALSE].status = "done"
      BY <1>0, LeaveStatus
    <2> QED
      BY <1>3, <1>4, <2>1, <2>2
  <1>5. CASE type = "skipped"
    <2>1. LeadAfter(a, read, type) = FinishCampaignCall(a, Leave(c, "done"))
      BY <1>5 DEF LeadAfter, c
    <2>2. Leave(c, "done").status = "done"
      BY <1>0, LeaveStatus
    <2> QED
      BY <1>3, <1>5, <2>1, <2>2
  <1>6. CASE type = "setup_failed" \/ (type = "ended" /\ read.status # "merged")
    <2>1. LeadAfter(a, read, type) = FinishCampaignCall(a, Leave(c, "pending"))
      BY <1>6 DEF LeadAfter, ReturnToPending, c
    <2>2. Leave(c, "pending").status = "pending"
      BY <1>0, LeaveStatus
    <2> QED
      BY <1>3, <1>6, <2>1, <2>2
  <1>7. CASE type = "ended" /\ read.status = "merged"
    <2>1. LeadAfter(a, read, type)
             = [lead EXCEPT ![att[a].lead] = finish_merged_campaign_call(@, read.session)]
      BY <1>7 DEF LeadAfter
    <2>2. finish_merged_campaign_call(c, read.session).status # "calling"
      BY <1>0 DEF finish_merged_campaign_call, LeadRow
    <2>3. LeadAfter(a, read, type)[l]
             = IF l = att[a].lead THEN finish_merged_campaign_call(c, read.session) ELSE lead[l]
      BY <2>1 DEF TypeOK, c
    <2> QED
      BY <1>7, <2>2, <2>3
  <1> QED
    BY <1>2, <1>4, <1>5, <1>6, <1>7 DEF EventType

(* No lead begins to be talked to.                                          *)
NoNewTalk == \A l \in Leads : lead'[l].status = "calling" => lead[l].status = "calling"

(* The attempts merged with a lead that is talked to are still merged.      *)
TalkGoesOn ==
    \A a \in Attempts, l \in Leads :
        /\ att[a].lead = l /\ att[a].status = "merged"
        /\ lead[l].status = "calling" /\ lead'[l].status = "calling"
        => att'[a].lead = l /\ att'[a].status = "merged"

LEMMA TalkKept ==
    ASSUME CallingHasMergedAttempt, NoNewTalk, TalkGoesOn
    PROVE  CallingHasMergedAttempt'
  BY DEF CallingHasMergedAttempt, NoNewTalk, TalkGoesOn

LEMMA ReleaseBeginsNoTalk ==
    ASSUME TypeOK, NEW ds, lead' = ReleaseDeviceLeases(ds)
    PROVE  NoNewTalk
  BY ReleaseEffect DEF NoNewTalk

(* A phone that has a lead in its hands is on no call with another: what it *)
(* supersedes was not merged with a lead that is talked to.                 *)
LEMMA CreateKeepsTalk ==
    ASSUME TypeOK, BusyDeviceHoldsOnlyItsLead, CallingHasMergedAttempt,
           NEW r \in Runs, NEW l \in Leads, NEW a \in Attempts, create_attempt(r, l, a)
    PROVE  CallingHasMergedAttempt'
  <1>1. InsertAttempt(r, l, a) /\ HeldBy(lead[l], run[r].dev)
    BY DEF create_attempt, CreateAllowed
  <1>2. NoNewTalk
    BY <1>1 DEF InsertAttempt, NoNewTalk, TypeOK, LeadRow
  <1>3. TalkGoesOn
    <2> SUFFICES ASSUME NEW b \in Attempts, NEW m \in Leads,
                        att[b].lead = m, att[b].status = "merged", lead[m].status = "calling"
                 PROVE  att'[b].lead = m /\ att'[b].status = "merged"
      BY DEF TalkGoesOn
    <2>1. b # a
      BY <1>1 DEF InsertAttempt
    <2>2. ASSUME b \in OpenAttempts(run[r].dev) PROVE FALSE
      <3>1. att[b].lead = l
        BY <1>1, <2>2 DEF OpenAttempts, BusyDeviceHoldsOnlyItsLead
      <3> QED
        BY <1>1, <3>1 DEF HeldBy
    <2> QED
      BY <1>1, <2>1, <2>2, InsertEffect DEF SameCall
  <1> QED
    BY <1>2, <1>3, TalkKept

LEMMA EventKeepsTalk ==
    ASSUME TypeOK, Linked, MergeIsKnown, CallingHasMergedAttempt,
           NEW a \in Attempts, NEW type \in EventType, ingest_events(a, type)
    PROVE  CallingHasMergedAttempt'
  <1> SUFFICES ASSUME NEW l \in Leads, lead'[l].status = "calling"
               PROVE  \E b \in Attempts : att'[b].lead = l /\ att'[b].status = "merged"
    BY DEF CallingHasMergedAttempt
  <1>1. /\ Follows(att[a], type) /\ ApplyEvent(a, type, ReadOf(a))
        /\ att'[a].lead = att[a].lead
        /\ att'[a].status = StatusAfter(att[a].status, type)
        /\ \A b \in Attempts \ {a} : att'[b] = att[b]
    BY IngestEffect DEF SameCall
  <1>2. att[a].lead \in Leads /\ ReadOf(a) \in Read /\ ReadOf(a).status = att[a].status
    <2>1. ReadOf(a) \in Read
      BY ReadOfType
    <2>2. ReadOf(a).status = att[a].status
      BY DEF ReadOf
    <2> QED
      BY <2>1, <2>2 DEF ingest_events, Linked
  <1>3. att[a].status = "merged" =>
           \/ type = "merged" /\ att'[a].status = "merged"
           \/ type = "ended"
    BY <1>1 DEF MergeIsKnown, Follows, StatusAfter, OPEN_ATTEMPT_STATUSES
  <1>4. CASE att'[a].status = att[a].status
    <2>1. lead'[l] = lead[l]
      BY <1>1, <1>2, <1>4 DEF ApplyEvent
    <2>2. PICK b \in Attempts : att[b].lead = l /\ att[b].status = "merged"
      BY <2>1 DEF CallingHasMergedAttempt
    <2>3. att'[b].lead = att[b].lead /\ att'[b].status = att[b].status
      BY <1>1, <1>4
    <2> QED
      BY <2>2, <2>3
  <1>5. CASE att'[a].status # att[a].status
    <2>1. lead' = LeadAfter(a, ReadOf(a), type)
      BY <1>1, <1>2, <1>5 DEF ApplyEvent
    <2>2. /\ lead[l].status = "calling" \/ (l = att[a].lead /\ type = "merged")
          /\ ~(l = att[a].lead /\ type = "ended" /\ att[a].status = "merged")
      BY <1>2, <2>1, LeadAfterEffect
    <2>3. CASE l = att[a].lead /\ type = "merged"
      <3>1. att'[a].status = "merged"
        BY <1>1, <1>5, <2>3 DEF StatusAfter
      <3> QED
        BY <1>1, <2>3, <3>1
    <2>4. CASE ~(l = att[a].lead /\ type = "merged")
      <3>1. PICK b \in Attempts : att[b].lead = l /\ att[b].status = "merged"
        BY <2>2, <2>4 DEF CallingHasMergedAttempt
      <3>2. b # a
        BY <1>3, <1>5, <2>2, <2>4, <3>1
      <3> QED
        BY <1>1, <3>1, <3>2
    <2> QED
      BY <2>3, <2>4
  <1> QED
    BY <1>4, <1>5

(* Whatever hangs up a merged call closes its lead.                         *)
LEMMA CleanupKeepsTalk ==
    ASSUME TypeOK, CallingHasMergedAttempt, NEW a \in Attempts, NEW how, on_cleanup(a, how)
    PROVE  CallingHasMergedAttempt'
  <1> DEFINE cleaned == update_campaign_call_post_cleanup(a, how)
  <1>1. cleaned \in [Leads -> LeadRow]
    BY PostCleanupType
  <1>2. \A l \in Leads : cleaned[l] = lead[l] \/ cleaned[l].status = "done"
    <2> TAKE l \in Leads
    <2>1. /\ [lead[l] EXCEPT !.status = "done"].status = "done"
          /\ [lead[l] EXCEPT !.status = "done", !.dnc = FALSE].status = "done"
      BY DEF TypeOK, LeadRow
    <2> QED
      BY <2>1 DEF update_campaign_call_post_cleanup
  <1>3. ASSUME NEW c \in LeadRow, CleanupLead(a, c).status = "calling"
        PROVE  c.status = "calling" /\ att[a].status # "merged"
    <2>1. Leave(c, "pending").status = "pending"
      BY LeaveStatus
    <2>2. finish_merged_campaign_call(c, a).status # "calling"
      BY DEF finish_merged_campaign_call, LeadRow
    <2> QED
      BY <1>3, <2>1, <2>2 DEF CleanupLead, CleanupStatus, Open, OPEN_ATTEMPT_STATUSES
  <1>4. lead' = [cleaned EXCEPT ![att[a].lead] = CleanupLead(a, @)]
    BY DEF on_cleanup
  <1>5. \A l \in Leads : lead'[l] = IF l = att[a].lead THEN CleanupLead(a, cleaned[l])
                                                      ELSE cleaned[l]
    <2> HIDE DEF cleaned
    <2> QED
      BY <1>1, <1>4
  <1>6. \A b \in Attempts : /\ att'[b].lead = att[b].lead
                            /\ b # a => att'[b].status = att[b].status
    BY DEF on_cleanup, TypeOK, AttemptRow
  <1> HIDE DEF cleaned
  <1>7. \A l \in Leads : lead'[l].status = "calling" =>
           lead[l].status = "calling" /\ ~(l = att[a].lead /\ att[a].status = "merged")
    <2> SUFFICES ASSUME NEW l \in Leads, lead'[l].status = "calling"
                 PROVE  lead[l].status = "calling"
                        /\ ~(l = att[a].lead /\ att[a].status = "merged")
      OBVIOUS
    <2>1. cleaned[l] \in LeadRow
      BY <1>1
    <2>2. cleaned[l].status = "calling" /\ ~(l = att[a].lead /\ att[a].status = "merged")
      BY <1>3, <1>5, <2>1
    <2> QED
      BY <1>2, <2>2
  <1> QED
    BY <1>6, <1>7 DEF CallingHasMergedAttempt

LEMMA GatewayKeepsTalk ==
    ASSUME TypeOK, Linked, CallingHasMergedAttempt, Gateway
    PROVE  CallingHasMergedAttempt'
  <1>1. ASSUME UNCHANGED lead,
               \A b \in Attempts : LegStep(b) /\ (Open(b) => Open(b)')
        PROVE  CallingHasMergedAttempt'
    <2>1. NoNewTalk
      BY <1>1 DEF NoNewTalk
    <2>2. \A b \in Attempts : SameCall(b)
      BY GatewayEffect
    <2>3. TalkGoesOn
      BY <1>1, <2>2 DEF TalkGoesOn, SameCall, LegStep, Open, OPEN_ATTEMPT_STATUSES
    <2> QED
      BY <2>1, <2>3, TalkKept
  <1>2. \A b \in Attempts : SameCall(b) /\ LegStep(b)
    BY GatewayEffect
  <1>3. ASSUME NEW a \in Attempts, LegArrives(a) PROVE CallingHasMergedAttempt'
    BY <1>1, <1>2, <1>3 DEF LegArrives, Open, OPEN_ATTEMPT_STATUSES, TypeOK, AttemptRow
  <1>4. ASSUME NEW a \in Attempts, MarkReady(a) PROVE CallingHasMergedAttempt'
    BY <1>1, <1>2, <1>4 DEF MarkReady, Open, OPEN_ATTEMPT_STATUSES, TypeOK, AttemptRow
  <1>5. ASSUME NEW a \in Attempts, on_merged(a) \/ RelaySignal(a) \/ GatewayCrash(a)
        PROVE  CallingHasMergedAttempt'
    BY <1>1, <1>2, <1>5 DEF on_merged, RelaySignal, GatewayCrash, Open, TypeOK, AttemptRow
  <1>6. ASSUME NEW a \in Attempts, PersistDtmfMerge(a) PROVE CallingHasMergedAttempt'
    <2>1. CASE att[a].status = "ai_ready"
      <3>1. att[a].lead \in Leads
        BY <2>1 DEF Linked
      <3> DEFINE talked == [Leave(lead[att[a].lead], "calling") EXCEPT !.session = a]
      <3>2. lead' = FinishCampaignCall(a, talked)
        BY <1>6, <2>1 DEF PersistDtmfMerge
      <3>3. att'[a].status = "merged"
        BY <1>6, <2>1 DEF PersistDtmfMerge, TypeOK, AttemptRow
      <3>4. \A b \in Attempts \ {a} : att'[b] = att[b]
        BY <1>6, <2>1 DEF PersistDtmfMerge, TypeOK
      <3> HIDE DEF talked
      <3>5. \A l \in Leads \ {att[a].lead} : lead'[l] = lead[l]
        BY <3>2 DEF FinishCampaignCall, TypeOK
      <3>6. att'[a].lead = att[a].lead
        BY <1>2 DEF SameCall
      <3> QED
        BY <2>1, <3>3, <3>4, <3>5, <3>6 DEF CallingHasMergedAttempt
    <2>2. CASE att[a].status # "ai_ready"
      BY <1>1, <1>2, <1>6, <2>2 DEF PersistDtmfMerge, Open, TypeOK, AttemptRow
    <2> QED
      BY <2>1, <2>2
  <1> QED
    BY <1>3, <1>4, <1>5, <1>6, CleanupKeepsTalk DEF Gateway

LEMMA ApiKeepsTalk ==
    ASSUME TypeOK, Linked, BusyDeviceHoldsOnlyItsLead, MergeIsKnown, CallingHasMergedAttempt, Api
    PROVE  CallingHasMergedAttempt'
  <1>1. NoNewTalk /\ UNCHANGED att => CallingHasMergedAttempt'
    BY TalkKept DEF TalkGoesOn
  <1>2. ASSUME NEW d \in Devices, NEW r \in Runs, start_run(d, r)
        PROVE  CallingHasMergedAttempt'
    BY <1>1, <1>2 DEF start_run, NoNewTalk
  <1>3. ASSUME NEW r \in Runs, next_lead(r) PROVE CallingHasMergedAttempt'
    <2>1. CASE LeaseOne(r)
      <3>1. PICK k \in Leads : Gets(r, k)
        BY <2>1, LeaseOneEffect
      <3>2. NoNewTalk
        BY <3>1 DEF Gets, NoNewTalk
      <3> QED
        BY <1>1, <1>3, <3>2 DEF next_lead
    <2>2. CASE NothingToLease(r)
      BY <1>1, <1>3, <2>2, ReleaseBeginsNoTalk DEF next_lead, NothingToLease, Freed
    <2> QED
      BY <1>3, <2>1, <2>2 DEF next_lead
  <1>4. ASSUME NEW r \in Runs, NEW to, update_run(r, to) PROVE CallingHasMergedAttempt'
    <2>1. UNCHANGED lead => NoNewTalk
      BY DEF NoNewTalk
    <2>2. NoNewTalk
      BY <1>4, <2>1, ReleaseBeginsNoTalk DEF update_run, WriteRun
    <2> QED
      BY <1>1, <1>4, <2>2 DEF update_run
  <1>5. ASSUME NEW l \in Leads, NEW disposition, set_rep_disposition(l, disposition)
        PROVE  CallingHasMergedAttempt'
    <2>1. \A m \in Leads \ {l} : lead'[m] = lead[m]
      BY <1>5 DEF set_rep_disposition, TypeOK
    <2>2. lead'[l].status = lead[l].status \/ lead'[l].status = "pending"
      BY <1>5 DEF set_rep_disposition, Leave, TypeOK, LeadRow
    <2>3. NoNewTalk
      BY <2>1, <2>2 DEF NoNewTalk
    <2> QED
      BY <1>1, <1>5, <2>3 DEF set_rep_disposition
  <1> QED
    BY <1>2, <1>3, <1>4, <1>5, CreateKeepsTalk, EventKeepsTalk DEF Api

LEMMA RestKeepsTalk ==
    ASSUME TypeOK, CallingHasMergedAttempt, Time \/ Reconciler
    PROVE  CallingHasMergedAttempt'
  <1> SUFFICES NoNewTalk
    <2>1. TalkGoesOn
      BY RestEffect DEF TalkGoesOn, SameCall
    <2> QED
      BY <2>1, TalkKept
  <1>1. UNCHANGED lead => NoNewTalk
    BY DEF NoNewTalk
  <1>2. ASSUME NEW l \in Leads, LeaseExpires(l) \/ CallbackFallsDue(l) PROVE NoNewTalk
    BY <1>2 DEF LeaseExpires, CallbackFallsDue, NoNewTalk, TypeOK, LeadRow
  <1>3. ASSUME NEW stuck, expire_stale_attempts(stuck) PROVE NoNewTalk
    <2> SUFFICES ASSUME NEW l \in Leads, lead'[l].status = "calling"
                 PROVE  lead[l].status = "calling"
      BY DEF NoNewTalk
    <2>1. /\ Leave(lead[l], "pending").status = "pending"
          /\ [lead[l] EXCEPT !.status = "done"].status = "done"
      BY LeaveStatus DEF TypeOK, LeadRow
    <2> QED
      BY <1>3, <2>1 DEF expire_stale_attempts
  <1>4. ASSUME NEW stale, close_stale_runs(stale) PROVE NoNewTalk
    BY <1>4, ReleaseBeginsNoTalk DEF close_stale_runs
  <1> QED
    BY <1>1, <1>2, <1>3, <1>4 DEF Time, AttemptGetsLate, Reconciler, close_finished_campaigns

-----------------------------------------------------------------------------
(* The campaign.                                                            *)

LEMMA CompletesDrained ==
    ASSUME TypeOK, TypeOK', SerialNext, campaign' = "completed", campaign # "completed"
    PROVE  \A l \in Leads : lead'[l].status = "done"
  <1>1. RemainingCalls(lead') = {} => \A l \in Leads : lead'[l].status = "done"
    BY DEF RemainingCalls, Remaining, LeadStatus, TypeOK, LeadRow
  <1>2. ASSUME NEW d \in Devices, NEW r \in Runs, start_run(d, r) PROVE FALSE
    BY <1>2 DEF start_run
  <1>3. ASSUME NEW r \in Runs, next_lead(r) PROVE RemainingCalls(lead') = {}
    BY <1>3 DEF next_lead
  <1>4. Api => RemainingCalls(lead') = {}
    BY <1>2, <1>3 DEF Api, update_run, create_attempt, ingest_events, set_rep_disposition
  <1>5. ~Gateway
    BY DEF Gateway, LegArrives, MarkReady, on_merged, RelaySignal, PersistDtmfMerge,
           on_cleanup, GatewayCrash
  <1>6. Time \/ Reconciler => RemainingCalls(lead') = {}
    BY DEF Time, AttemptGetsLate, LeaseExpires, CallbackFallsDue, Reconciler,
           expire_stale_attempts, close_stale_runs, close_finished_campaigns
  <1> QED
    BY <1>1, <1>4, <1>5, <1>6 DEF SerialNext

-----------------------------------------------------------------------------
LEMMA InitSerial ==
    ASSUME Init, TypeOK, Linked
    PROVE  SerialInv
  <1>1. \A l \in Leads : lead[l].status = "pending"
    BY DEF Init
  <1>2. \A a \in Attempts : att[a].status = "unused" /\ att[a].leg = "none"
    BY DEF Init
  <1>3. req = {}
    BY DEF Init
  <1>4. Hands
    BY <1>1 DEF Hands, OneLeasePerDevice, BusyDeviceHoldsOnlyItsLead, LeaseHasOpenRun, HeldBy
  <1>5. Calls
    BY <1>1, <1>2 DEF Calls, FreshHasNoLeg, MergeIsKnown, CallingHasMergedAttempt,
                      CleanedUpIsClosed
  <1> QED
    BY <1>3, <1>4, <1>5 DEF SerialInv

LEMMA StepSerial ==
    ASSUME MaxInFlight = 0, SerialInv, TypeOK', Linked', [Next]_vars
    PROVE  SerialInv'
  <1>1. req' = {} /\ (SerialNext \/ UNCHANGED vars)
    BY NothingOverlaps DEF SerialInv
  <1>2. CASE SerialNext
    <2>1. Hands'
      BY <1>2, OneLeaseKept, BusyKept, RunsKept DEF SerialInv, Hands
    <2>2. CallingHasMergedAttempt'
      BY <1>2, ApiKeepsTalk, GatewayKeepsTalk, RestKeepsTalk
         DEF SerialInv, SerialNext, Hands, Calls
    <2>3. FreshHasNoLeg' /\ MergeIsKnown' /\ CleanedUpIsClosed'
      BY <1>2, FreshStepHolds, MergeStepKnown, CleanedUpStaysClosed DEF SerialInv, Calls
    <2> QED
      BY <1>1, <2>1, <2>2, <2>3 DEF SerialInv, Calls
  <1>3. CASE UNCHANGED vars
    <2>1. UNCHANGED <<run, lead, att>>
      BY <1>3 DEF vars
    <2>2. Hands'
      BY <2>1 DEF SerialInv, Hands, OneLeasePerDevice, BusyDeviceHoldsOnlyItsLead,
                  LeaseHasOpenRun, OpenRuns, HeldBy, Open
    <2>3. Calls'
      BY <2>1 DEF SerialInv, Calls, FreshHasNoLeg, MergeIsKnown, CallingHasMergedAttempt,
                  CleanedUpIsClosed, Open
    <2> QED
      BY <1>1, <2>2, <2>3 DEF SerialInv
  <1> QED
    BY <1>1, <1>2, <1>3

LEMMA SerialHolds ==
    ASSUME MaxInFlight = 0
    PROVE  Spec => []SerialInv
  <1>1. Init /\ TypeOK /\ Linked => SerialInv
    BY InitSerial
  <1>2. SerialInv /\ TypeOK' /\ Linked' /\ [Next]_vars => SerialInv'
    BY StepSerial
  <1> QED
    BY <1>1, <1>2, TypeCorrect, AlwaysLinked, PTL DEF Spec

(* Requests that do not overlap leave a phone holding at most one lead, for *)
(* next_lead gives back what the phone held before it leases.               *)
THEOREM OneLease ==
    ASSUME MaxInFlight = 0
    PROVE  Spec => []OneLeasePerDevice
  <1>1. SerialInv => OneLeasePerDevice
    BY DEF SerialInv, Hands
  <1> QED
    BY <1>1, SerialHolds, PTL

(* A phone that is on a call holds no lead but the one it is calling:       *)
(* next_lead refuses it a second, and create_attempt asks for the lease.    *)
THEOREM BusyHoldsItsLead ==
    ASSUME MaxInFlight = 0
    PROVE  Spec => []BusyDeviceHoldsOnlyItsLead
  <1>1. SerialInv => BusyDeviceHoldsOnlyItsLead
    BY DEF SerialInv, Hands
  <1> QED
    BY <1>1, SerialHolds, PTL

(* A lead is held only by a phone whose run is open: update_run, next_lead  *)
(* and close_stale_runs give the lease back with the run they close.        *)
THEOREM LeaseOfOpenRun ==
    ASSUME MaxInFlight = 0
    PROVE  Spec => []LeaseHasOpenRun
  <1>1. SerialInv => LeaseHasOpenRun
    BY DEF SerialInv, Hands
  <1> QED
    BY <1>1, SerialHolds, PTL

(* A lead that is being talked to has a merged attempt, whose end or        *)
(* cleanup will close it (finish_merged_campaign_call).                     *)
THEOREM CallingIsMerged ==
    ASSUME MaxInFlight = 0
    PROVE  Spec => []CallingHasMergedAttempt
  <1>1. SerialInv => CallingHasMergedAttempt
    BY DEF SerialInv, Calls
  <1> QED
    BY <1>1, SerialHolds, PTL

(* An attempt whose AI leg was cleaned up (on_cleanup) is closed, in        *)
(* whatever order the events, the merge signals and the cleanup came.       *)
THEOREM CleanedUpClosed ==
    ASSUME MaxInFlight = 0
    PROVE  Spec => []CleanedUpIsClosed
  <1>1. SerialInv => CleanedUpIsClosed
    BY DEF SerialInv, Calls
  <1> QED
    BY <1>1, SerialHolds, PTL

(* A closed attempt stays as it was closed: late events (_apply_event),     *)
(* merge signals and cleanups change nothing.                               *)
THEOREM ClosedIsFinal ==
    ASSUME MaxInFlight = 0
    PROVE  Spec => ClosedStaysClosed
  <1>1. SerialInv /\ [Next]_vars =>
           [\A a \in Attempts :
               att[a].status \in AttemptClosed => att'[a].status = att[a].status]_vars
    <2> SUFFICES ASSUME SerialInv, [Next]_vars,
                        NEW a \in Attempts, att[a].status \in AttemptClosed
                 PROVE  att'[a].status = att[a].status \/ UNCHANGED vars
      OBVIOUS
    <2> QED
      BY NothingOverlaps, ClosedStaysInStep DEF SerialInv
  <1> QED
    BY <1>1, SerialHolds, PTL DEF Spec, ClosedStaysClosed

(* The campaign completes (next_lead, close_finished_campaigns) only in a   *)
(* moment when no lead is pending, leased or being talked to.               *)
THEOREM CompletesWhenDrained ==
    ASSUME MaxInFlight = 0
    PROVE  Spec => CompletesOnlyWhenDrained
  <1>1. SerialInv /\ TypeOK' /\ [Next]_vars =>
           [campaign' = "completed" /\ campaign # "completed" =>
               \A l \in Leads : lead'[l].status = "done"]_vars
    <2> SUFFICES ASSUME SerialInv, TypeOK', [Next]_vars, ~UNCHANGED vars,
                        campaign' = "completed", campaign # "completed"
                 PROVE  \A l \in Leads : lead'[l].status = "done"
      OBVIOUS
    <2> QED
      BY NothingOverlaps, CompletesDrained DEF SerialInv
  <1> QED
    BY <1>1, SerialHolds, TypeCorrect, PTL DEF Spec, CompletesOnlyWhenDrained
=============================================================================
