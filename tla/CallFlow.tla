------------------------------ MODULE CallFlow ------------------------------
(****************************************************************************)
(* The app's run loop and the life of one call, CallOrchestrator.kt: dial   *)
(* the AI agent, wait until it is briefed, dial the lead, merge the two     *)
(* legs into a conference, and follow the conversation until somebody       *)
(* leaves.  Around it move the phone network (legs that answer, drop and    *)
(* merge, in the two shapes that telecom stacks give a conference), the     *)
(* pushes of the server, which may be late, repeated or missing, and the    *)
(* rep with the buttons of the run screen.                                  *)
(*                                                                          *)
(* srv is what the server's _apply_event makes of the events recorded so    *)
(* far: EventOutbox delivers them in this order.                            *)
(*                                                                          *)
(* Bounds: MaxLeads leads in the run, at most MaxQueued commands and as     *)
(* many pushes waiting.  Holding the AI leg, its DTMF token, the transcript *)
(* and the wrap-up sheet change no state that matters here.                 *)
(****************************************************************************)
EXTENDS Naturals, Sequences

CONSTANTS MaxLeads, MaxQueued

ASSUME CallFlowAssumption == MaxLeads \in Nat /\ MaxQueued \in Nat

VARIABLES
    \* the run loop
    pc,            \* where it is
    run,           \* RunStatus
    called,        \* leads leased so far
    stopReq, pauseReq, skipReq,      \* set by the buttons, read by the loop
    cmds,          \* the channel of UserCommands
    pushes,        \* the channel of the attempt's pushes
    outcome,       \* LeadOutcome of the latest call
    \* converse
    aiPresent,
    handover,      \* handoverDeadline is set
    legsHidden,    \* how the app read the shape of the conference
    muted, muteBy, \* the microphone; who set it last
    \* the phone network
    leg,           \* "ai", "lead" -> "none", "dialing", "active", "gone"
    conf,          \* the conference call
    hidden,        \* this stack replaces the legs by the conference
    \* the server
    srv

loopVars == <<pc, run, called, outcome>>
repVars  == <<stopReq, pauseReq, skipReq, cmds>>
talkVars == <<aiPresent, handover, legsHidden, muted, muteBy>>
netVars  == <<leg, conf, hidden>>
vars     == <<loopVars, repVars, pushes, talkVars, netVars, srv>>

Setup == {"await_ai", "await_ready", "deciding", "dial_lead", "ringing", "merging"}
InFlow == Setup \cup {"talking", "checking"}
Commands == {"TOGGLE_MUTE", "TAKE_OVER", "HANG_UP", "SKIP"}
PushTypes == {"ai_ready", "unidentified", "ai_ended", "ai_ended_takeover"}

Init ==
    /\ pc = "top" /\ run = "running" /\ called = 0 /\ outcome = "none"
    /\ stopReq = FALSE /\ pauseReq = FALSE /\ skipReq = FALSE
    /\ cmds = <<>> /\ pushes = <<>>
    /\ aiPresent = FALSE /\ handover = FALSE /\ legsHidden = FALSE
    /\ muted = FALSE /\ muteBy = "nobody"
    /\ leg = [ai |-> "none", lead |-> "none"] /\ conf = "none" /\ hidden = FALSE
    /\ srv = [att |-> "none", lead |-> "pending"]

-----------------------------------------------------------------------------
(* What the server makes of an event: _apply_event.                         *)

Terminal == {"completed", "rep_hangup", "lead_disconnected", "ai_disconnected"}

Applied(s, event) ==
    CASE event = "merged" /\ s.att = "open"      -> [att |-> "merged", lead |-> "calling"]
      [] event = "lead_failed" /\ s.att = "open" -> [att |-> "lead_failed", lead |-> "failed"]
      [] event = "skipped" /\ s.att = "open"     -> [att |-> "skipped", lead |-> "skipped"]
      [] event \in {"merge_failed", "ai_failed"} /\ s.att = "open" -> [att |-> event, lead |-> "pending"]
      [] event \in Terminal /\ s.att = "merged"  -> [att |-> "completed", lead |-> "completed"]
      [] event \in Terminal /\ s.att = "open"    -> [att |-> "abandoned", lead |-> "pending"]
      [] OTHER -> s

Event(event) == srv' = Applied(srv, event)

-----------------------------------------------------------------------------
(* The legs.                                                                *)

Up(l) == leg[l] \notin {"none", "gone"}
Conferenced == conf \in {"forming", "live"}
Visible(l) == Up(l) /\ ~(hidden /\ Conferenced)

(* Disconnecting by id: a leg the stack has replaced is out of reach. *)
Disconnect(ls) ==
    /\ leg' = [l \in DOMAIN leg |-> IF l \in ls /\ Visible(l) THEN "gone" ELSE leg[l]]
    /\ conf' = IF Conferenced /\ ~hidden /\ \A l \in DOMAIN leg : leg'[l] = "gone" THEN "gone" ELSE conf
    /\ UNCHANGED hidden

(* hangUpAll: the conference first, then each leg. *)
HangUpAll ==
    /\ leg' = [l \in DOMAIN leg |-> "gone"]
    /\ conf' = "gone"
    /\ UNCHANGED hidden

-----------------------------------------------------------------------------
(* The loop between leads: run().                                           *)

(* RunController.execute: the run has ended and hangUpExpected drops the    *)
(* campaign legs that are still visible.                                    *)
Finish(status) ==
    /\ pc' = "over" /\ run' = status
    /\ Disconnect({"ai", "lead"})

NextLead ==
    /\ pc = "top"
    /\ \/ stopReq /\ Finish("stopped") /\ UNCHANGED called
       \/ ~stopReq /\ pauseReq /\ Finish("paused") /\ UNCHANGED called
       \/ ~stopReq /\ ~pauseReq /\ called < MaxLeads
          /\ pc' = "create" /\ called' = called + 1
          /\ UNCHANGED <<run, netVars>>
       \/ ~stopReq /\ ~pauseReq
          /\ \E status \in {"completed", "paused", "error"} : Finish(status)
          /\ UNCHANGED called
    /\ UNCHANGED <<outcome, repVars, pushes, talkVars, srv>>

(* runLead up to the first call: the queues of the previous lead are        *)
(* drained, the attempt is created and its pushes subscribed to, and the AI *)
(* leg is placed.  The app never creates one without the server's answer.   *)
Drained == cmds' = <<>> /\ pushes' = <<>> /\ skipReq' = FALSE

CreateAttempt ==
    /\ pc = "create"
    /\ Drained
    /\ \/ /\ pc' = "await_ai" /\ UNCHANGED outcome
          /\ srv' = [att |-> "open", lead |-> "leased"]
          /\ leg' = [ai |-> "dialing", lead |-> "none"]
       \/ /\ pc' = "between" /\ outcome' = "setup_failed"              \* placeCall: null
          /\ srv' = Applied([att |-> "open", lead |-> "leased"], "ai_failed")
          /\ leg' = [ai |-> "none", lead |-> "none"]
       \/ /\ pc' = "between" /\ outcome' = "not_created"
          /\ srv' = [att |-> "none", lead |-> "leased"]
          /\ leg' = [ai |-> "none", lead |-> "none"]
    /\ conf' = "none" /\ hidden' = FALSE
    /\ aiPresent' = FALSE /\ handover' = FALSE /\ legsHidden' = FALSE
    /\ UNCHANGED <<run, called, stopReq, pauseReq, muted, muteBy>>

(* runLead returns: setMuted(false), and the outcome is looked at. *)
Return(how) ==
    /\ pc' = "between" /\ outcome' = how
    /\ muted' = FALSE /\ muteBy' = "end"
    /\ UNCHANGED <<run, called, aiPresent, handover, legsHidden>>

AfterLead ==
    /\ pc = "between"
    /\ \/ outcome \in {"setup_failed", "not_created"} /\ Finish("paused")
       \/ outcome \notin {"setup_failed", "not_created"}
          /\ pc' = "top" /\ UNCHANGED <<run, netVars>>
    /\ UNCHANGED <<called, outcome, repVars, pushes, talkVars, srv>>

-----------------------------------------------------------------------------
(* flow(): setting the call up.  Each exit hangs up what it has dialled and *)
(* reports one event.                                                       *)

Exit(at, ls, event, how) ==
    /\ pc = at
    /\ Disconnect(ls)
    /\ Event(event)
    /\ Return(how)
    /\ UNCHANGED <<stopReq, pauseReq, cmds, pushes>>

Skip(at, ls) == skipReq /\ Exit(at, ls, "skipped", "skipped") /\ skipReq' = FALSE

Goto(from, to) ==
    /\ pc = from /\ pc' = to
    /\ UNCHANGED <<run, called, outcome, repVars, talkVars>>

AwaitAi ==
    \/ leg.ai = "active" /\ Goto("await_ai", "await_ready") /\ UNCHANGED <<pushes, netVars, srv>>
    \/ Skip("await_ai", {"ai"})
AiNotAnswered ==            \* it failed, or the timeout
    Exit("await_ai", {"ai"}, "ai_failed", "setup_failed") /\ UNCHANGED skipReq

(* waitForAiReady: a push, a skip, a dropped leg. *)
TakePush == pushes # <<>> /\ pushes' = Tail(pushes)

AwaitReady ==
    \/ /\ TakePush
       /\ \/ Head(pushes) = "ai_ready" /\ Goto("await_ready", "dial_lead")
          \/ Head(pushes) = "unidentified" /\ Goto("await_ready", "deciding")
       /\ UNCHANGED <<netVars, srv>>
    \/ Skip("await_ready", {"ai"})
AiNotReady ==
    /\ ~Up("ai") \/ (pushes # <<>> /\ Head(pushes) = "ai_ended")
    /\ Exit("await_ready", {"ai"}, "ai_failed", "setup_failed") /\ UNCHANGED skipReq

(* At the deadline the app asks the server, in case the push was missed. *)
ReadyDeadline ==
    \/ \E to \in {"dial_lead", "deciding"} : Goto("await_ready", to) /\ UNCHANGED <<pushes, netVars, srv>>
    \/ Exit("await_ready", {"ai"}, "ai_failed", "setup_failed") /\ UNCHANGED skipReq

(* The AI could not identify the lead: the rep decides, or the time is up.  *)
(* Without a decision the lead goes back to the queue.                      *)
MergeAnyway == Goto("deciding", "dial_lead") /\ UNCHANGED <<pushes, netVars, srv>>
NotMerged ==
    Exit("deciding", {"ai"}, "ai_failed", "skipped") /\ UNCHANGED skipReq

DialLead ==
    \/ /\ Goto("dial_lead", "ringing")
       /\ leg' = [leg EXCEPT !.lead = "dialing"]
       /\ UNCHANGED <<pushes, conf, hidden, srv>>
    \/ Exit("dial_lead", {"ai"}, "lead_failed", "lead_failed") /\ UNCHANGED skipReq

(* awaitLeadAnswer: whichever of the answer, the loss of the AI leg and the *)
(* skip is noticed first.  Other pushes are dropped.                        *)
LeadAnswers == leg.lead = "active" /\ Goto("ringing", "merging") /\ UNCHANGED <<pushes, netVars, srv>>
RingSkipped_LeadOnly == Skip("ringing", {"lead"})     \* mutant: the AI leg is forgotten
RingSkipped == Skip("ringing", {"ai", "lead"})
LeadGone ==
    ~Up("lead") /\ Exit("ringing", {"ai"}, "lead_failed", "lead_failed") /\ UNCHANGED skipReq
RingTimeout ==
    Exit("ringing", {"ai", "lead"}, "lead_failed", "lead_failed") /\ UNCHANGED skipReq
OtherLegLost ==
    /\ ~Up("ai")
    /\ Exit("ringing", {"lead"}, "ai_failed", "setup_failed") /\ UNCHANGED skipReq
RingPush ==
    /\ pc = "ringing" /\ TakePush
    /\ \/ /\ Head(pushes) \in {"ai_ended", "ai_ended_takeover"}
          /\ Disconnect({"lead"}) /\ Event("ai_failed") /\ Return("setup_failed")
          /\ UNCHANGED repVars
       \/ /\ Head(pushes) \in {"ai_ready", "unidentified"}
          /\ UNCHANGED <<loopVars, repVars, talkVars, netVars, srv>>

(* mergeWithRetries: null when a leg is gone before a conference forms, or  *)
(* when none is live at the deadline.                                       *)
MergeFails_Unreported ==                              \* mutant: no merge_failed event
    Exit("merging", {"ai", "lead"}, "merge_requested", "setup_failed") /\ UNCHANGED skipReq
MergeFails ==
    Exit("merging", {"ai", "lead"}, "merge_failed", "setup_failed") /\ UNCHANGED skipReq
MergeImpossible == ~Conferenced /\ (~Up("ai") \/ ~Up("lead")) /\ MergeFails

(* The rep is muted, the server told, and converse() looks at the legs.     *)
Merged ==
    /\ pc = "merging" /\ conf = "live"
    /\ pc' = "talking"
    /\ muted' = TRUE /\ muteBy' = "merge"
    /\ aiPresent' = TRUE /\ handover' = FALSE /\ legsHidden' = ~Visible("lead")
    /\ Event("merged")
    /\ UNCHANGED <<run, called, outcome, repVars, pushes, netVars>>

-----------------------------------------------------------------------------
(* converse(): one iteration handles an event and then checks the legs.     *)

(* The AI's leg is dropped where it can be seen; where the stack hides it,  *)
(* the matching participant if there is one.                                *)
CompleteHandover_LegKept ==                           \* mutant: left to the gateway
    /\ aiPresent' = FALSE /\ handover' = FALSE
    /\ muted' = FALSE /\ muteBy' = "handover"
    /\ UNCHANGED <<legsHidden, netVars, srv>>
CompleteHandover ==
    /\ aiPresent' = FALSE /\ handover' = FALSE
    /\ muted' = FALSE /\ muteBy' = "handover"
    /\ IF Visible("ai") THEN Disconnect({"ai"})
       ELSE /\ leg' \in {leg, [leg EXCEPT !.ai = "gone"]}
            /\ UNCHANGED <<conf, hidden>>
    /\ UNCHANGED <<legsHidden, srv>>

Handled == pc = "talking" /\ pc' = "checking" /\ UNCHANGED <<run, called, outcome>>

ToggleMute ==
    /\ muted' = ~muted /\ muteBy' = "rep"
    /\ UNCHANGED <<aiPresent, handover, legsHidden, netVars, srv>>

(* The rep stays muted until the agent has left, unless the event does not  *)
(* get through.                                                             *)
TakeOver ==
    \/ aiPresent /\ ~handover /\ CompleteHandover           \* offline
    \/ aiPresent /\ ~handover /\ handover' = TRUE
       /\ UNCHANGED <<aiPresent, legsHidden, muted, muteBy, netVars, srv>>
    \/ ~(aiPresent /\ ~handover) /\ UNCHANGED <<talkVars, netVars, srv>>

Ends_HangUpOnly(command) == command = "HANG_UP"      \* mutant: SKIP is for the setup only
Ends(command) == command \in {"HANG_UP", "SKIP"}

OnCommand ==
    /\ pc = "talking" /\ cmds # <<>>
    /\ cmds' = Tail(cmds)
    /\ \/ Head(cmds) = "TOGGLE_MUTE" /\ Handled /\ ToggleMute
       \/ Head(cmds) = "TAKE_OVER" /\ Handled /\ TakeOver
       \/ Ends(Head(cmds)) /\ HangUpAll /\ Event("rep_hangup") /\ Return("completed")
       \/ /\ Head(cmds) = "SKIP" /\ ~Ends("SKIP")
          /\ Handled /\ UNCHANGED <<talkVars, netVars, srv>>
    /\ UNCHANGED <<stopReq, pauseReq, skipReq, pushes>>

(* Is the end of the AI's part a hand-over rather than a goodbye? *)
IsHandover_ByReason(push) == push = "ai_ended_takeover"     \* mutant: the deadline is ignored
IsHandover(push) == push = "ai_ended_takeover" \/ handover

(* Commands are looked at first. *)
OnPush ==
    /\ pc = "talking" /\ cmds = <<>> /\ TakePush
    /\ \/ /\ Head(pushes) \in {"ai_ready", "unidentified"} \/ ~aiPresent
          /\ Handled /\ UNCHANGED <<talkVars, netVars, srv>>
       \/ /\ Head(pushes) \in {"ai_ended", "ai_ended_takeover"} /\ aiPresent
          /\ IF IsHandover(Head(pushes))
               THEN Handled /\ CompleteHandover
               ELSE HangUpAll /\ Event("completed") /\ Return("completed")
    /\ UNCHANGED repVars

Tick ==
    /\ cmds = <<>> /\ pushes = <<>>
    /\ Handled
    /\ UNCHANGED <<repVars, pushes, talkVars, netVars, srv>>

(* The deadline has passed: the first tick after it.  A tick is half a      *)
(* second without a command or a push.                                      *)
HandoverTimeout_Missing == FALSE                      \* mutant: no fallback deadline
HandoverTimeout ==
    /\ cmds = <<>> /\ pushes = <<>>
    /\ handover /\ aiPresent /\ Handled
    /\ CompleteHandover
    /\ UNCHANGED <<repVars, pushes>>

ConversationLive == IF legsHidden THEN conf = "live" ELSE Visible("lead")

LeadDisconnected ==
    /\ pc = "checking" /\ ~ConversationLive
    /\ Disconnect(IF aiPresent THEN {"ai"} ELSE {})
    /\ Event("lead_disconnected")
    /\ Return("completed")
    /\ UNCHANGED <<repVars, pushes>>

AiDisconnected ==
    /\ pc = "checking" /\ ConversationLive
    /\ aiPresent /\ ~legsHidden /\ ~Visible("ai")
    /\ pc' = "talking"
    /\ aiPresent' = FALSE
    /\ muted' = FALSE /\ muteBy' = "ai_left"
    /\ Event("ai_disconnected")
    /\ UNCHANGED <<run, called, outcome, repVars, pushes, handover, legsHidden, netVars>>

Continue ==
    /\ ConversationLive /\ ~(aiPresent /\ ~legsHidden /\ ~Visible("ai"))
    /\ Goto("checking", "talking")
    /\ UNCHANGED <<pushes, netVars, srv>>

Converse == OnCommand \/ OnPush \/ Tick \/ LeadDisconnected \/ AiDisconnected \/ Continue

-----------------------------------------------------------------------------
(* The phone network, the pushes and the rep.                               *)

Net == UNCHANGED <<loopVars, repVars, pushes, talkVars, srv>>

LegAnswers(l) ==
    /\ leg[l] = "dialing" /\ leg' = [leg EXCEPT ![l] = "active"]
    /\ UNCHANGED <<conf, hidden>> /\ Net

(* A leg drops.  Its conference goes on with who is left, or is dissolved:  *)
(* then the other leg stands alone again, or is gone with a conference that *)
(* had replaced it.                                                         *)
LegDrops(l) ==
    /\ Up(l)
    /\ LET rest == [leg EXCEPT ![l] = "gone"] IN
       \/ leg' = rest /\ UNCHANGED conf /\ \E x \in DOMAIN leg : rest[x] \notin {"none", "gone"}
       \/ leg' = rest /\ conf' = (IF Conferenced THEN "gone" ELSE conf) /\ ~(hidden /\ Conferenced)
       \/ leg' = [x \in DOMAIN leg |-> "gone"] /\ conf' = "gone" /\ hidden /\ Conferenced
    /\ UNCHANGED hidden /\ Net

(* Asked to merge, the network builds a conference in one shape or the other. *)
ConferenceForms ==
    /\ pc = "merging" /\ ~Conferenced /\ leg.ai = "active" /\ leg.lead = "active"
    /\ conf' = "forming" /\ hidden' \in BOOLEAN
    /\ UNCHANGED leg /\ Net

ConferenceLive ==
    /\ conf = "forming" /\ conf' = "live"
    /\ UNCHANGED <<leg, hidden>> /\ Net

(* Pushes may come late, twice or never; a hand-over is announced after it  *)
(* was asked for.                                                           *)
PushArrives(type) ==
    /\ pc \in InFlow /\ Len(pushes) < MaxQueued
    /\ type = "ai_ended_takeover" => pc \in {"talking", "checking"} /\ (handover \/ ~aiPresent)
    /\ pushes' = Append(pushes, type)
    /\ UNCHANGED <<loopVars, repVars, talkVars, netVars, srv>>

Send(command) ==
    /\ pc \in InFlow \cup {"create"} /\ Len(cmds) < MaxQueued
    /\ cmds' = Append(cmds, command)
    /\ skipReq' = (skipReq \/ command = "SKIP")
    /\ UNCHANGED <<loopVars, stopReq, pauseReq, pushes, talkVars, netVars, srv>>

Ask ==
    /\ \/ ~stopReq /\ stopReq' = TRUE /\ UNCHANGED pauseReq
       \/ ~pauseReq /\ pauseReq' = TRUE /\ UNCHANGED stopReq
    /\ UNCHANGED <<loopVars, skipReq, cmds, pushes, talkVars, netVars, srv>>

-----------------------------------------------------------------------------
Timeouts == AiNotAnswered \/ ReadyDeadline \/ NotMerged \/ RingTimeout \/ MergeFails

SetUp ==
    \/ AwaitAi \/ AwaitReady \/ AiNotReady \/ MergeAnyway \/ DialLead
    \/ LeadAnswers \/ RingSkipped \/ LeadGone \/ OtherLegLost \/ RingPush
    \/ MergeImpossible \/ Merged

Next ==
    \/ NextLead \/ CreateAttempt \/ AfterLead
    \/ SetUp \/ Timeouts
    \/ Converse \/ HandoverTimeout
    \/ \E l \in DOMAIN leg : LegAnswers(l) \/ LegDrops(l)
    \/ ConferenceForms \/ ConferenceLive
    \/ \E type \in PushTypes : PushArrives(type)
    \/ \E command \in Commands : Send(command)
    \/ Ask

Spec == Init /\ [][Next]_vars

(* Fairness: the coroutine of the run is not suspended for ever and each of *)
(* its timers fires.  A call gets finitely many pushes and commands (the    *)
(* ticks of converse are starved by a push in every half second).  Nothing  *)
(* is asked of the network or the server.                                   *)
Fairness ==
    /\ WF_vars(NextLead \/ CreateAttempt \/ AfterLead \/ SetUp)
    /\ WF_vars(Timeouts)
    /\ WF_vars(Converse) /\ SF_vars(HandoverTimeout)
    /\ <>[][\A type \in PushTypes : ~PushArrives(type)]_vars
    /\ <>[][\A command \in Commands : ~Send(command)]_vars

FairSpec == Spec /\ Fairness

-----------------------------------------------------------------------------
(* Properties.                                                              *)

(* Before the next lead is fetched, and when the run has ended, no leg of   *)
(* the last call is still up, whatever dropped, raced or timed out on the   *)
(* way: nobody is left ringing or alone on the line.  Excepted is the       *)
(* conference of a merge that was given up while the stack had already      *)
(* replaced the legs: the app has no handle on it.                          *)
NoLegLeftBehind ==
    pc \in {"top", "over"} =>
        \/ \A l \in DOMAIN leg : ~Up(l)
        \/ srv.att = "merge_failed" /\ hidden /\ Conferenced

(* The events of a flow leave the server with the outcome that the app saw: *)
(* the attempt is closed, a lead that was talked to is completed, one that  *)
(* was not reached is failed or skipped, and one that was never disturbed   *)
(* because the phone or the AI failed goes back to the queue.               *)
OutcomeReported ==
    pc = "between" =>
        CASE outcome = "completed"    -> srv = [att |-> "completed", lead |-> "completed"]
          [] outcome = "lead_failed"  -> srv = [att |-> "lead_failed", lead |-> "failed"]
          [] outcome = "skipped"      -> srv \in {[att |-> "skipped", lead |-> "skipped"],
                                                 [att |-> "ai_failed", lead |-> "pending"]}
          [] outcome = "setup_failed" -> srv \in {[att |-> "ai_failed", lead |-> "pending"],
                                                 [att |-> "merge_failed", lead |-> "pending"]}
          [] outcome = "not_created"  -> srv.att = "none"

(* The rep's microphone is open next to the AI only by the rep's own hand:  *)
(* the two never talk over each other.  Excepted is a hand-over on a stack  *)
(* that hides the AI's leg, where only the gateway can drop it.             *)
RepSilentBesideAi ==
    pc \in {"talking", "checking"} /\ Up("ai") /\ ~muted =>
        muteBy = "rep" \/ (muteBy = "handover" /\ hidden)

(* A lead that the agent is handing over, or has left to the rep, is not    *)
(* hung up on by the app, whatever late or repeated ai_ended pushes arrive: *)
(* only the rep's own command ends the call.                                *)
HangsUpOnLead == pc' = "between" /\ Up("lead") /\ leg'.lead = "gone"
LeadKeptAfterTakeOver ==
    [][(handover \/ ~aiPresent) /\ pc \in {"talking", "checking"} /\ HangsUpOnLead
         => (cmds # <<>> /\ Head(cmds) \in {"HANG_UP", "SKIP"})]_vars

(* A hand-over that the rep has asked for completes even if the server and  *)
(* the gateway never answer.                                                *)
TakeOverCompletes == handover ~> ~handover \/ ~aiPresent \/ pc \notin {"talking", "checking"}

(* A skip pressed at any point of a call ends it, including one that races  *)
(* the lead's answer or the merge.                                          *)
SkipEndsCall == skipReq /\ pc \in Setup ~> pc = "between"
=============================================================================
