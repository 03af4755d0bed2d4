--------------------------- MODULE CallFlow_proofs ---------------------------
(****************************************************************************)
(* Theorems about CallFlow, for any number of leads, commands and pushes.    *)
(****************************************************************************)
EXTENDS CallFlow, TLAPS

Talking == {"talking", "checking"}
PCs     == {"top", "create", "between", "over"} \cup InFlow

LegStates == {"none", "dialing", "active", "gone"}

TypeOK ==
    /\ pc \in PCs /\ called \in 0..MaxLeads
    /\ run \in {"running", "stopped", "paused", "completed", "error"}
    /\ outcome \in {"none", "completed", "lead_failed", "skipped", "setup_failed", "not_created"}
    /\ stopReq \in BOOLEAN /\ pauseReq \in BOOLEAN /\ skipReq \in BOOLEAN
    /\ cmds \in Seq(Commands) /\ pushes \in Seq(PushTypes)
    /\ aiPresent \in BOOLEAN /\ handover \in BOOLEAN /\ legsHidden \in BOOLEAN
    /\ muted \in BOOLEAN
    /\ muteBy \in {"nobody", "rep", "merge", "handover", "ai_left", "end"}
    /\ leg \in [{"ai", "lead"} -> LegStates]
    /\ conf \in {"none", "forming", "live", "gone"} /\ hidden \in BOOLEAN
    /\ srv \in [att : {"none", "open", "merged", "completed", "abandoned", "lead_failed",
                       "skipped", "merge_failed", "ai_failed"},
                lead : {"pending", "leased", "calling", "completed", "failed", "skipped"}]

AllDown == ~Up("ai") /\ ~Up("lead")

(* Legs that the stack has replaced by a conference.                        *)
Replaced == hidden /\ Conferenced

(* The attempt stays open on the server until the call is set up or given up.*)
AttemptOpen ==
    /\ pc \in Setup => srv = [att |-> "open", lead |-> "leased"]
    /\ pc \in Talking => srv \in {[att |-> "merged", lead |-> "calling"],
                                  [att |-> "completed", lead |-> "completed"]}
    /\ pc \in Talking /\ aiPresent => srv.att = "merged"

(* Which legs a call being set up can have.                                 *)
LegsSetUp ==
    /\ pc \in {"await_ai", "await_ready", "deciding", "dial_lead"} => leg["lead"] = "none"
    /\ pc \in Setup \ {"merging"} => conf = "none" /\ ~hidden

(* A conference that had replaced its legs takes them with it.              *)
ReplacedGo == hidden /\ ~Conferenced => AllDown

(* What the conversation knows of its legs.                                 *)
LegsKnown ==
    pc \in Talking =>
        /\ hidden => legsHidden
        /\ legsHidden /\ ~hidden => ~Up("lead")
        /\ ~aiPresent /\ ~hidden => ~Up("ai")
        /\ conf \in {"live", "gone"}

(* What is still up when a call is over.                                    *)
LegsLeft ==
    /\ pc \in {"top", "create"} => AllDown
    /\ pc = "between" =>
          \/ AllDown
          \/ /\ outcome \in {"setup_failed", "not_created"}
             /\ Replaced => srv.att = "merge_failed"
    /\ pc = "over" => AllDown \/ (Replaced /\ srv.att = "merge_failed")

Inv == /\ TypeOK /\ AttemptOpen /\ LegsSetUp /\ ReplacedGo /\ LegsKnown /\ LegsLeft
       /\ OutcomeReported /\ RepSilentBesideAi

----------------------------------------------------------------------------
(* The operators. *)

Legs == {"ai", "lead"}

(* Hanging up by id takes the legs that can be seen, all of them unless the *)
(* stack has replaced them.                                                 *)
LEMMA Disconnected ==
  ASSUME TypeOK, NEW ls, Disconnect(ls)
  PROVE  /\ leg' \in [Legs -> LegStates] /\ conf' \in {conf, "gone"} /\ hidden' = hidden
         /\ \A l \in Legs : leg'[l] = IF l \in ls /\ Visible(l) THEN "gone" ELSE leg[l]
         /\ \A l \in Legs : Up(l)' => Up(l)
         /\ \A l \in Legs : l \in ls /\ ~Replaced => ~Up(l)'
         /\ Replaced => leg' = leg /\ conf' = conf
         /\ Conferenced' => Conferenced
  <1> USE DEF Legs
  <1>1. leg \in [Legs -> LegStates]
    BY DEF TypeOK
  <1>2. leg' = [l \in Legs |-> IF l \in ls /\ Visible(l) THEN "gone" ELSE leg[l]]
    BY <1>1 DEF Disconnect
  <1>3. \A l \in Legs : leg'[l] = IF l \in ls /\ Visible(l) THEN "gone" ELSE leg[l]
    BY <1>2
  <1>4. leg' \in [Legs -> LegStates]
    BY <1>1, <1>2 DEF LegStates
  <1>5. conf' \in {conf, "gone"} /\ hidden' = hidden /\ (hidden => conf' = conf)
    BY DEF Disconnect
  <1>6. \A l \in Legs : Up(l)' => Up(l)
    BY <1>3 DEF Up
  <1>7. \A l \in Legs : l \in ls /\ ~Replaced => ~Up(l)'
    BY <1>3 DEF Up, Visible, Replaced
  <1>8. Replaced => leg' = leg /\ conf' = conf
    <2>1. Replaced => \A l \in Legs : leg'[l] = leg[l]
      BY <1>3 DEF Visible, Replaced
    <2> QED
      BY <1>1, <1>4, <1>5, <2>1 DEF Replaced
  <1>9. Conferenced' => Conferenced
    BY <1>5 DEF Conferenced
  <1> QED
    BY <1>3, <1>4, <1>5, <1>6, <1>7, <1>8, <1>9

(* Hanging up the conference and each leg leaves none.                      *)
LEMMA AllHungUp ==
  ASSUME TypeOK, HangUpAll
  PROVE  /\ leg' \in [Legs -> LegStates] /\ conf' = "gone" /\ hidden' = hidden
         /\ AllDown' /\ ~Conferenced'
  <1>1. leg' = [l \in Legs |-> "gone"] /\ conf' = "gone" /\ hidden' = hidden
    BY DEF TypeOK, HangUpAll, Legs
  <1> QED
    BY <1>1 DEF LegStates, AllDown, Up, Conferenced, Legs

ServerStates == [att : {"none", "open", "merged", "completed", "abandoned", "lead_failed",
                        "skipped", "merge_failed", "ai_failed"},
                 lead : {"pending", "leased", "calling", "completed", "failed", "skipped"}]

Open    == [att |-> "open", lead |-> "leased"]
Calling == [att |-> "merged", lead |-> "calling"]
Done    == [att |-> "completed", lead |-> "completed"]

(* What the server makes of the event that ends the setup of a call.        *)
LEMMA AppliedOpen ==
  /\ Applied(Open, "merged") = Calling
  /\ Applied(Open, "lead_failed") = [att |-> "lead_failed", lead |-> "failed"]
  /\ Applied(Open, "skipped") = [att |-> "skipped", lead |-> "skipped"]
  /\ Applied(Open, "ai_failed") = [att |-> "ai_failed", lead |-> "pending"]
  /\ Applied(Open, "merge_failed") = [att |-> "merge_failed", lead |-> "pending"]
  BY DEF Applied, Open, Calling, Terminal

(* The end of a conversation completes the lead, once.                      *)
LEMMA AppliedTalking ==
  \A s \in {Calling, Done}, event \in Terminal : Applied(s, event) = Done
  BY DEF Applied, Calling, Done, Terminal

(* A run that has just started.                                             *)
LEMMA InitInv == Init => Inv
  <1> SUFFICES ASSUME Init PROVE Inv
    OBVIOUS
  <1> USE DEF Init
  <1>1. TypeOK
    <2>1. leg \in [Legs -> LegStates]
      BY DEF Legs, LegStates
    <2>2. srv \in ServerStates
      BY DEF ServerStates
    <2>3. pc \in PCs /\ called \in 0..MaxLeads
      BY CallFlowAssumption DEF PCs
    <2>4. cmds \in Seq(Commands) /\ pushes \in Seq(PushTypes)
      OBVIOUS
    <2> QED
      BY <2>1, <2>2, <2>3, <2>4 DEF TypeOK, Legs, ServerStates
  <1>2. AllDown
    BY DEF AllDown, Up
  <1>3. AttemptOpen /\ LegsSetUp /\ ReplacedGo /\ LegsKnown /\ LegsLeft
    BY <1>2 DEF AttemptOpen, LegsSetUp, ReplacedGo, LegsKnown, LegsLeft, Setup, Talking
  <1>4. OutcomeReported /\ RepSilentBesideAi
    BY DEF OutcomeReported, RepSilentBesideAi
  <1> QED
    BY <1>1, <1>3, <1>4 DEF Inv

(* An exit from the setup, which hangs up what it has dialled and reports   *)
(* one event.                                                               *)
LEMMA SetupGivenUp ==
  ASSUME Inv, pc \in Setup, NEW ls, Disconnect(ls), NEW event, Event(event),
         NEW how, Return(how), UNCHANGED <<stopReq, pauseReq>>,
         skipReq' \in BOOLEAN, cmds' \in Seq(Commands), pushes' \in Seq(PushTypes),
         \/ how = "skipped" /\ event \in {"skipped", "ai_failed"}
         \/ how = "lead_failed" /\ event = "lead_failed"
         \/ how = "setup_failed" /\ event \in {"ai_failed", "merge_failed"},
         pc = "merging" => event = "merge_failed",
         how # "setup_failed" => \A l \in Legs : Up(l) => l \in ls
  PROVE  Inv'
  <1> USE DEF Inv
  <1>1. TypeOK /\ srv = Open
    BY DEF AttemptOpen, Open
  <1>2. srv' = Applied(Open, event)
    BY <1>1 DEF Event
  <1>3. /\ pc' = "between" /\ outcome' = how /\ muted' = FALSE /\ muteBy' = "end"
        /\ UNCHANGED <<run, called, aiPresent, handover, legsHidden>>
    BY DEF Return
  <1>4. TypeOK'
    <2>1. srv' \in ServerStates
      BY <1>2, AppliedOpen DEF ServerStates
    <2>2. leg' \in [{"ai", "lead"} -> LegStates] /\ conf' \in {conf, "gone"} /\ hidden' = hidden
      BY <1>1, Disconnected DEF Legs
    <2>3. conf' \in {"none", "forming", "live", "gone"} /\ hidden' \in BOOLEAN
      BY <2>2 DEF TypeOK
    <2>4. how \in {"none", "completed", "lead_failed", "skipped", "setup_failed", "not_created"}
      OBVIOUS
    <2>5. pc' \in PCs
      BY <1>3 DEF PCs
    <2> QED
      BY <1>1, <1>3, <2>1, <2>2, <2>3, <2>4, <2>5 DEF TypeOK, ServerStates
  <1>5. AttemptOpen' /\ LegsSetUp' /\ LegsKnown' /\ RepSilentBesideAi'
    BY <1>3 DEF AttemptOpen, LegsSetUp, LegsKnown, RepSilentBesideAi, Setup, Talking
  <1>6. ReplacedGo'
    <2>1. /\ \A l \in Legs : Up(l)' => Up(l)
          /\ Replaced => conf' = conf
          /\ hidden' = hidden
      BY <1>1, Disconnected
    <2> QED
      BY <2>1 DEF ReplacedGo, AllDown, Replaced, Conferenced, Legs
  <1>7. LegsLeft'
    <2>1. pc # "merging" => ~Conferenced
      BY DEF LegsSetUp, Conferenced
    <2>2. CASE how # "setup_failed"
      <3>1. ~Replaced
        BY <2>1, <2>2 DEF Replaced
      <3>2. AllDown'
        BY <1>1, <2>2, <3>1, Disconnected DEF AllDown, Legs
      <3> QED
        BY <1>3, <3>2 DEF LegsLeft
    <2>3. CASE how = "setup_failed"
      <3>1. Replaced' => Replaced
        BY <1>1, Disconnected DEF Replaced
      <3>2. Replaced => event = "merge_failed"
        BY <2>1 DEF Replaced
      <3>3. event = "merge_failed" => srv'.att = "merge_failed"
        BY <1>2, AppliedOpen
      <3> QED
        BY <1>3, <2>3, <3>1, <3>2, <3>3 DEF LegsLeft
    <2> QED
      BY <2>2, <2>3
  <1>8. OutcomeReported'
    BY <1>2, <1>3, AppliedOpen DEF OutcomeReported
  <1> QED
    BY <1>4, <1>5, <1>6, <1>7, <1>8

(* A wait of the setup that ends well.                                      *)
LEMMA SetupGoesOn ==
  ASSUME Inv, NEW from \in Setup, NEW to \in Setup, Goto(from, to),
         pushes' \in Seq(PushTypes), UNCHANGED srv, UNCHANGED <<conf, hidden>>,
         \/ UNCHANGED leg
         \/ to = "ringing" /\ leg' = [leg EXCEPT !.lead = "dialing"],
         to \in {"await_ai", "await_ready", "deciding", "dial_lead"} =>
            from \in {"await_ai", "await_ready", "deciding", "dial_lead"},
         from # "merging"
  PROVE  Inv'
  <1> USE DEF Inv
  <1>1. pc = from /\ pc' = to /\ UNCHANGED <<run, called, outcome, repVars, talkVars, srv, conf, hidden>>
    BY DEF Goto
  <1>2. TypeOK'
    BY <1>1 DEF TypeOK, PCs, InFlow, LegStates, repVars, talkVars
  <1>3. AttemptOpen'
    BY <1>1 DEF AttemptOpen, Setup, Talking
  <1>4. LegsSetUp'
    BY <1>1 DEF LegsSetUp, Setup
  <1>5. ReplacedGo'
    BY <1>1 DEF ReplacedGo, AllDown, Up, LegsSetUp, Conferenced, Setup, TypeOK, LegStates
  <1>6. LegsKnown' /\ LegsLeft' /\ OutcomeReported' /\ RepSilentBesideAi'
    BY <1>1 DEF LegsKnown, LegsLeft, OutcomeReported, RepSilentBesideAi, Setup, Talking
  <1> QED
    BY <1>2, <1>3, <1>4, <1>5, <1>6

(* The exits and the waits of the setup, one by one.                        *)
LEMMA SetupStep ==
  ASSUME Inv,
         \/ AwaitAi \/ AwaitReady \/ AiNotReady \/ MergeAnyway \/ DialLead
         \/ LeadAnswers \/ RingSkipped \/ LeadGone \/ OtherLegLost \/ RingPush
         \/ MergeImpossible \/ Timeouts
  PROVE  Inv'
  <1> USE DEF Inv
  <1>1. TypeOK /\ Legs = {"ai", "lead"}
    BY DEF Legs
  <1>2. ASSUME NEW at \in Setup, NEW ls, NEW event, NEW how, Exit(at, ls, event, how),
               skipReq' \in BOOLEAN,
               \/ how = "skipped" /\ event \in {"skipped", "ai_failed"}
               \/ how = "lead_failed" /\ event = "lead_failed"
               \/ how = "setup_failed" /\ event \in {"ai_failed", "merge_failed"},
               at = "merging" => event = "merge_failed",
               how # "setup_failed" => \A l \in Legs : Up(l) => l \in ls
        PROVE  Inv'
    <2>1. /\ pc = at /\ Disconnect(ls) /\ Event(event) /\ Return(how)
          /\ UNCHANGED <<stopReq, pauseReq, cmds, pushes>>
      BY <1>2 DEF Exit
    <2>2. cmds' \in Seq(Commands) /\ pushes' \in Seq(PushTypes)
      BY <1>1, <2>1 DEF TypeOK
    <2> QED
      BY <1>2, <2>1, <2>2, SetupGivenUp
  <1>3. pc \in {"await_ai", "await_ready", "deciding", "dial_lead"} => ~Up("lead")
    BY DEF LegsSetUp, Up
  <1>4. UNCHANGED skipReq => skipReq' \in BOOLEAN
    BY <1>1 DEF TypeOK
  <1>5. TakePush => pushes' \in Seq(PushTypes)
    BY <1>1 DEF TakePush, TypeOK
  <1>6. UNCHANGED pushes => pushes' \in Seq(PushTypes)
    BY <1>1 DEF TypeOK
  <1>7. CASE AwaitAi
    <2>1. CASE leg.ai = "active" /\ Goto("await_ai", "await_ready") /\ UNCHANGED <<pushes, netVars, srv>>
      BY <1>6, <2>1, SetupGoesOn DEF netVars, Setup
    <2>2. CASE Skip("await_ai", {"ai"})
      <3>1. pc = "await_ai" /\ Exit("await_ai", {"ai"}, "skipped", "skipped") /\ skipReq' \in BOOLEAN
        BY <2>2 DEF Skip, Exit
      <3> QED
        BY <1>1, <1>2, <1>3, <3>1 DEF Setup
    <2> QED
      BY <1>7, <2>1, <2>2 DEF AwaitAi
  <1>8. CASE AwaitReady
    <2>1. CASE Skip("await_ready", {"ai"})
      <3>1. pc = "await_ready" /\ Exit("await_ready", {"ai"}, "skipped", "skipped")
            /\ skipReq' \in BOOLEAN
        BY <2>1 DEF Skip, Exit
      <3> QED
        BY <1>1, <1>2, <1>3, <3>1 DEF Setup
    <2>2. CASE ~Skip("await_ready", {"ai"})
      <3>1. /\ TakePush /\ UNCHANGED <<netVars, srv>>
            /\ Goto("await_ready", "dial_lead") \/ Goto("await_ready", "deciding")
        BY <1>8, <2>2 DEF AwaitReady
      <3>2. UNCHANGED srv /\ UNCHANGED <<conf, hidden>> /\ UNCHANGED leg
        BY <3>1 DEF netVars
      <3> QED
        BY <1>5, <3>1, <3>2, SetupGoesOn DEF Setup
    <2> QED
      BY <2>1, <2>2
  <1>9. CASE AiNotReady
    BY <1>1, <1>2, <1>4, <1>9 DEF AiNotReady, Setup
  <1>10. CASE MergeAnyway
    <2>1. /\ Goto("deciding", "dial_lead") /\ UNCHANGED srv /\ UNCHANGED <<conf, hidden>>
          /\ UNCHANGED leg /\ UNCHANGED pushes
      BY <1>10 DEF MergeAnyway, netVars
    <2> QED
      BY <1>6, <2>1, SetupGoesOn DEF Setup
  <1>11. CASE DialLead
    <2>1. CASE Exit("dial_lead", {"ai"}, "lead_failed", "lead_failed") /\ UNCHANGED skipReq
      <3>1. pc = "dial_lead"
        BY <2>1 DEF Exit
      <3> QED
        BY <1>1, <1>2, <1>3, <1>4, <2>1, <3>1 DEF Setup
    <2>2. CASE /\ Goto("dial_lead", "ringing") /\ leg' = [leg EXCEPT !.lead = "dialing"]
               /\ UNCHANGED <<pushes, conf, hidden, srv>>
      <3>1. UNCHANGED srv /\ UNCHANGED <<conf, hidden>> /\ UNCHANGED pushes
        BY <2>2
      <3> QED
        BY <1>6, <2>2, <3>1, SetupGoesOn DEF Setup
    <2> QED
      BY <1>11, <2>1, <2>2 DEF DialLead
  <1>12. CASE LeadAnswers
    <2>1. /\ Goto("ringing", "merging") /\ UNCHANGED srv /\ UNCHANGED <<conf, hidden>>
          /\ UNCHANGED leg /\ UNCHANGED pushes
      BY <1>12 DEF LeadAnswers, netVars
    <2> QED
      BY <1>6, <2>1, SetupGoesOn DEF Setup
  <1>13. CASE RingSkipped
    <2>1. Exit("ringing", {"ai", "lead"}, "skipped", "skipped") /\ skipReq' \in BOOLEAN
      BY <1>13 DEF RingSkipped, Skip
    <2> QED
      BY <1>1, <1>2, <2>1 DEF Setup
  <1>14. CASE LeadGone
    BY <1>1, <1>2, <1>4, <1>14 DEF LeadGone, Setup
  <1>15. CASE OtherLegLost
    BY <1>1, <1>2, <1>4, <1>15 DEF OtherLegLost, Setup
  <1>16. CASE RingPush
    <2>1. pc = "ringing" /\ TakePush
      BY <1>16 DEF RingPush
    <2>2. CASE Disconnect({"lead"}) /\ Event("ai_failed") /\ Return("setup_failed") /\ UNCHANGED repVars
      <3>1. /\ UNCHANGED <<stopReq, pauseReq>> /\ skipReq' \in BOOLEAN /\ cmds' \in Seq(Commands)
        BY <1>1, <2>2 DEF repVars, TypeOK
      <3>2. pc \in Setup
        BY <2>1 DEF Setup
      <3> QED
        BY <1>5, <2>1, <2>2, <3>1, <3>2, SetupGivenUp
    <2>3. CASE UNCHANGED <<loopVars, repVars, talkVars, netVars, srv>>
      <3>1. UNCHANGED <<pc, run, called, outcome, stopReq, pauseReq, skipReq, cmds, aiPresent,
                        handover, legsHidden, muted, muteBy, leg, conf, hidden, srv>>
        BY <2>3 DEF loopVars, repVars, talkVars, netVars
      <3> QED
        BY <1>5, <2>1, <3>1
           DEF TypeOK, AttemptOpen, LegsSetUp, ReplacedGo, LegsKnown, LegsLeft, OutcomeReported,
               RepSilentBesideAi, AllDown, Up, Replaced, Conferenced
    <2> QED
      BY <1>16, <2>2, <2>3 DEF RingPush
  <1>17. CASE MergeImpossible \/ MergeFails
    BY <1>1, <1>2, <1>4, <1>17 DEF MergeImpossible, MergeFails, Setup
  <1>18. CASE AiNotAnswered
    BY <1>1, <1>2, <1>4, <1>18 DEF AiNotAnswered, Setup
  <1>19. CASE ReadyDeadline
    <2>1. CASE Exit("await_ready", {"ai"}, "ai_failed", "setup_failed") /\ UNCHANGED skipReq
      BY <1>1, <1>2, <1>4, <2>1 DEF Setup
    <2>2. CASE \E to \in {"dial_lead", "deciding"} :
                  Goto("await_ready", to) /\ UNCHANGED <<pushes, netVars, srv>>
      <3>1. /\ Goto("await_ready", "dial_lead") \/ Goto("await_ready", "deciding")
            /\ UNCHANGED srv /\ UNCHANGED <<conf, hidden>> /\ UNCHANGED leg /\ UNCHANGED pushes
        BY <2>2 DEF netVars
      <3> QED
        BY <1>6, <3>1, SetupGoesOn DEF Setup
    <2> QED
      BY <1>19, <2>1, <2>2 DEF ReadyDeadline
  <1>20. CASE NotMerged
    <2>1. pc = "deciding"
      BY <1>20 DEF NotMerged, Exit
    <2> QED
      BY <1>1, <1>2, <1>3, <1>4, <1>20, <2>1 DEF NotMerged, Setup
  <1>21. CASE RingTimeout
    BY <1>1, <1>2, <1>4, <1>21 DEF RingTimeout, Setup
  <1> QED
    BY <1>7, <1>8, <1>9, <1>10, <1>11, <1>12, <1>13, <1>14, <1>15, <1>16, <1>17, <1>18, <1>19,
       <1>20, <1>21 DEF Timeouts

(* The merge: the conversation begins with both legs in a conference.       *)
LEMMA MergedStep ==
  ASSUME Inv, Merged
  PROVE  Inv'
  <1> USE DEF Inv
  <1>1. /\ pc = "merging" /\ conf = "live" /\ pc' = "talking" /\ muted' = TRUE /\ muteBy' = "merge"
        /\ aiPresent' = TRUE /\ handover' = FALSE /\ legsHidden' = ~Visible("lead")
        /\ UNCHANGED <<run, called, outcome, stopReq, pauseReq, skipReq, cmds, pushes, leg, conf, hidden>>
    BY DEF Merged, repVars, netVars
  <1>2. srv = Open /\ srv' = Calling
    BY <1>1, AppliedOpen DEF Merged, Event, AttemptOpen, Setup, Open
  <1>3. TypeOK'
    <2>1. srv' \in ServerStates
      BY <1>2 DEF ServerStates, Calling
    <2>2. legsHidden' \in BOOLEAN
      BY <1>1 DEF Visible, Up
    <2>3. pc' \in PCs
      BY <1>1 DEF PCs, InFlow
    <2> QED
      BY <1>1, <2>1, <2>2, <2>3 DEF TypeOK, ServerStates
  <1>4. AttemptOpen'
    BY <1>1, <1>2 DEF AttemptOpen, Setup, Talking, Calling
  <1>5. LegsSetUp' /\ LegsLeft' /\ OutcomeReported' /\ RepSilentBesideAi'
    BY <1>1 DEF LegsSetUp, LegsLeft, OutcomeReported, RepSilentBesideAi, Setup
  <1>6. ReplacedGo' /\ LegsKnown'
    BY <1>1 DEF ReplacedGo, LegsKnown, Conferenced, AllDown, Up, Visible
  <1> QED
    BY <1>3, <1>4, <1>5, <1>6

----------------------------------------------------------------------------
(* The conversation. *)

(* It goes on: legs may drop, and the AI may leave.                         *)
LEMMA TalkGoesOn ==
  ASSUME Inv, pc \in Talking, pc' \in Talking, UNCHANGED <<run, called, outcome, legsHidden, hidden>>,
         stopReq' \in BOOLEAN, pauseReq' \in BOOLEAN, skipReq' \in BOOLEAN,
         cmds' \in Seq(Commands), pushes' \in Seq(PushTypes),
         aiPresent' \in BOOLEAN, handover' \in BOOLEAN, muted' \in BOOLEAN,
         muteBy' \in {"nobody", "rep", "merge", "handover", "ai_left", "end"},
         leg' \in [Legs -> LegStates], conf' \in {conf, "gone"},
         \A l \in Legs : Up(l)' => Up(l),
         hidden /\ ~Conferenced' => AllDown',
         aiPresent' => aiPresent,
         ~aiPresent' /\ ~hidden => ~Up("ai")',
         srv' = srv \/ (srv' = Applied(srv, "ai_disconnected") /\ aiPresent /\ ~aiPresent'),
         RepSilentBesideAi'
  PROVE  Inv'
  <1> USE DEF Inv
  <1>1. srv \in {Calling, Done} /\ srv' \in {srv, Done}
    <2>1. srv \in {Calling, Done}
      BY DEF AttemptOpen, Calling, Done
    <2> QED
      BY <2>1, AppliedTalking DEF Terminal
  <1>2. TypeOK'
    <2>1. srv' \in ServerStates
      BY <1>1 DEF ServerStates, Calling, Done
    <2>2. pc' \in PCs
      BY DEF PCs, InFlow, Talking
    <2>3. conf' \in {"none", "forming", "live", "gone"}
      BY DEF TypeOK
    <2> QED
      BY <2>1, <2>2, <2>3 DEF TypeOK, ServerStates, Legs
  <1>3. pc' \notin Setup \cup {"top", "create", "between", "over"}
    BY DEF Talking, Setup
  <1>4. AttemptOpen'
    <2>1. srv' \in {[att |-> "merged", lead |-> "calling"], [att |-> "completed", lead |-> "completed"]}
      BY <1>1 DEF Calling, Done
    <2>2. aiPresent' => srv'.att = "merged"
      BY DEF AttemptOpen
    <2> QED
      BY <1>3, <2>1, <2>2 DEF AttemptOpen
  <1>5. LegsSetUp' /\ LegsLeft' /\ OutcomeReported'
    BY <1>3 DEF LegsSetUp, LegsLeft, OutcomeReported, Setup
  <1>6. ReplacedGo' /\ LegsKnown'
    BY DEF ReplacedGo, LegsKnown, Legs
  <1> QED
    BY <1>2, <1>4, <1>5, <1>6

(* It ends, and no leg is left.                                             *)
LEMMA TalkEnds ==
  ASSUME Inv, pc \in Talking, Return("completed"), NEW event \in Terminal, Event(event),
         stopReq' \in BOOLEAN, pauseReq' \in BOOLEAN, skipReq' \in BOOLEAN,
         cmds' \in Seq(Commands), pushes' \in Seq(PushTypes),
         leg' \in [Legs -> LegStates], conf' \in {conf, "gone"}, hidden' = hidden, AllDown'
  PROVE  Inv'
  <1> USE DEF Inv
  <1>1. /\ pc' = "between" /\ outcome' = "completed" /\ muted' = FALSE /\ muteBy' = "end"
        /\ UNCHANGED <<run, called, aiPresent, handover, legsHidden>>
    BY DEF Return
  <1>2. srv' = Done
    <2>1. srv \in {Calling, Done}
      BY DEF AttemptOpen, Calling, Done
    <2> QED
      BY <2>1, AppliedTalking DEF Event
  <1>3. TypeOK'
    <2>1. srv' \in ServerStates
      BY <1>2 DEF ServerStates, Done
    <2>2. pc' \in PCs
      BY <1>1 DEF PCs
    <2>3. conf' \in {"none", "forming", "live", "gone"}
      BY DEF TypeOK
    <2> QED
      BY <1>1, <2>1, <2>2, <2>3 DEF TypeOK, ServerStates, Legs
  <1>4. AttemptOpen' /\ LegsSetUp' /\ LegsKnown' /\ RepSilentBesideAi' /\ ReplacedGo' /\ LegsLeft'
    BY <1>1 DEF AttemptOpen, LegsSetUp, LegsKnown, RepSilentBesideAi, ReplacedGo, LegsLeft, Setup,
                Talking
  <1>5. OutcomeReported'
    BY <1>1, <1>2 DEF OutcomeReported, Done
  <1> QED
    BY <1>3, <1>4, <1>5

(* A hand-over drops the leg of the AI, unless the stack hides it.          *)
LEMMA HandedOver ==
  ASSUME Inv, CompleteHandover
  PROVE  /\ aiPresent' = FALSE /\ handover' = FALSE /\ muted' = FALSE /\ muteBy' = "handover"
         /\ UNCHANGED <<legsHidden, hidden, srv>>
         /\ leg' \in [Legs -> LegStates] /\ conf' \in {conf, "gone"}
         /\ \A l \in Legs : Up(l)' => Up(l)
         /\ hidden /\ ~Conferenced' => AllDown'
         /\ ~hidden => ~Up("ai")'
         /\ leg'["lead"] = leg["lead"]
  <1> USE DEF Inv
  <1>1. TypeOK /\ Legs = {"ai", "lead"}
    BY DEF Legs
  <1>2. /\ aiPresent' = FALSE /\ handover' = FALSE /\ muted' = FALSE /\ muteBy' = "handover"
        /\ UNCHANGED <<legsHidden, srv>>
    BY DEF CompleteHandover
  <1>3. CASE Visible("ai")
    <2>1. Disconnect({"ai"})
      BY <1>3 DEF CompleteHandover
    <2>2. ~Replaced
      BY <1>3 DEF Visible, Replaced
    <2>3. hidden => ~Conferenced /\ Up("ai")
      BY <1>3 DEF Visible
    <2>4. ~hidden
      BY <2>3 DEF ReplacedGo, AllDown
    <2> QED
      BY <1>1, <1>2, <2>1, <2>2, <2>4, Disconnected
  <1>4. CASE ~Visible("ai")
    <2>1. leg' \in {leg, [leg EXCEPT !.ai = "gone"]} /\ UNCHANGED <<conf, hidden>>
      BY <1>4 DEF CompleteHandover
    <2>2. leg' \in [Legs -> LegStates] /\ leg'["lead"] = leg["lead"] /\ leg'["ai"] \in {leg["ai"], "gone"}
      BY <1>1, <2>1 DEF TypeOK, LegStates
    <2>3. \A l \in Legs : Up(l)' => Up(l)
      BY <1>1, <2>2 DEF Up
    <2>4. ~hidden => ~Up("ai")
      BY <1>4 DEF Visible
    <2>5. hidden /\ ~Conferenced' => AllDown'
      BY <1>1, <2>1, <2>3 DEF ReplacedGo, AllDown, Conferenced
    <2> QED
      BY <1>1, <1>2, <2>1, <2>2, <2>3, <2>4, <2>5
  <1> QED
    BY <1>3, <1>4

(* A hand-over leaves the microphone open beside an AI that is only hidden. *)
LEMMA HandOverGoesOn ==
  ASSUME Inv, Handled, CompleteHandover,
         stopReq' \in BOOLEAN, pauseReq' \in BOOLEAN, skipReq' \in BOOLEAN,
         cmds' \in Seq(Commands), pushes' \in Seq(PushTypes)
  PROVE  Inv'
  <1>1. pc \in Talking /\ pc' \in Talking /\ UNCHANGED <<run, called, outcome>>
    BY DEF Handled, Talking
  <1>2. /\ aiPresent' = FALSE /\ handover' = FALSE /\ muted' = FALSE /\ muteBy' = "handover"
        /\ UNCHANGED <<legsHidden, hidden, srv>>
        /\ leg' \in [Legs -> LegStates] /\ conf' \in {conf, "gone"}
        /\ \A l \in Legs : Up(l)' => Up(l)
        /\ hidden /\ ~Conferenced' => AllDown'
        /\ ~hidden => ~Up("ai")'
    BY HandedOver
  <1>3. RepSilentBesideAi'
    BY <1>2 DEF RepSilentBesideAi
  <1> QED
    BY <1>1, <1>2, <1>3, TalkGoesOn

(* The steps of converse().                                                 *)
LEMMA ConverseStep ==
  ASSUME Inv, Converse \/ HandoverTimeout
  PROVE  Inv'
  <1> USE DEF Inv
  <1>1. TypeOK /\ Legs = {"ai", "lead"} /\ leg \in [Legs -> LegStates]
    BY DEF Legs, TypeOK
  <1>2. ReplacedGo /\ (pc \in Talking => LegsKnown) /\ LegsKnown
    OBVIOUS
  <1>3. ASSUME pc \in Talking, pc' \in Talking, UNCHANGED <<run, called, outcome, legsHidden>>,
               UNCHANGED <<leg, conf, hidden, srv>>, UNCHANGED <<stopReq, pauseReq, skipReq, aiPresent>>,
               cmds' \in Seq(Commands), pushes' \in Seq(PushTypes),
               handover' \in BOOLEAN, muted' \in BOOLEAN,
               (muteBy' = muteBy /\ muted' = muted) \/ muteBy' = "rep"
        PROVE  Inv'
    <2>1. \A l \in Legs : Up(l)' => Up(l)
      BY <1>3 DEF Up
    <2>2. hidden /\ ~Conferenced' => AllDown'
      BY <1>3 DEF ReplacedGo, Conferenced, AllDown, Up
    <2>3. ~aiPresent' /\ ~hidden => ~Up("ai")'
      BY <1>3 DEF LegsKnown, Up
    <2>4. RepSilentBesideAi'
      BY <1>3 DEF RepSilentBesideAi, Up, Talking
    <2>5. /\ muteBy' \in {"nobody", "rep", "merge", "handover", "ai_left", "end"}
          /\ stopReq' \in BOOLEAN /\ pauseReq' \in BOOLEAN /\ skipReq' \in BOOLEAN
          /\ aiPresent' \in BOOLEAN /\ (aiPresent' => aiPresent)
          /\ leg' \in [Legs -> LegStates] /\ conf' \in {conf, "gone"}
      BY <1>1, <1>3 DEF TypeOK
    <2>6. UNCHANGED <<run, called, outcome, legsHidden, hidden>> /\ srv' = srv
      BY <1>3
    <2> QED
      BY <1>3, <2>1, <2>2, <2>3, <2>4, <2>5, <2>6, TalkGoesOn
  <1>4. /\ UNCHANGED cmds => cmds' \in Seq(Commands)
        /\ UNCHANGED pushes => pushes' \in Seq(PushTypes)
        /\ TakePush => pushes' \in Seq(PushTypes)
        /\ cmds # <<>> /\ cmds' = Tail(cmds) => cmds' \in Seq(Commands)
    <2>1. TakePush => pushes' \in Seq(PushTypes)
      BY <1>1 DEF TypeOK, TakePush
    <2>2. cmds # <<>> /\ cmds' = Tail(cmds) => cmds' \in Seq(Commands)
      BY <1>1 DEF TypeOK
    <2> QED
      BY <1>1, <2>1, <2>2 DEF TypeOK
  <1>5. Handled => /\ pc \in Talking /\ pc' \in Talking /\ UNCHANGED <<run, called, outcome>>
    BY DEF Handled, Talking
  <1>6. UNCHANGED <<stopReq, pauseReq, skipReq>> =>
           stopReq' \in BOOLEAN /\ pauseReq' \in BOOLEAN /\ skipReq' \in BOOLEAN
    BY <1>1 DEF TypeOK
  <1>7. ASSUME pc \in Talking, HangUpAll, NEW event \in Terminal, Event(event), Return("completed"),
               UNCHANGED <<stopReq, pauseReq, skipReq>>, cmds' \in Seq(Commands),
               pushes' \in Seq(PushTypes)
        PROVE  Inv'
    BY <1>1, <1>6, <1>7, AllHungUp, TalkEnds
  <1>8. CASE OnCommand
    <2>1. /\ pc = "talking" /\ cmds' \in Seq(Commands) /\ pushes' \in Seq(PushTypes)
          /\ UNCHANGED <<stopReq, pauseReq, skipReq>>
      BY <1>4, <1>8 DEF OnCommand
    <2>2. CASE Handled /\ ToggleMute
      <3>1. /\ muted' \in BOOLEAN /\ muteBy' = "rep"
            /\ UNCHANGED <<aiPresent, handover, legsHidden, leg, conf, hidden, srv>>
            /\ handover' \in BOOLEAN
        BY <1>1, <2>2 DEF ToggleMute, netVars, TypeOK
      <3> QED
        BY <1>3, <1>5, <2>1, <2>2, <3>1
    <2>3. CASE Handled /\ TakeOver
      <3>1. CASE CompleteHandover
        BY <1>6, <2>1, <2>3, <3>1, HandOverGoesOn
      <3>2. CASE ~CompleteHandover
        <4>1. /\ UNCHANGED <<aiPresent, legsHidden, muted, muteBy, leg, conf, hidden, srv>>
              /\ handover' \in BOOLEAN /\ muted' \in BOOLEAN
          BY <1>1, <2>3, <3>2 DEF TakeOver, talkVars, netVars, TypeOK
        <4> QED
          BY <1>3, <1>5, <2>1, <2>3, <4>1
      <3> QED
        BY <3>1, <3>2
    <2>4. CASE HangUpAll /\ Event("rep_hangup") /\ Return("completed")
      <3>1. "rep_hangup" \in Terminal /\ pc \in Talking
        BY <2>1 DEF Terminal, Talking
      <3> QED
        BY <1>7, <2>1, <2>4, <3>1
    <2>5. CASE Handled /\ UNCHANGED <<talkVars, netVars, srv>>
      <3>1. /\ UNCHANGED <<aiPresent, handover, legsHidden, muted, muteBy, leg, conf, hidden, srv>>
            /\ handover' \in BOOLEAN /\ muted' \in BOOLEAN
        BY <1>1, <2>5 DEF talkVars, netVars, TypeOK
      <3> QED
        BY <1>3, <1>5, <2>1, <2>5, <3>1
    <2> QED
      BY <1>8, <2>2, <2>3, <2>4, <2>5 DEF OnCommand
  <1>9. CASE OnPush
    <2>1. /\ pc = "talking" /\ pushes' \in Seq(PushTypes) /\ cmds' \in Seq(Commands)
          /\ UNCHANGED <<stopReq, pauseReq, skipReq>>
      BY <1>4, <1>9 DEF OnPush, repVars
    <2>2. CASE Handled /\ UNCHANGED <<talkVars, netVars, srv>>
      <3>1. /\ UNCHANGED <<aiPresent, handover, legsHidden, muted, muteBy, leg, conf, hidden, srv>>
            /\ handover' \in BOOLEAN /\ muted' \in BOOLEAN
        BY <1>1, <2>2 DEF talkVars, netVars, TypeOK
      <3> QED
        BY <1>3, <1>5, <2>1, <2>2, <3>1
    <2>3. CASE Handled /\ CompleteHandover
      BY <1>6, <2>1, <2>3, HandOverGoesOn
    <2>4. CASE HangUpAll /\ Event("completed") /\ Return("completed")
      <3>1. "completed" \in Terminal /\ pc \in Talking
        BY <2>1 DEF Terminal, Talking
      <3> QED
        BY <1>7, <2>1, <2>4, <3>1
    <2> QED
      BY <1>9, <2>2, <2>3, <2>4 DEF OnPush
  <1>10. CASE Tick
    <2>1. /\ Handled
          /\ UNCHANGED <<stopReq, pauseReq, skipReq, cmds, pushes, aiPresent, handover, legsHidden,
                         muted, muteBy, leg, conf, hidden, srv>>
          /\ handover' \in BOOLEAN /\ muted' \in BOOLEAN
      BY <1>1, <1>10 DEF Tick, repVars, talkVars, netVars, TypeOK
    <2> QED
      BY <1>3, <1>4, <1>5, <2>1
  <1>11. CASE HandoverTimeout
    <2>1. /\ Handled /\ CompleteHandover
          /\ UNCHANGED <<stopReq, pauseReq, skipReq, cmds, pushes>>
      BY <1>11 DEF HandoverTimeout, repVars
    <2> QED
      BY <1>4, <1>6, <2>1, HandOverGoesOn
  <1>12. CASE LeadDisconnected
    <2> DEFINE ls == IF aiPresent THEN {"ai"} ELSE {}
    <2>1. /\ pc \in Talking /\ ~ConversationLive /\ Disconnect(ls) /\ Event("lead_disconnected")
          /\ Return("completed") /\ UNCHANGED <<stopReq, pauseReq, skipReq, cmds, pushes>>
      BY <1>12 DEF LeadDisconnected, Talking, repVars
    <2>2. /\ hidden => legsHidden
          /\ legsHidden /\ ~hidden => ~Up("lead")
          /\ ~aiPresent /\ ~hidden => ~Up("ai")
          /\ conf \in {"live", "gone"}
      BY <2>1 DEF LegsKnown
    <2>3. ~Replaced
      BY <2>1, <2>2 DEF ConversationLive, Replaced, Conferenced
    <2>4. ~Up("lead")
      BY <2>1, <2>2, <2>3 DEF ConversationLive, Visible, ReplacedGo, AllDown, Replaced
    <2>5. aiPresent \/ ~Up("ai")
      BY <2>2, <2>3 DEF ReplacedGo, AllDown, Replaced
    <2> HIDE DEF ls
    <2>6. /\ leg' \in [Legs -> LegStates] /\ conf' \in {conf, "gone"} /\ hidden' = hidden
          /\ \A l \in Legs : Up(l)' => Up(l)
          /\ \A l \in Legs : l \in ls /\ ~Replaced => ~Up(l)'
      BY <1>1, <2>1, Disconnected
    <2>7. AllDown'
      BY <1>1, <2>3, <2>4, <2>5, <2>6 DEF AllDown, ls
    <2>8. "lead_disconnected" \in Terminal
      BY DEF Terminal
    <2> QED
      BY <1>4, <1>6, <2>1, <2>6, <2>7, <2>8, TalkEnds
  <1>13. CASE AiDisconnected
    <2>1. /\ pc \in Talking /\ pc' \in Talking /\ aiPresent /\ ~legsHidden /\ ~Visible("ai")
          /\ aiPresent' = FALSE /\ muted' = FALSE /\ muteBy' = "ai_left"
          /\ srv' = Applied(srv, "ai_disconnected")
          /\ UNCHANGED <<run, called, outcome, handover, legsHidden, leg, conf, hidden>>
          /\ UNCHANGED <<stopReq, pauseReq, skipReq, cmds, pushes>>
      BY <1>13 DEF AiDisconnected, Event, Talking, repVars, netVars
    <2>2. ~hidden /\ ~Up("ai")
      BY <2>1 DEF LegsKnown, Visible
    <2>3. ~Up("ai")' /\ (\A l \in Legs : Up(l)' => Up(l)) /\ RepSilentBesideAi'
      BY <2>1, <2>2 DEF Up, RepSilentBesideAi
    <2>4. /\ leg' \in [Legs -> LegStates] /\ conf' \in {conf, "gone"}
          /\ handover' \in BOOLEAN
      BY <1>1, <2>1 DEF TypeOK
    <2> QED
      BY <1>4, <1>6, <2>1, <2>2, <2>3, <2>4, TalkGoesOn
  <1>14. CASE Continue
    <2>1. /\ pc \in Talking /\ pc' \in Talking /\ UNCHANGED <<run, called, outcome>>
          /\ UNCHANGED <<stopReq, pauseReq, skipReq, cmds, pushes, aiPresent, handover, legsHidden,
                         muted, muteBy, leg, conf, hidden, srv>>
          /\ handover' \in BOOLEAN /\ muted' \in BOOLEAN
      BY <1>1, <1>14 DEF Continue, Goto, Talking, repVars, talkVars, netVars, TypeOK
    <2> QED
      BY <1>3, <1>4, <2>1
  <1> QED
    BY <1>8, <1>9, <1>10, <1>11, <1>12, <1>13, <1>14 DEF Converse

----------------------------------------------------------------------------
(* The loop between leads: a lead is fetched when no leg is up, and the end *)
(* of the run drops the legs that can be seen.                              *)
LEMMA LoopStep ==
  ASSUME Inv, NextLead \/ CreateAttempt \/ AfterLead
  PROVE  Inv'
  <1> USE DEF Inv
  <1>1. TypeOK /\ Legs = {"ai", "lead"} /\ leg \in [Legs -> LegStates]
    BY DEF Legs, TypeOK
  <1>2. ASSUME NEW status \in {"stopped", "paused", "completed", "error"}, Finish(status),
               UNCHANGED <<called, outcome, repVars, pushes, talkVars, srv>>,
               AllDown \/ (Replaced => srv.att = "merge_failed")
        PROVE  Inv'
    <2>1. /\ pc' = "over" /\ run' = status /\ Disconnect(Legs)
          /\ UNCHANGED <<called, outcome, stopReq, pauseReq, skipReq, cmds, pushes, aiPresent,
                         handover, legsHidden, muted, muteBy, srv>>
      BY <1>1, <1>2 DEF Finish, repVars, talkVars
    <2>2. /\ leg' \in [Legs -> LegStates] /\ conf' \in {conf, "gone"} /\ hidden' = hidden
          /\ \A l \in Legs : Up(l)' => Up(l)
          /\ \A l \in Legs : ~Replaced => ~Up(l)'
          /\ Replaced => leg' = leg /\ conf' = conf
          /\ Conferenced' => Conferenced
      BY <1>1, <2>1, Disconnected
    <2>3. TypeOK'
      <3>1. pc' \in PCs
        BY <2>1 DEF PCs
      <3>2. conf' \in {"none", "forming", "live", "gone"} /\ run' \in {"running", "stopped", "paused", "completed", "error"}
        BY <1>2, <2>1, <2>2 DEF TypeOK
      <3> QED
        BY <1>1, <2>1, <2>2, <3>1, <3>2 DEF TypeOK
    <2>4. AttemptOpen' /\ LegsSetUp' /\ LegsKnown' /\ OutcomeReported' /\ RepSilentBesideAi'
      BY <2>1 DEF AttemptOpen, LegsSetUp, LegsKnown, OutcomeReported, RepSilentBesideAi, Setup, Talking
    <2>5. ReplacedGo'
      <3>1. Replaced => ReplacedGo'
        BY <2>2 DEF Replaced, ReplacedGo, Conferenced
      <3>2. ~Replaced => ReplacedGo'
        BY <1>1, <2>2 DEF ReplacedGo, AllDown
      <3> QED
        BY <3>1, <3>2
    <2>6. AllDown' \/ (Replaced' /\ srv'.att = "merge_failed")
      <3>1. CASE ~Replaced \/ AllDown
        BY <1>1, <2>2, <3>1 DEF AllDown
      <3>2. CASE Replaced /\ srv.att = "merge_failed"
        BY <2>1, <2>2, <3>2 DEF Replaced, Conferenced
      <3> QED
        BY <1>2, <3>1, <3>2
    <2>7. LegsLeft'
      BY <2>1, <2>6 DEF LegsLeft
    <2> QED
      BY <2>3, <2>4, <2>5, <2>7
  <1>3. ASSUME UNCHANGED <<outcome, repVars, pushes, talkVars, srv, run, netVars>>,
               AllDown, pc' \in {"top", "create"}, called' \in 0..MaxLeads
        PROVE  Inv'
    <2>1. UNCHANGED <<outcome, stopReq, pauseReq, skipReq, cmds, pushes, aiPresent,
                      handover, legsHidden, muted, muteBy, srv, run, leg, conf, hidden>>
      BY <1>3 DEF repVars, talkVars, netVars
    <2>2. TypeOK'
      BY <1>1, <1>3, <2>1 DEF TypeOK, PCs
    <2>3. AllDown'
      BY <1>3, <2>1 DEF AllDown, Up
    <2> QED
      BY <1>3, <2>2, <2>3
         DEF AttemptOpen, LegsSetUp, LegsKnown, LegsLeft, ReplacedGo, OutcomeReported,
             RepSilentBesideAi, Setup, Talking
  <1>4. CASE NextLead
    <2>1. pc = "top" /\ UNCHANGED <<outcome, repVars, pushes, talkVars, srv>> /\ AllDown
      BY <1>4 DEF NextLead, LegsLeft
    <2>2. CASE \E status \in {"stopped", "paused", "completed", "error"} :
                  Finish(status) /\ UNCHANGED called
      BY <1>2, <2>1, <2>2
    <2>3. CASE called < MaxLeads /\ pc' = "create" /\ called' = called + 1 /\ UNCHANGED <<run, netVars>>
      <3>1. called' \in 0..MaxLeads
        BY <1>1, <2>3, CallFlowAssumption DEF TypeOK
      <3> QED
        BY <1>3, <2>1, <2>3, <3>1
    <2> QED
      BY <1>4, <2>2, <2>3 DEF NextLead
  <1>5. CASE AfterLead
    <2>1. pc = "between" /\ UNCHANGED <<called, outcome, repVars, pushes, talkVars, srv>>
      BY <1>5 DEF AfterLead
    <2>2. CASE Finish("paused")
      BY <1>2, <2>1, <2>2 DEF LegsLeft
    <2>3. CASE outcome \notin {"setup_failed", "not_created"} /\ pc' = "top" /\ UNCHANGED <<run, netVars>>
      <3>1. AllDown /\ called' \in 0..MaxLeads
        BY <1>1, <2>1, <2>3 DEF LegsLeft, TypeOK
      <3> QED
        BY <1>3, <2>1, <2>3, <3>1
    <2> QED
      BY <1>5, <2>2, <2>3 DEF AfterLead
  <1>6. CASE CreateAttempt
    <2>1. /\ cmds' = <<>> /\ pushes' = <<>> /\ skipReq' = FALSE
          /\ conf' = "none" /\ hidden' = FALSE
          /\ aiPresent' = FALSE /\ handover' = FALSE /\ legsHidden' = FALSE
          /\ UNCHANGED <<run, called, stopReq, pauseReq, muted, muteBy>>
      BY <1>6 DEF CreateAttempt, Drained
    <2>2. \/ /\ pc' = "await_ai" /\ outcome' = outcome /\ srv' = Open
             /\ leg' = [ai |-> "dialing", lead |-> "none"]
          \/ /\ pc' = "between" /\ leg' = [ai |-> "none", lead |-> "none"]
             /\ \/ outcome' = "setup_failed" /\ srv' = [att |-> "ai_failed", lead |-> "pending"]
                \/ outcome' = "not_created" /\ srv' = [att |-> "none", lead |-> "leased"]
      BY <1>6, AppliedOpen DEF CreateAttempt, Open
    <2>3. leg' \in [Legs -> LegStates] /\ leg'["lead"] = "none" /\ (pc' = "between" => leg'["ai"] = "none")
      BY <2>2 DEF Legs, LegStates
    <2>4. TypeOK'
      <3>1. srv' \in ServerStates
        BY <2>2 DEF ServerStates, Open
      <3>2. pc' \in PCs
        BY <2>2 DEF PCs, InFlow, Setup
      <3>3. outcome' \in {"none", "completed", "lead_failed", "skipped", "setup_failed", "not_created"}
        BY <2>2 DEF TypeOK
      <3>4. cmds' \in Seq(Commands) /\ pushes' \in Seq(PushTypes)
        BY <2>1
      <3> QED
        BY <1>1, <2>1, <2>3, <3>1, <3>2, <3>3, <3>4 DEF TypeOK, ServerStates
    <2>5. AttemptOpen' /\ OutcomeReported'
      <3>1. AttemptOpen'
        BY <2>2 DEF AttemptOpen, Setup, Talking, Open
      <3>2. OutcomeReported'
        <4>1. CASE pc' = "await_ai"
          BY <4>1 DEF OutcomeReported
        <4>2. CASE outcome' = "setup_failed" /\ srv' = [att |-> "ai_failed", lead |-> "pending"]
          BY <4>2 DEF OutcomeReported
        <4>3. CASE outcome' = "not_created" /\ srv' = [att |-> "none", lead |-> "leased"]
          BY <4>3 DEF OutcomeReported
        <4> QED
          BY <2>2, <4>1, <4>2, <4>3
      <3> QED
        BY <3>1, <3>2
    <2>6. LegsSetUp' /\ LegsKnown' /\ ReplacedGo' /\ RepSilentBesideAi'
      BY <2>1, <2>2, <2>3 DEF LegsSetUp, LegsKnown, ReplacedGo, RepSilentBesideAi, Talking
    <2>7. LegsLeft'
      BY <2>2, <2>3 DEF LegsLeft, AllDown, Up
    <2> QED
      BY <2>4, <2>5, <2>6, <2>7
  <1> QED
    BY <1>4, <1>5, <1>6

----------------------------------------------------------------------------
(* The phone network, the pushes and the rep. *)

LEMMA NetworkStep ==
  ASSUME Inv,
         \/ \E l \in DOMAIN leg : LegAnswers(l) \/ LegDrops(l)
         \/ ConferenceForms \/ ConferenceLive
  PROVE  Inv'
  <1> USE DEF Inv
  <1>1. TypeOK /\ Legs = {"ai", "lead"} /\ leg \in [Legs -> LegStates] /\ DOMAIN leg = Legs
    BY DEF Legs, TypeOK
  <1>2. UNCHANGED <<pc, run, called, outcome, stopReq, pauseReq, skipReq, cmds, pushes, aiPresent,
                    handover, legsHidden, muted, muteBy, srv>>
    BY DEF LegAnswers, LegDrops, ConferenceForms, ConferenceLive, Net, loopVars, repVars, talkVars
  <1>3. ASSUME leg' \in [Legs -> LegStates], conf' \in {"none", "forming", "live", "gone"},
               hidden' \in BOOLEAN
        PROVE  TypeOK' /\ AttemptOpen' /\ OutcomeReported'
    <2>1. TypeOK'
      BY <1>1, <1>2, <1>3 DEF TypeOK, Legs
    <2>2. AttemptOpen'
      BY <1>2 DEF AttemptOpen
    <2>3. OutcomeReported'
      BY <1>2 DEF OutcomeReported
    <2> QED
      BY <2>1, <2>2, <2>3
  <1>4. CASE \E l \in DOMAIN leg : LegAnswers(l)
    <2>1. PICK l \in Legs : LegAnswers(l)
      BY <1>1, <1>4
    <2>2. /\ leg[l] = "dialing" /\ leg' \in [Legs -> LegStates] /\ leg'[l] = "active"
          /\ \A x \in Legs \ {l} : leg'[x] = leg[x]
          /\ UNCHANGED <<conf, hidden>> /\ conf' \in {"none", "forming", "live", "gone"}
          /\ hidden' \in BOOLEAN
      BY <1>1, <2>1 DEF LegAnswers, LegStates, TypeOK
    <2>3. \A x \in Legs : Up(x)' <=> Up(x)
      BY <2>2 DEF Up
    <2>4. leg["lead"] = "none" => leg'["lead"] = "none"
      BY <1>1, <2>2
    <2>5. LegsSetUp' /\ ReplacedGo' /\ LegsKnown' /\ LegsLeft' /\ RepSilentBesideAi'
      BY <1>1, <1>2, <2>2, <2>3, <2>4
         DEF LegsSetUp, ReplacedGo, LegsKnown, LegsLeft, RepSilentBesideAi, AllDown, Conferenced,
             Replaced
    <2> QED
      BY <1>3, <2>2, <2>5
  <1>5. CASE \E l \in DOMAIN leg : LegDrops(l)
    <2>1. PICK l \in Legs : LegDrops(l)
      BY <1>1, <1>5
    <2>2. /\ leg' \in [Legs -> LegStates] /\ hidden' = hidden
          /\ \A x \in Legs : leg'[x] \in {leg[x], "gone"}
          /\ Up(l) /\ leg'[l] = "gone"
          /\ \/ UNCHANGED conf
             \/ ~Conferenced /\ conf' = conf
             \/ Conferenced /\ conf' = "gone" /\ ~hidden
             \/ Conferenced /\ conf' = "gone" /\ hidden /\ \A x \in Legs : leg'[x] = "gone"
      BY <1>1, <2>1 DEF LegDrops, LegStates
    <2>3. (\A x \in Legs : Up(x)' => Up(x)) /\ Up(l) /\ ~AllDown
      BY <1>1, <2>2 DEF Up, AllDown
    <2>4. /\ conf' \in {conf, "gone"} /\ (~Conferenced => conf' = conf)
          /\ hidden /\ ~Conferenced' => AllDown'
      BY <1>1, <2>2, <2>3 DEF ReplacedGo, AllDown, Conferenced, Up
    <2>5. LegsSetUp'
      <3>1. pc \in {"await_ai", "await_ready", "deciding", "dial_lead"} => leg'["lead"] = "none"
        <4>1. pc \in {"await_ai", "await_ready", "deciding", "dial_lead"} =>
                 conf = "none" /\ leg["lead"] = "none"
          BY DEF LegsSetUp, Setup
        <4>2. leg["lead"] = "none" => l = "ai"
          BY <1>1, <2>3 DEF Up
        <4>3. conf = "none" /\ l = "ai" => leg'["lead"] = leg["lead"]
          BY <1>1, <2>1 DEF LegDrops, Conferenced
        <4> QED
          BY <4>1, <4>2, <4>3
      <3> QED
        BY <1>2, <2>2, <2>4, <3>1 DEF LegsSetUp, Conferenced
    <2>6. ReplacedGo' /\ LegsKnown' /\ RepSilentBesideAi'
      BY <1>1, <1>2, <2>2, <2>3, <2>4 DEF ReplacedGo, LegsKnown, RepSilentBesideAi
    <2>7. LegsLeft'
      <3>1. Replaced' => Replaced
        BY <2>2, <2>4 DEF Replaced, Conferenced
      <3>2. Replaced => Replaced' \/ AllDown'
        BY <2>2, <2>4 DEF Replaced
      <3> QED
        BY <1>2, <2>3, <3>1, <3>2 DEF LegsLeft
    <2> QED
      <3>1. conf' \in {"none", "forming", "live", "gone"} /\ hidden' \in BOOLEAN
        BY <1>1, <2>2, <2>4 DEF TypeOK
      <3> QED
        BY <1>3, <2>2, <2>5, <2>6, <2>7, <3>1
  <1>6. CASE ConferenceForms
    <2>1. pc = "merging" /\ conf' = "forming" /\ hidden' \in BOOLEAN /\ UNCHANGED leg
      BY <1>6 DEF ConferenceForms
    <2>2. Conferenced'
      BY <2>1 DEF Conferenced
    <2>3. LegsSetUp' /\ ReplacedGo' /\ LegsKnown' /\ LegsLeft' /\ RepSilentBesideAi'
      BY <1>2, <2>1, <2>2 DEF LegsSetUp, ReplacedGo, LegsKnown, LegsLeft, RepSilentBesideAi, Talking
    <2> QED
      BY <1>1, <1>3, <2>1, <2>3
  <1>7. CASE ConferenceLive
    <2>1. conf = "forming" /\ conf' = "live" /\ UNCHANGED <<leg, hidden>>
      BY <1>7 DEF ConferenceLive
    <2>2. LegsSetUp' /\ ReplacedGo' /\ LegsKnown' /\ LegsLeft' /\ RepSilentBesideAi'
      BY <1>2, <2>1
         DEF LegsSetUp, ReplacedGo, LegsKnown, LegsLeft, RepSilentBesideAi, AllDown, Up,
             Conferenced, Replaced
    <2> QED
      BY <1>1, <1>3, <2>1, <2>2 DEF TypeOK
  <1> QED
    BY <1>4, <1>5, <1>6, <1>7

(* Pushes, commands and the buttons of the run only set what is read later. *)
LEMMA InputStep ==
  ASSUME Inv,
         \/ \E type \in PushTypes : PushArrives(type)
         \/ \E command \in Commands : Send(command)
         \/ Ask \/ UNCHANGED vars
  PROVE  Inv'
  <1> USE DEF Inv
  <1>1. UNCHANGED <<pc, run, called, outcome, aiPresent, handover, legsHidden, muted, muteBy,
                    leg, conf, hidden, srv>>
    BY DEF PushArrives, Send, Ask, vars, loopVars, repVars, talkVars, netVars
  <1>2. /\ stopReq' \in BOOLEAN /\ pauseReq' \in BOOLEAN /\ skipReq' \in BOOLEAN
        /\ cmds' \in Seq(Commands) /\ pushes' \in Seq(PushTypes)
    <2>1. CASE \E type \in PushTypes : PushArrives(type)
      <3>1. PICK type \in PushTypes : PushArrives(type)
        BY <2>1
      <3>2. pushes' = Append(pushes, type) /\ UNCHANGED <<stopReq, pauseReq, skipReq, cmds>>
        BY <3>1 DEF PushArrives, repVars
      <3> QED
        BY <3>2 DEF TypeOK
    <2>2. CASE \E command \in Commands : Send(command)
      <3>1. PICK command \in Commands : Send(command)
        BY <2>2
      <3>2. /\ cmds' = Append(cmds, command) /\ skipReq' = (skipReq \/ command = "SKIP")
            /\ UNCHANGED <<stopReq, pauseReq, pushes>>
        BY <3>1 DEF Send
      <3> QED
        BY <3>2 DEF TypeOK
    <2>3. CASE Ask
      BY <2>3 DEF Ask, TypeOK
    <2>4. CASE UNCHANGED vars
      BY <2>4 DEF vars, repVars, TypeOK
    <2> QED
      BY <2>1, <2>2, <2>3, <2>4
  <1>3. TypeOK'
    BY <1>1, <1>2 DEF TypeOK
  <1>4. AttemptOpen' /\ LegsSetUp' /\ ReplacedGo' /\ LegsKnown' /\ LegsLeft'
    BY <1>1 DEF AttemptOpen, LegsSetUp, ReplacedGo, LegsKnown, LegsLeft, AllDown, Up, Replaced,
                Conferenced
  <1>5. OutcomeReported'
    BY <1>1 DEF OutcomeReported
  <1>6. RepSilentBesideAi'
    BY <1>1 DEF RepSilentBesideAi, Up
  <1> QED
    BY <1>3, <1>4, <1>5, <1>6

LEMMA NextInv == Inv /\ [Next]_vars => Inv'
  BY SetupStep, MergedStep, ConverseStep, LoopStep, NetworkStep, InputStep DEF Next, SetUp

LEMMA InvHolds == Spec => []Inv
  BY InitInv, NextInv, PTL DEF Spec

(* Every variable of the run, the call, the network and the server keeps    *)
(* its type.                                                                *)
THEOREM CallTypeCorrect == Spec => []TypeOK
  BY InvHolds, PTL DEF Inv

(* When the next lead is fetched and when the run has ended, no leg of the  *)
(* last call is up (the exits of flow(), converse() and hangUpExpected),    *)
(* except in the conference of a merge given up on a stack that hides its   *)
(* legs.                                                                    *)
THEOREM LeavesNoLeg == Spec => []NoLegLeftBehind
  <1>1. Inv => NoLegLeftBehind
    <2> SUFFICES ASSUME Inv, pc \in {"top", "over"},
                        ~(srv.att = "merge_failed" /\ hidden /\ Conferenced)
                 PROVE  \A l \in DOMAIN leg : ~Up(l)
      BY DEF NoLegLeftBehind
    <2>1. DOMAIN leg = {"ai", "lead"}
      BY DEF Inv, TypeOK
    <2> QED
      BY <2>1 DEF Inv, LegsLeft, AllDown, Replaced
  <1> QED
    BY <1>1, InvHolds, PTL

(* However a call ends, the events reported leave the server with the       *)
(* outcome that the app saw (runLead's outcome and _apply_event).           *)
THEOREM ReportsOutcome == Spec => []OutcomeReported
  BY InvHolds, PTL DEF Inv

(* The rep's microphone is open beside the AI only by the rep's own hand,   *)
(* or beside a leg that the stack hides after a hand-over (setMuted in      *)
(* converse()).                                                             *)
THEOREM KeepsRepSilent == Spec => []RepSilentBesideAi
  BY InvHolds, PTL DEF Inv

(* Once the rep has asked to take over, or the AI has left, the app hangs   *)
(* up on the lead only on the rep's command (converse(), where AiEnded with *)
(* rep_takeover or a hand-over pending completes the hand-over).            *)
THEOREM KeepsLead == Spec => LeadKeptAfterTakeOver
  <1>1. Inv /\ [Next]_vars =>
           [(handover \/ ~aiPresent) /\ pc \in {"talking", "checking"} /\ HangsUpOnLead
              => (cmds # <<>> /\ Head(cmds) \in {"HANG_UP", "SKIP"})]_vars
    <2> SUFFICES ASSUME Inv, Next, handover \/ ~aiPresent, pc \in {"talking", "checking"},
                        pc' = "between", Up("lead"), leg'["lead"] = "gone"
                 PROVE  cmds # <<>> /\ Head(cmds) \in {"HANG_UP", "SKIP"}
      BY DEF HangsUpOnLead
    <2>1. TypeOK
      BY DEF Inv
    <2>2. pc \notin Setup \cup {"top", "create", "between"} /\ pc' # pc /\ pc' \notin {"talking", "checking"}
      BY DEF Setup
    <2>3. OnCommand \/ OnPush \/ LeadDisconnected
      <3>1. ~(NextLead \/ CreateAttempt \/ AfterLead)
        BY <2>2 DEF NextLead, CreateAttempt, AfterLead
      <3>2. ~(SetUp \/ Timeouts)
        BY <2>2 DEF SetUp, Timeouts, AwaitAi, AwaitReady, AiNotReady, MergeAnyway, DialLead,
             LeadAnswers, RingSkipped, LeadGone, OtherLegLost, RingPush, MergeImpossible, Merged,
             MergeFails, AiNotAnswered, ReadyDeadline, NotMerged, RingTimeout, Goto, Skip, Exit,
             Setup
      <3>3. ~(Tick \/ AiDisconnected \/ Continue \/ HandoverTimeout)
        BY <2>2 DEF Tick, AiDisconnected, Continue, HandoverTimeout, Handled, Goto
      <3>4. ~(ConferenceForms \/ ConferenceLive \/ \E l \in DOMAIN leg : LegAnswers(l) \/ LegDrops(l))
        BY <2>2 DEF ConferenceForms, ConferenceLive, LegAnswers, LegDrops, Net, loopVars
      <3>5. ~(Ask \/ (\E type \in PushTypes : PushArrives(type))
                 \/ (\E command \in Commands : Send(command)))
        BY <2>2 DEF Ask, PushArrives, Send, loopVars
      <3> QED
        BY <3>1, <3>2, <3>3, <3>4, <3>5 DEF Next, Converse
    <2>4. CASE OnCommand
      BY <2>2, <2>4 DEF OnCommand, Handled, Ends
    <2>5. CASE OnPush
      BY <2>2, <2>5 DEF OnPush, Handled, IsHandover
    <2>6. CASE LeadDisconnected
      <3>1. Disconnect(IF aiPresent THEN {"ai"} ELSE {})
        BY <2>6 DEF LeadDisconnected
      <3>2. leg'["lead"] = leg["lead"]
        BY <2>1, <3>1, Disconnected DEF Legs
      <3> QED
        BY <3>2 DEF Up
    <2> QED
      BY <2>3, <2>4, <2>5, <2>6
  <1> QED
    BY <1>1, InvHolds, PTL DEF Spec, LeadKeptAfterTakeOver
=============================================================================
