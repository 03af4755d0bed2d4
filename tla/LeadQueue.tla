------------------------------ MODULE LeadQueue ------------------------------
(****************************************************************************)
(* What a mobile campaign promises about each of its leads, with no attempt, *)
(* gateway, run or clock in sight.  A lead waits in the queue, is held by    *)
(* one phone, is talked to, and is closed.  It is talked to only from the    *)
(* hands of a phone, and once closed it is called again only because a rep   *)
(* booked a callback.  Every stage may be abandoned for the one before it or *)
(* closed outright.                                                          *)
(****************************************************************************)
CONSTANTS Devices, Leads, Nobody

VARIABLES stage,    \* stage[l] : where lead l stands
          holder,   \* holder[l] : the phone that holds l, or Nobody
          wanted    \* wanted[l] : a callback to l is booked

vars == <<stage, holder, wanted>>

Stages == {"queued", "held", "talking", "closed"}

TypeOK == /\ stage \in [Leads -> Stages]
          /\ holder \in [Leads -> Devices \cup {Nobody}]
          /\ wanted \in [Leads -> BOOLEAN]

Init == /\ stage = [l \in Leads |-> "queued"]
        /\ holder = [l \in Leads |-> Nobody]
        /\ wanted = [l \in Leads |-> FALSE]

Keep(l)    == stage'[l] = stage[l] /\ holder'[l] = holder[l]

(* From the queue, or from a holder whose time ran out.                     *)
Hold(l)    == /\ stage[l] \in {"queued", "held"}
              /\ stage'[l] = "held" /\ holder'[l] \in Devices

Release(l) == /\ stage[l] = "held"
              /\ stage'[l] = "queued" /\ holder'[l] = Nobody

Talk(l)    == /\ stage[l] = "held"
              /\ stage'[l] = "talking" /\ holder'[l] = Nobody

Close(l)   == stage'[l] = "closed" /\ holder'[l] = Nobody

(* A rep books a callback: the only way back for a lead that was closed.    *)
Requeue(l) == /\ stage'[l] = "queued" /\ holder'[l] = Nobody
              /\ wanted'[l]

Move(l) == Keep(l) \/ Hold(l) \/ Release(l) \/ Talk(l) \/ Close(l) \/ Requeue(l)

(* One request moves many leads (a phone gives back what it held), but it   *)
(* puts at most one into a phone's hands.                                   *)
NewlyHeld(l) == stage'[l] = "held" /\ holder'[l] # holder[l]

Next == /\ DOMAIN stage' = Leads /\ DOMAIN holder' = Leads
        /\ wanted' \in [Leads -> BOOLEAN]
        /\ \A l \in Leads : Move(l)
        /\ \A l, m \in Leads : NewlyHeld(l) /\ NewlyHeld(m) => l = m

Spec == Init /\ [][Next]_vars
=============================================================================
