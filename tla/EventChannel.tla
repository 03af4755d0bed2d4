---------------------------- MODULE EventChannel ----------------------------
(****************************************************************************)
(* What the app's outbox and the server's ingestion promise together about  *)
(* the events of a call attempt: the server applies each of them once, in   *)
(* the order in which the phone recorded them, and never one before those   *)
(* that precede it.  The channel of an attempt may fall silent for good (an *)
(* update of the app or a change of the rep loses the rest), but what has   *)
(* been applied is always a beginning of what was recorded.                 *)
(****************************************************************************)
EXTENDS Naturals

CONSTANT Attempts

VARIABLES recorded,      \* attempt -> how many events the phone has recorded
          delivered      \* attempt -> the positions of those the server has applied

chanVars == <<recorded, delivered>>

Init ==
    /\ recorded  = [a \in Attempts |-> 0]
    /\ delivered = [a \in Attempts |-> {}]

Record(a) ==
    /\ recorded' = [recorded EXCEPT ![a] = @ + 1]
    /\ UNCHANGED delivered

(* One request may apply several events at once: up to the n-th. *)
Deliver(a, n) ==
    /\ n \in 1 .. recorded[a]
    /\ n \notin delivered[a]
    /\ delivered' = [delivered EXCEPT ![a] = 1 .. n]
    /\ UNCHANGED recorded

Next == \E a \in Attempts : Record(a) \/ \E n \in 1 .. recorded[a] : Deliver(a, n)

Spec == Init /\ [][Next]_chanVars
=============================================================================
