--------------------------- MODULE MCMobileBackend ---------------------------
(* Small instances of MobileBackend for TLC.                                *)
EXTENDS MobileBackend, TLC

OwnPhone   == [l \in Leads |-> l]               \* every lead its own number

Symmetry == Permutations(Devices) \cup Permutations(Leads) \cup Permutations(Runs)
            \cup Permutations(Attempts)
=============================================================================
