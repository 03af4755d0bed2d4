---------------------------- MODULE MCEventOutbox ----------------------------
(* Small instances of EventOutbox for TLC.                                  *)
EXTENDS EventOutbox, TLC
=============================================================================
