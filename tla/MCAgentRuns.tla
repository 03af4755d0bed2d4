----------------------------- MODULE MCAgentRuns -----------------------------
(* Small instances of AgentRuns for TLC.                                    *)
EXTENDS AgentRuns, TLC

Symmetry == Permutations(Children) \cup Permutations(Steps)
=============================================================================
