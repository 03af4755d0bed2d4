---------------------------- MODULE MCStepEngine ----------------------------
EXTENDS StepEngine

None == [s \in Step |-> {}]

\* Independent steps, a chain, a diamond's lower half, references inside a
\* batch, two references to each other, and a cycle of dependencies.
MCPlans ==
  { [deps |-> None, refs |-> None],
    [deps |-> [None EXCEPT ![2] = {1}, ![3] = {2}], refs |-> None],
    [deps |-> [None EXCEPT ![2] = {1}, ![3] = {1}], refs |-> None],
    [deps |-> None, refs |-> [None EXCEPT ![3] = {1, 2}]],
    [deps |-> None, refs |-> [None EXCEPT ![2] = {3}, ![3] = {2}]],
    [deps |-> [None EXCEPT ![2] = {3}, ![3] = {2}], refs |-> None] }
=============================================================================
