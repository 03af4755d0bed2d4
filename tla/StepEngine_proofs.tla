-------------------------- MODULE StepEngine_proofs --------------------------
(****************************************************************************)
(* Theorems about StepEngine, for every set of plans, every number of steps, *)
(* every bound on the iterations and every cost.                             *)
(****************************************************************************)
EXTENDS StepEngine, FiniteSetTheorems, WellFoundedInduction, TLAPS

(* The step the loop takes from a list of steps is one of them.             *)
LEMMA FirstStep ==
  ASSUME NEW S \in SUBSET Step, S # {}
  PROVE  Min(S) \in S
  <1>1. Step \subseteq Nat
    BY DEF Step
  <1>2. S \in SUBSET Nat
    BY <1>1
  <1> DEFINE Less == OpToRel(<, Nat)
  <1>3. \A x, y \in Nat : x < y => <<x, y>> \in Less
    BY DEF OpToRel
  <1>4. IsWellFoundedOn(Less, Nat)
    BY NatLessThanWellFounded
  <1> HIDE DEF Less
  <1>5. \E x \in S : \A y \in S : ~ (<<y, x>> \in Less)
    BY <1>2, <1>4, WFMin, Zenon
  <1>6. \E x \in S : \A y \in S : x <= y
    <2>1. PICK x \in S : \A y \in S : ~ (<<y, x>> \in Less)
      BY <1>5
    <2>2. ASSUME NEW y \in S PROVE x <= y
      <3>1. x \in Nat /\ y \in Nat
        BY <1>2
      <3>2. ~ (y < x)
        BY <1>3, <2>1, <3>1
      <3> QED
        BY <3>1, <3>2
    <2> QED
      BY <2>2
  <1> QED
    BY <1>6 DEF Min

(* The wider of two batches.                                                *)
LEMMA Wider ==
  ASSUME NEW m \in Nat, NEW n \in Nat
  PROVE  /\ Max({m, n}) \in Nat
         /\ Max({m, n}) >= m /\ Max({m, n}) >= n
         /\ Max({m, n}) \in {m, n}
  <1>1. \E x \in {m, n} : \A y \in {m, n} : x >= y
    <2>1. CASE m >= n
      BY <2>1
    <2>2. CASE n >= m
      BY <2>2
    <2> QED
      BY <2>1, <2>2
  <1>2. Max({m, n}) \in {m, n} /\ \A y \in {m, n} : Max({m, n}) >= y
    BY <1>1 DEF Max
  <1> QED
    BY <1>2

(* A batch is a finite set, at most as large as the plan.                   *)
LEMMA BatchSize ==
  ASSUME NEW S \in SUBSET Step
  PROVE  /\ IsFiniteSet(S) /\ Cardinality(S) \in Nat
         /\ Cardinality(S) <= NumSteps
  <1>1. /\ IsFiniteSet(Step) /\ Cardinality(Step) = NumSteps
    <2>1. 1 \in Int /\ NumSteps \in Int /\ ~(1 > NumSteps)
      BY StepEngineAssumption
    <2> QED
      BY <2>1, FS_Interval, StepEngineAssumption DEF Step
  <1>2. IsFiniteSet(S) /\ Cardinality(S) <= NumSteps
    BY <1>1, FS_Subset
  <1> QED
    BY <1>2, FS_CardinalityType

-----------------------------------------------------------------------------
(* Between two calls nothing of a call is left and the budget allows one     *)
(* iteration more; during a call the run is running.                         *)
CallShape ==
  /\ call = "none" => /\ fragment = {} /\ done = {} /\ ids = {}
                      /\ batch = Idle /\ stalled = FALSE
  /\ call = "none" /\ status = "RUNNING" => iteration < MaxIterations
  /\ call # "none" => status = "RUNNING"
  /\ call = "single" => done = {}

(* What the loop marks complete has an output in the context, and a call     *)
(* only adds to its copy of the context.                                     *)
ContextKept ==
  /\ CompletedHasOutput
  /\ call # "none" => context \subseteq ctx
  /\ call = "dag" => ids \subseteq ctx

(* A call works on ready steps; it does not run those it found an output of, *)
(* and a batch waits for what it needs.                                      *)
BatchReady ==
  /\ fragment \subseteq ReadySteps
  /\ call = "dag" => /\ fragment \intersect context \subseteq done
                     /\ \A s \in Step : batch[s] # "out" =>
                          s \notin done /\ (~stalled => Needs(s) \subseteq done)

Inv == TypeOK /\ CallShape /\ ContextKept /\ BatchReady

LEMMA InitInv == Init => Inv
  <1> SUFFICES ASSUME Init PROVE Inv
    OBVIOUS
  <1> USE DEF Init
  <1>1. batch \in [Step -> {"out"}]
    BY DEF Idle
  <1>2. TypeOK
    <2>1. /\ {s \in Step : batch[s] # "out"} \subseteq fragment
          /\ batch \in [Step -> {"out", "waiting", "running"} \union Outcome]
      BY <1>1 DEF Idle
    <2>2. /\ iteration \in 0..MaxIterations /\ spent \in Nat
          /\ blind \in 0..MaxBlind /\ widest \in 0..NumSteps
      BY StepEngineAssumption
    <2> QED
      BY <2>1, <2>2 DEF TypeOK
  <1>3. CallShape
    BY StepEngineAssumption DEF CallShape
  <1>4. ContextKept /\ BatchReady
    BY <1>1 DEF ContextKept, CompletedHasOutput, BatchReady
  <1> QED
    BY <1>2, <1>3, <1>4 DEF Inv

(* A decision is a status, and lets the run go on below the bound only.      *)
LEMMA Decision ==
  ASSUME NEW n \in Nat, NEW marked, spent \in Nat
  PROVE  /\ Decided(n, marked) \in {"RUNNING", "COMPLETED", "FAILED"}
         /\ Decided(n, marked) = "RUNNING" => n < MaxIterations
  BY StepEngineAssumption DEF Decided, Exhausted

(* The end of a call leaves nothing of it behind.                            *)
LEMMA CallEnds ==
  ASSUME Inv, call # "none",
         NEW held \in SUBSET Step, NEW marked \in SUBSET Step,
         context \subseteq held, marked \subseteq held,
         EndOfCall(held, marked)
  PROVE  Inv'
  <1> USE DEF EndOfCall, Inv, costVars
  <1>1. iteration \in Nat /\ spent \in Nat
    BY DEF TypeOK
  <1>2. /\ status' \in {"RUNNING", "COMPLETED", "FAILED"}
        /\ status' = "RUNNING" => iteration < MaxIterations
    BY <1>1, Decision
  <1>3. batch' \in [Step -> {"out"}]
    BY DEF Idle
  <1>4. TypeOK'
    <2>1. /\ ({s \in Step : batch[s] # "out"} \subseteq fragment)'
          /\ batch' \in [Step -> {"out", "waiting", "running"} \union Outcome]
      BY <1>3 DEF Idle
    <2> QED
      BY <1>2, <2>1 DEF TypeOK
  <1>5. CallShape'
    BY <1>2 DEF CallShape, Idle
  <1>6. ContextKept'
    BY DEF ContextKept, CompletedHasOutput
  <1>7. BatchReady'
    BY DEF BatchReady
  <1> QED
    BY <1>4, <1>5, <1>6, <1>7

(* An iteration begins.                                                      *)
LEMMA MoveInv ==
  ASSUME Inv, NothingReady \/ SingleMove \/ DagMove
  PROVE  Inv'
  <1> USE DEF Inv, BetweenMoves
  <1>1. /\ call = "none" /\ status = "RUNNING" /\ fragment = {} /\ done = {}
        /\ ids = {} /\ batch = Idle /\ stalled = FALSE
        /\ iteration \in Nat /\ iteration + 1 \in 0..MaxIterations
        /\ spent \in Nat /\ widest \in 0..NumSteps
        /\ batch \in [Step -> {"out", "waiting", "running"} \union Outcome]
    BY StepEngineAssumption DEF NothingReady, SingleMove, DagMove, CallShape, TypeOK
  <1>2. CASE NothingReady
    <2> USE <1>2 DEF NothingReady, callVars, costVars
    <2>1. /\ status' \in {"RUNNING", "COMPLETED", "FAILED"}
          /\ status' = "RUNNING" => iteration' < MaxIterations
      BY <1>1, Decision
    <2>2. TypeOK'
      BY <1>1, <2>1 DEF TypeOK, Idle
    <2>3. CallShape'
      BY <1>1, <2>1 DEF CallShape, Idle
    <2>4. ContextKept' /\ BatchReady'
      BY <1>1 DEF ContextKept, CompletedHasOutput, BatchReady
    <2> QED
      BY <2>2, <2>3, <2>4
  <1>3. CASE SingleMove
    <2> DEFINE f == Min(ReadySteps)
    <2>1. f \in ReadySteps /\ f \in Step
      <3>1. ReadySteps \in SUBSET Step /\ ReadySteps # {}
        BY <1>3 DEF ReadySteps, SingleMove
      <3> QED
        BY <3>1, FirstStep
    <2>2. /\ call' = "single" /\ fragment' = {f} /\ ctx' = context
          /\ batch' = [Idle EXCEPT ![f] = "waiting"] /\ iteration' = iteration + 1
          /\ widest' = Max({widest, 1})
          /\ UNCHANGED <<plan, status, completed, context, done, ids, stalled,
                         spent, blind>>
      BY <1>3 DEF SingleMove, costVars
    <2> HIDE DEF f
    <2>3. /\ batch' \in [Step -> {"out", "waiting", "running"} \union Outcome]
          /\ \A s \in Step : batch'[s] # "out" => s = f
      BY <2>1, <2>2 DEF Idle
    <2>4. widest' \in 0..NumSteps
      BY <1>1, <2>2, Wider, StepEngineAssumption
    <2>5. TypeOK'
      BY <1>1, <2>1, <2>2, <2>3, <2>4 DEF TypeOK
    <2>6. CallShape'
      BY <1>1, <2>2 DEF CallShape
    <2>7. ContextKept'
      BY <2>2 DEF ContextKept, CompletedHasOutput
    <2>8. BatchReady'
      BY <2>1, <2>2 DEF BatchReady, ReadySteps
    <2> QED
      BY <2>5, <2>6, <2>7, <2>8
  <1>4. CASE DagMove
    <2>1. /\ call' = "dag" /\ fragment' = ReadySteps /\ ctx' = context
          /\ done' = ReadySteps \intersect context /\ iteration' = iteration + 1
          /\ UNCHANGED <<plan, status, completed, context, ids, stalled, batch,
                         spent, blind, widest>>
      BY <1>4 DEF DagMove, costVars, AlreadyHeld
    <2>2. \A s \in Step : batch'[s] = "out"
      BY <1>1, <2>1 DEF Idle
    <2>3. ReadySteps \subseteq Step /\ ReadySteps' = ReadySteps
      BY <2>1 DEF ReadySteps
    <2>4. TypeOK'
      BY <1>1, <2>1, <2>2, <2>3 DEF TypeOK
    <2>5. CallShape'
      BY <1>1, <2>1 DEF CallShape
    <2>6. ContextKept'
      BY <1>1, <2>1 DEF ContextKept, CompletedHasOutput
    <2>7. BatchReady'
      BY <2>1, <2>2, <2>3 DEF BatchReady
    <2> QED
      BY <2>4, <2>5, <2>6, <2>7
  <1> QED
    BY <1>2, <1>3, <1>4

(* A step of the batch starts, is refused or ends.                           *)
LEMMA StepInv ==
  ASSUME Inv, NEW s \in Step, StartStep(s) \/ RefuseStep(s) \/ EndStep(s)
  PROVE  Inv'
  <1> USE DEF Inv
  <1>1. /\ batch[s] # "out"
        /\ \E x \in {"running"} \union Outcome : batch' = [batch EXCEPT ![s] = x]
        /\ UNCHANGED <<plan, iteration, status, completed, context, call, fragment,
                       done, ctx, ids, stalled, widest>>
    BY DEF StartStep, RefuseStep, EndStep, loopVars, Outcome, costVars
  <1>2. /\ batch' \in [Step -> {"out", "waiting", "running"} \union Outcome]
        /\ \A t \in Step : batch'[t] # "out" => batch[t] # "out"
    BY <1>1 DEF TypeOK
  <1>3. spent' \in Nat /\ blind' \in 0..MaxBlind
    <2>1. CASE StartStep(s)
      BY <2>1, StepEngineAssumption DEF StartStep, CapAllows, TypeOK
    <2>2. CASE RefuseStep(s)
      BY <2>2 DEF RefuseStep, costVars, TypeOK
    <2>3. CASE EndStep(s)
      BY <2>3, StepEngineAssumption DEF EndStep, TypeOK
    <2> QED
      BY <2>1, <2>2, <2>3
  <1>5. TypeOK'
    BY <1>1, <1>2, <1>3 DEF TypeOK
  <1>6. CallShape'
    <2>1. call # "none"
      BY <1>1 DEF CallShape, Idle
    <2> QED
      BY <1>1, <2>1 DEF CallShape
  <1>7. ContextKept'
    BY <1>1 DEF ContextKept, CompletedHasOutput
  <1>8. BatchReady'
    BY <1>1, <1>2 DEF BatchReady, ReadySteps, Needs
  <1> QED
    BY <1>5, <1>6, <1>7, <1>8

(* The next batch is taken from what is left of the fragment; without a      *)
(* stall it only holds steps whose needs are done.                           *)
LEMMA NextBatchInv ==
  ASSUME Inv, NextBatch
  PROVE  Inv'
  <1> USE DEF Inv
  <1> DEFINE next == IF stalled' THEN {Min(fragment \ done)} ELSE DagReady
  <1>1. /\ call = "dag" /\ stalled' \in BOOLEAN
        /\ batch' = [s \in Step |-> IF s \in next THEN "waiting" ELSE "out"]
        /\ widest' = Max({widest, Cardinality(next)})
        /\ UNCHANGED <<plan, iteration, status, completed, context, call, fragment,
                       done, ctx, ids, spent, blind>>
    BY DEF NextBatch, loopVars, costVars
  <1>2. /\ next \subseteq fragment \ done /\ next \subseteq Step
        /\ ~stalled' => next \subseteq DagReady
    <2>1. fragment \ done \in SUBSET Step /\ fragment \ done # {}
      BY DEF NextBatch, TypeOK
    <2>2. Min(fragment \ done) \in fragment \ done
      BY <2>1, FirstStep
    <2> QED
      BY <2>1, <2>2 DEF DagReady
  <1> HIDE DEF next
  <1>3. /\ batch' \in [Step -> {"out", "waiting", "running"} \union Outcome]
        /\ \A s \in Step : batch'[s] # "out" => s \in next
    BY <1>1
  <1>4. widest' \in 0..NumSteps
    <2>1. Cardinality(next) \in Nat /\ Cardinality(next) <= NumSteps
      BY <1>2, BatchSize
    <2>2. widest \in Nat /\ widest <= NumSteps
      BY StepEngineAssumption DEF TypeOK
    <2>3. widest' \in Nat /\ widest' \in {widest, Cardinality(next)}
      BY <1>1, <2>1, <2>2, Wider
    <2> QED
      BY <2>1, <2>2, <2>3, StepEngineAssumption
  <1>5. TypeOK'
    BY <1>1, <1>2, <1>3, <1>4 DEF TypeOK
  <1>6. CallShape'
    BY <1>1 DEF CallShape
  <1>7. ContextKept'
    BY <1>1 DEF ContextKept, CompletedHasOutput
  <1>8. BatchReady'
    BY <1>1, <1>2, <1>3 DEF BatchReady, ReadySteps, Needs, DagReady
  <1> QED
    BY <1>5, <1>6, <1>7, <1>8

(* A batch is merged into the call.                                          *)
LEMMA MergeInv ==
  ASSUME Inv, BatchMerges
  PROVE  Inv'
  <1> USE DEF Inv
  <1>1. /\ call = "dag" /\ batch' = Idle
        /\ done' = done \union At(Outcome)
        /\ ctx' = ctx \union At({"ok", "timeout"})
        /\ ids' = ids \union At({"timeout"})
        /\ UNCHANGED <<plan, iteration, status, completed, context, call, fragment,
                       stalled, spent, blind, widest>>
    BY DEF BatchMerges, loopVars, costVars
  <1>2. /\ At(Outcome) \subseteq fragment
        /\ At({"ok", "timeout"}) \subseteq Step
        /\ At({"timeout"}) \subseteq At({"ok", "timeout"})
    BY DEF At, TypeOK, Outcome
  <1>3. /\ batch' \in [Step -> {"out", "waiting", "running"} \union Outcome]
        /\ \A s \in Step : batch'[s] = "out"
    BY <1>1 DEF Idle
  <1>4. TypeOK'
    BY <1>1, <1>2, <1>3 DEF TypeOK
  <1>5. CallShape'
    BY <1>1 DEF CallShape
  <1>6. ContextKept'
    BY <1>1, <1>2 DEF ContextKept, CompletedHasOutput
  <1>7. BatchReady'
    BY <1>1, <1>3 DEF BatchReady, ReadySteps
  <1> QED
    BY <1>4, <1>5, <1>6, <1>7

(* A call ends.                                                              *)
LEMMA EndInv ==
  ASSUME Inv, SingleEnds \/ DagRaises \/ DagReturns
  PROVE  Inv'
  <1>1. CASE SingleEnds
    <2> DEFINE finished == At({"ok", "error", "timeout"})
    <2>1. finished \in SUBSET Step /\ ctx \in SUBSET Step
      BY DEF At, Inv, TypeOK
    <2>2. call # "none" /\ context \subseteq ctx \union finished
      BY <1>1 DEF SingleEnds, Inv, ContextKept
    <2>3. EndOfCall(ctx \union finished, finished)
      BY <1>1 DEF SingleEnds
    <2> QED
      BY <2>1, <2>2, <2>3, CallEnds
  <1>2. CASE DagRaises
    <2>1. call # "none" /\ context \in SUBSET Step /\ EndOfCall(context, {})
      BY <1>2 DEF DagRaises, AfterRaise, Inv, TypeOK
    <2> QED
      BY <2>1, CallEnds
  <1>3. CASE DagReturns
    <2>1. /\ call # "none" /\ ctx \in SUBSET Step /\ ids \in SUBSET Step
          /\ context \subseteq ctx /\ ids \subseteq ctx /\ EndOfCall(ctx, ids)
      BY <1>3 DEF DagReturns, Inv, ContextKept, TypeOK
    <2> QED
      BY <2>1, CallEnds
  <1> QED
    BY <1>1, <1>2, <1>3

LEMMA NextInv == Inv /\ [Next]_vars => Inv'
  <1> SUFFICES ASSUME Inv, [Next]_vars PROVE Inv'
    OBVIOUS
  <1>1. CASE NothingReady \/ SingleMove \/ DagMove
    BY <1>1, MoveInv
  <1>2. CASE NextBatch
    BY <1>2, NextBatchInv
  <1>3. CASE BatchMerges
    BY <1>3, MergeInv
  <1>4. CASE SingleEnds \/ DagRaises \/ DagReturns
    BY <1>4, EndInv
  <1>5. ASSUME NEW s \in Step, StartStep(s) \/ RefuseStep(s) \/ EndStep(s)
        PROVE  Inv'
    BY <1>5, StepInv
  <1>6. CASE UNCHANGED vars
    BY <1>6 DEF vars, loopVars, callVars, costVars, Inv, TypeOK, CallShape, ContextKept,
                CompletedHasOutput, BatchReady, ReadySteps, Needs
  <1> QED
    BY <1>1, <1>2, <1>3, <1>4, <1>5, <1>6 DEF Next

LEMMA Invariance == Spec => []Inv
  BY InitInv, NextInv, PTL DEF Spec

-----------------------------------------------------------------------------
(* Every state of the loop and of its executors is well formed: in           *)
(* particular the iterations never pass the bound.                           *)
THEOREM TypeCorrect == Spec => []TypeOK
  <1>1. Inv => TypeOK
    BY DEF Inv
  <1> QED
    BY <1>1, Invariance, PTL

(* The loop never counts a step as complete whose output the context lost,   *)
(* however calls raise, time out or stall.                                   *)
THEOREM OutputsKept == Spec => []CompletedHasOutput
  <1>1. Inv => CompletedHasOutput
    BY DEF Inv, ContextKept
  <1> QED
    BY <1>1, Invariance, PTL

(* Only StartStep lets a waiting step run.                                   *)
LEMMA OnlyStartStep ==
  ASSUME Inv, Next, NEW s \in Step, Starts(s)
  PROVE  /\ call # "none" /\ s \in fragment /\ batch[s] # "out"
         /\ UNCHANGED <<plan, completed, context, call, fragment, done, stalled>>
  <1>1. batch[s] = "waiting" /\ batch'[s] = "running"
    BY DEF Starts
  <1>2. call # "none" /\ s \in fragment
    BY <1>1 DEF Inv, CallShape, Idle, TypeOK
  <1>3. UNCHANGED <<plan, completed, context, call, fragment, done, stalled>>
    <2>1. CASE \E t \in Step : StartStep(t) \/ RefuseStep(t) \/ EndStep(t)
      BY <2>1 DEF StartStep, RefuseStep, EndStep, loopVars
    <2>2. CASE NothingReady \/ SingleMove \/ DagMove
      BY <1>2, <2>2 DEF NothingReady, SingleMove, DagMove, BetweenMoves
    <2>3. CASE NextBatch \/ BatchMerges
      BY <1>1, <2>3 DEF NextBatch, BatchMerges, Idle
    <2>4. CASE SingleEnds \/ DagRaises \/ DagReturns
      BY <1>1, <2>4 DEF SingleEnds, DagRaises, AfterRaise, DagReturns, EndOfCall, Idle
    <2> QED
      BY <2>1, <2>2, <2>3, <2>4 DEF Next
  <1> QED
    BY <1>1, <1>2, <1>3

(* The order of the plan: no step runs before its dependencies are complete  *)
(* and, unless the call has stalled, before the steps of the call it names.  *)
THEOREM OrderKept == Spec => DependenciesFirst
  <1>1. ASSUME Inv, Next, NEW s \in Step, Starts(s)
        PROVE  /\ plan.deps[s] \subseteq completed
               /\ call = "dag" /\ ~stalled =>
                     (plan.refs[s] \intersect fragment) \ {s} \subseteq done
    BY <1>1, OnlyStartStep DEF Inv, BatchReady, ReadySteps, Needs
  <1>2. Inv /\ [Next]_vars =>
          [\A s \in Step : Starts(s) =>
             /\ plan.deps[s] \subseteq completed
             /\ call = "dag" /\ ~stalled =>
                   (plan.refs[s] \intersect fragment) \ {s} \subseteq done]_vars
    BY <1>1
  <1> QED
    BY <1>2, Invariance, PTL DEF Spec, DependenciesFirst

(* No step that is complete runs again, and the parallel executor runs none  *)
(* the context holds an output of.                                           *)
THEOREM RunOnce == Spec => NotRunAgain
  <1>1. ASSUME Inv, Next, NEW s \in Step, Starts(s)
        PROVE  s \notin completed /\ (call = "dag" => s \notin context)
    BY <1>1, OnlyStartStep DEF Inv, BatchReady, ReadySteps
  <1>2. Inv /\ [Next]_vars =>
          [\A s \in Step : Starts(s) => s \notin completed
                                       /\ (call = "dag" => s \notin context)]_vars
    BY <1>1
  <1> QED
    BY <1>2, Invariance, PTL DEF Spec, NotRunAgain

-----------------------------------------------------------------------------
(* The cost that the steps under way may still add is reserved already; no   *)
(* more steps are under way than the widest batch had.                       *)
Busy == {s \in Step : batch[s] # "out"}
Running == At({"running"})

SpendInv ==
  /\ Cardinality(Busy) <= widest
  /\ spent + MaxCost * Cardinality(Running) <= Cap - 1 + MaxCost * (widest + blind)

LEMMA Monotone ==
  ASSUME NEW m \in Nat, NEW a \in Nat, NEW b \in Nat, a <= b
  PROVE  m * a <= m * b /\ m * a \in Nat /\ m * b \in Nat
  <1>1. b - a \in Nat
    OBVIOUS
  <1>2. m * (b - a) \in Nat /\ m * a \in Nat /\ m * b \in Nat
    BY <1>1
  <1>3. m * (b - a) = m * b - m * a
    OBVIOUS
  <1> QED
    BY <1>2, <1>3

LEMMA AddBoth ==
  ASSUME NEW a \in Nat, NEW b \in Nat, NEW c \in Nat, b >= a
  PROVE  a + c \in Nat /\ b + c \in Nat /\ a + c <= b + c
  OBVIOUS

LEMMA OneMore ==
  ASSUME NEW m \in Nat, NEW n \in Nat
  PROVE  m * (n + 1) = m * n + m /\ m * n \in Nat
  OBVIOUS

LEMMA RunningSize ==
  ASSUME TypeOK
  PROVE  /\ Running \in SUBSET Busy /\ Busy \in SUBSET Step
         /\ IsFiniteSet(Running) /\ Cardinality(Running) \in Nat
         /\ IsFiniteSet(Busy) /\ Cardinality(Busy) \in Nat
         /\ Cardinality(Running) <= Cardinality(Busy)
  <1>1. Running \in SUBSET Busy /\ Busy \in SUBSET Step /\ Running \in SUBSET Step
    BY DEF Running, Busy, At
  <1>2. /\ IsFiniteSet(Running) /\ Cardinality(Running) \in Nat
        /\ IsFiniteSet(Busy) /\ Cardinality(Busy) \in Nat
    BY <1>1, BatchSize
  <1> QED
    BY <1>1, <1>2, FS_Subset

(* Where no step is under way afterwards, the bound is carried over.         *)
LEMMA NoneRunning ==
  ASSUME TypeOK, TypeOK', SpendInv, UNCHANGED <<spent, blind>>, widest' >= widest,
         Running' = {}, Cardinality(Busy') <= widest'
  PROVE  SpendInv'
  <1>1. /\ spent \in Nat /\ blind \in Nat /\ widest \in Nat /\ widest' \in Nat
        /\ Cap \in Nat /\ MaxCost \in Nat
    BY StepEngineAssumption DEF TypeOK
  <1>2. /\ MaxCost * (widest + blind) <= MaxCost * (widest' + blind)
        /\ MaxCost * (widest + blind) \in Nat /\ MaxCost * (widest' + blind) \in Nat
    <2>1. /\ widest + blind \in Nat /\ widest' + blind \in Nat
          /\ widest + blind <= widest' + blind
      BY <1>1, AddBoth
    <2> QED
      BY <1>1, <2>1, Monotone
  <1>3. MaxCost * Cardinality(Running) \in Nat
    BY <1>1, RunningSize, Monotone
  <1>4. MaxCost * Cardinality(Running') = 0
    BY <1>1, FS_EmptySet
  <1>5. spent + MaxCost * Cardinality(Running') <= Cap - 1 + MaxCost * (widest' + blind)
    BY <1>1, <1>2, <1>3, <1>4 DEF SpendInv
  <1> QED
    BY <1>5 DEF SpendInv

(* A step that starts reserves its cost: below the cap there is room for     *)
(* every step of the batch, above it a failed lookup makes the room.         *)
LEMMA StartSpend ==
  ASSUME Inv, SpendInv, NEW s \in Step, StartStep(s), TypeOK'
  PROVE  SpendInv'
  <1>1. /\ spent \in Nat /\ blind \in Nat /\ widest \in Nat /\ blind' \in Nat
        /\ Cap \in Nat /\ MaxCost \in Nat /\ spent' = spent /\ widest' = widest
    BY StepEngineAssumption DEF StartStep, Inv, TypeOK
  <1>2. Running' = Running \union {s} /\ s \notin Running /\ Busy' = Busy
    BY DEF StartStep, Running, Busy, At, Inv, TypeOK
  <1>3. /\ Cardinality(Running) \in Nat /\ Cardinality(Running') = Cardinality(Running) + 1
        /\ Cardinality(Running') <= widest
    <2>1. Cardinality(Running) \in Nat /\ Cardinality(Running') = Cardinality(Running) + 1
      BY <1>2, RunningSize, FS_AddElement DEF Inv
    <2>2. Cardinality(Running') <= Cardinality(Busy') /\ Cardinality(Busy') \in Nat
      <3>1. Running' \in SUBSET Busy' /\ Busy' \in SUBSET Step
        BY <1>2, RunningSize DEF StartStep, Busy, Inv
      <3> QED
        BY <3>1, BatchSize, FS_Subset
    <2> QED
      BY <1>1, <1>2, <2>1, <2>2 DEF SpendInv
  <1> DEFINE n == Cardinality(Running)
  <1>4. spent + MaxCost * (n + 1) <= Cap - 1 + MaxCost * (widest + blind')
    <2>1. CASE spent < Cap /\ blind' = blind
      <3>1. /\ MaxCost * (n + 1) <= MaxCost * (widest + blind)
            /\ MaxCost * (n + 1) \in Nat /\ MaxCost * (widest + blind) \in Nat
        <4>1. n + 1 \in Nat /\ widest + blind \in Nat /\ n + 1 <= widest + blind
          BY <1>1, <1>3
        <4> QED
          BY <1>1, <4>1, Monotone
      <3> QED
        BY <1>1, <2>1, <3>1
    <2>2. CASE blind' = blind + 1
      <3>1. spent + MaxCost * n <= Cap - 1 + MaxCost * (widest + blind)
        BY DEF SpendInv
      <3>2. /\ MaxCost * (n + 1) = MaxCost * n + MaxCost
            /\ MaxCost * (widest + (blind + 1)) = MaxCost * (widest + blind) + MaxCost
            /\ MaxCost * n \in Nat /\ MaxCost * (widest + blind) \in Nat
        <4>1. /\ n \in Nat /\ widest + blind \in Nat
              /\ widest + (blind + 1) = (widest + blind) + 1
          BY <1>1, <1>3
        <4> HIDE DEF n
        <4> QED
          BY <1>1, <4>1, OneMore
      <3> QED
        BY <1>1, <2>2, <3>1, <3>2
    <2> QED
      BY <2>1, <2>2 DEF StartStep, CapAllows
  <1> QED
    BY <1>1, <1>2, <1>3, <1>4 DEF SpendInv

(* A step that ends has cost at most what was reserved for it.               *)
LEMMA EndSpend ==
  ASSUME Inv, SpendInv, NEW s \in Step, EndStep(s)
  PROVE  SpendInv'
  <1>1. PICK cost \in 0..MaxCost : spent' = spent + cost
    BY DEF EndStep
  <1>2. /\ spent \in Nat /\ blind \in Nat /\ widest \in Nat /\ blind' = blind
        /\ Cap \in Nat /\ MaxCost \in Nat /\ cost \in Nat /\ cost <= MaxCost
        /\ widest' = widest
    BY <1>1, StepEngineAssumption DEF EndStep, Inv, TypeOK
  <1>3. Running' = Running \ {s} /\ s \in Running /\ Busy' = Busy
    BY DEF EndStep, Running, Busy, At, Inv, TypeOK, Outcome
  <1>4. /\ Cardinality(Running) \in Nat /\ Cardinality(Running') = Cardinality(Running) - 1
        /\ Cardinality(Running') \in Nat
    <2>1. IsFiniteSet(Running) /\ Cardinality(Running) \in Nat
      BY RunningSize DEF Inv
    <2>2. IsFiniteSet(Running') /\ Cardinality(Running') = Cardinality(Running) - 1
      BY <1>3, <2>1, FS_RemoveElement
    <2> QED
      BY <2>1, <2>2, FS_CardinalityType
  <1>5. MaxCost * Cardinality(Running) = MaxCost * Cardinality(Running') + MaxCost
    <2> DEFINE n == Cardinality(Running')
    <2>1. n \in Nat /\ Cardinality(Running) = n + 1
      BY <1>4
    <2> HIDE DEF n
    <2>2. MaxCost * (n + 1) = MaxCost * n + MaxCost
      BY <1>2, <2>1, OneMore
    <2> QED
      BY <2>1, <2>2 DEF n
  <1>6. /\ MaxCost * Cardinality(Running') \in Nat /\ MaxCost * (widest + blind) \in Nat
        /\ spent + MaxCost * Cardinality(Running) <= Cap - 1 + MaxCost * (widest + blind)
    BY <1>2, <1>4 DEF SpendInv
  <1>7. spent' + MaxCost * Cardinality(Running') <= Cap - 1 + MaxCost * (widest + blind)
    BY <1>1, <1>2, <1>5, <1>6
  <1> QED
    BY <1>2, <1>3, <1>7 DEF SpendInv

LEMMA InitSpend == Init => SpendInv
  <1> SUFFICES ASSUME Init PROVE SpendInv
    OBVIOUS
  <1>1. Busy = {} /\ Running = {}
    BY DEF Init, Idle, Busy, Running, At
  <1>2. spent = 0 /\ widest = 0 /\ blind = 0 /\ MaxCost * 0 = 0
    BY StepEngineAssumption DEF Init
  <1> QED
    BY <1>1, <1>2, FS_EmptySet, StepEngineAssumption DEF SpendInv

LEMMA NextSpend == Inv /\ SpendInv /\ [Next]_vars /\ Inv' => SpendInv'
  <1> SUFFICES ASSUME Inv, SpendInv, [Next]_vars, Inv' PROVE SpendInv'
    OBVIOUS
  <1>1. /\ TypeOK /\ TypeOK' /\ widest \in Nat /\ widest <= NumSteps
    BY StepEngineAssumption DEF Inv, TypeOK
  <1>2. CASE batch' = Idle /\ UNCHANGED <<spent, blind, widest>>
    <2>1. Running' = {} /\ Busy' = {}
      BY <1>2 DEF Running, At, Busy, Idle
    <2>2. Cardinality(Busy') = 0
      BY <2>1, FS_EmptySet
    <2> QED
      BY <1>1, <1>2, <2>1, <2>2, NoneRunning
  <1>3. CASE SingleMove
    <2> DEFINE f == Min(ReadySteps)
    <2>1. /\ widest' = Max({widest, 1}) /\ UNCHANGED <<spent, blind>>
          /\ batch' = [Idle EXCEPT ![f] = "waiting"] /\ f \in Step
      <3>1. ReadySteps \in SUBSET Step /\ ReadySteps # {}
        BY <1>3 DEF ReadySteps, SingleMove
      <3>2. f \in Step
        BY <3>1, FirstStep
      <3> QED
        BY <1>3, <3>2 DEF SingleMove, costVars
    <2>2. Running' = {} /\ Busy' = {f}
      BY <2>1 DEF Running, At, Busy, Idle
    <2>3. Cardinality(Busy') = 1
      BY <2>2, FS_Singleton
    <2>4. widest' >= widest /\ widest' >= 1
      BY <1>1, <2>1, Wider
    <2> QED
      BY <1>1, <2>1, <2>2, <2>3, <2>4, NoneRunning
  <1>4. CASE NextBatch
    <2> DEFINE next == IF stalled' THEN {Min(fragment \ done)} ELSE DagReady
    <2>1. /\ batch' = [s \in Step |-> IF s \in next THEN "waiting" ELSE "out"]
          /\ widest' = Max({widest, Cardinality(next)}) /\ UNCHANGED <<spent, blind>>
      BY <1>4 DEF NextBatch, costVars
    <2>2. next \in SUBSET Step
      <3>1. fragment \ done \in SUBSET Step /\ fragment \ done # {}
        BY <1>4 DEF NextBatch, Inv, TypeOK
      <3>2. Min(fragment \ done) \in Step
        BY <3>1, FirstStep
      <3> QED
        BY <3>1, <3>2 DEF DagReady
    <2> HIDE DEF next
    <2>3. Running' = {} /\ Busy' = next
      BY <2>1, <2>2 DEF Running, At, Busy
    <2>4. Cardinality(next) \in Nat
      BY <2>2, BatchSize
    <2>5. widest' >= widest /\ widest' >= Cardinality(next)
      BY <1>1, <2>1, <2>4, Wider
    <2> QED
      BY <1>1, <2>1, <2>3, <2>5, NoneRunning
  <1>5. ASSUME NEW s \in Step, StartStep(s)
        PROVE  SpendInv'
    BY <1>1, <1>5, StartSpend
  <1>6. ASSUME NEW s \in Step, RefuseStep(s)
        PROVE  SpendInv'
    <2>1. Running' = Running /\ Busy' = Busy
      BY <1>6 DEF RefuseStep, Running, Busy, At, Inv, TypeOK
    <2> QED
      BY <1>6, <2>1 DEF RefuseStep, costVars, SpendInv
  <1>7. ASSUME NEW s \in Step, EndStep(s)
        PROVE  SpendInv'
    BY <1>7, EndSpend
  <1>8. CASE UNCHANGED vars
    BY <1>8 DEF vars, callVars, costVars, SpendInv, Busy, Running, At
  <1>9. CASE SingleEnds \/ BatchMerges \/ DagRaises \/ DagReturns
    <2>1. batch' = Idle /\ UNCHANGED <<spent, blind, widest>>
      BY <1>9 DEF SingleEnds, BatchMerges, DagRaises, AfterRaise, DagReturns, EndOfCall, costVars
    <2> QED
      BY <1>2, <2>1
  <1>10. CASE NothingReady \/ DagMove
    <2>1. batch' = Idle /\ UNCHANGED <<spent, blind, widest>>
      BY <1>10 DEF NothingReady, DagMove, callVars, costVars, BetweenMoves, Inv, CallShape
    <2> QED
      BY <1>2, <2>1
  <1> QED
    BY <1>3, <1>4, <1>5, <1>6, <1>7, <1>8, <1>9, <1>10 DEF Next

(* A run overshoots its cap by at most the cost of its widest batch, and of  *)
(* one step for each time the cost could not be read.                        *)
THEOREM OvershootBounded == Spec => []SpendBounded
  <1>1. Inv /\ SpendInv => SpendBounded
    <2> SUFFICES ASSUME Inv, SpendInv PROVE SpendBounded
      OBVIOUS
    <2>1. /\ spent \in Nat /\ MaxCost \in Nat /\ Cap \in Nat
          /\ widest + blind \in Nat
      BY StepEngineAssumption DEF Inv, TypeOK
    <2>2. Cardinality(Running) \in Nat
      BY RunningSize DEF Inv
    <2>3. MaxCost * Cardinality(Running) \in Nat /\ MaxCost * (widest + blind) \in Nat
      BY <2>1, <2>2, Monotone
    <2> QED
      BY <2>1, <2>3 DEF SpendInv, SpendBounded
  <1>2. Init => Inv /\ SpendInv
    BY InitInv, InitSpend
  <1>3. Inv /\ SpendInv /\ [Next]_vars => (Inv /\ SpendInv)'
    BY NextInv, NextSpend
  <1> QED
    BY <1>1, <1>2, <1>3, PTL DEF Spec
=============================================================================
