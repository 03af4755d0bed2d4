----------------------------- MODULE StepEngine -----------------------------
(***************************************************************************)
(* How the loop of an agent run works off a static plan.                   *)
(* Each iteration (src/ai/core/agent_loop.py) asks the strategist for a    *)
(* move over the ready steps: the first of them alone (SingleStepExecutor) *)
(* or, with two or more, all of them at once (DAGExecutor); the bandit     *)
(* picks, which is a free choice here.  Both go through                    *)
(* StepEngine._execute_step_wrapper, which refuses a step once the run's   *)
(* cost has reached the entity's cap and bounds it by a timeout.           *)
(*                                                                         *)
(* Steps are numbered in the order of the plan's list.  A step `deps' on   *)
(* the steps of its target.input_dependencies and `refs' those its prompt  *)
(* template names as {{step_k}}.  The critics and the supervisor are taken *)
(* to pass everything; child runs are module AgentRuns'.                   *)
(* A failed step has raised and ended its call, so the check for failed    *)
(* dependencies (_dep_missing) never meets one and is left out.            *)
(***************************************************************************)
EXTENDS Integers, FiniteSets, FiniteSetsExt

CONSTANTS
  NumSteps,       \* steps of a plan
  Plans,          \* the plans a run may have: [deps, refs]
  MaxIterations,  \* AgentLoop.max_iterations
  Cap,            \* governance.max_cost_usd, in units of cost
  MaxCost,        \* the most one execution of a step costs
  MaxBlind        \* bound: how often the lookup behind the cost cap fails

Step == 1..NumSteps

Plan == [deps : [Step -> SUBSET Step], refs : [Step -> SUBSET Step]]

ASSUME StepEngineAssumption ==
  /\ NumSteps \in Nat \ {0} /\ MaxIterations \in Nat \ {0}
  /\ Cap \in Nat \ {0} /\ MaxCost \in Nat /\ MaxBlind \in Nat
  /\ Plans \subseteq Plan

VARIABLES
  plan,        \* state.plan_steps
  iteration,   \* state.iteration
  status,      \* of the run
  completed,   \* state.completed_step_ids
  context,     \* steps with an output in state.context_state
  call,        \* the executor at work: "none", "single" or "dag"
  fragment,    \* move.plan_fragment
  done,        \* _execute_steps_dag: its own `completed'
  ctx,         \* the executor's private copy of the context
  ids,         \* steps whose result names its step_id, hence reported back
  stalled,     \* the call fell back to one step after the other
  batch,       \* where each step stands in what the executor awaits
  spent,       \* run.total_cost_usd
  blind,       \* lookups of the cost that failed
  widest       \* history: the most steps one batch ran

loopVars == <<plan, iteration, status, completed, context>>
callVars == <<call, fragment, done, ctx, ids, stalled, batch>>
costVars == <<spent, blind>>
vars == <<loopVars, callVars, costVars, widest>>

Outcome == {"ok", "error", "timeout", "raised"}
Idle == [s \in Step |-> "out"]
At(place) == {s \in Step : batch[s] \in place}

TypeOK ==
  /\ plan \in Plans
  /\ iteration \in 0..MaxIterations
  /\ status \in {"RUNNING", "COMPLETED", "FAILED"}
  /\ completed \subseteq Step /\ context \subseteq Step
  /\ call \in {"none", "single", "dag"}
  /\ fragment \subseteq Step /\ done \subseteq fragment
  /\ ctx \subseteq Step /\ ids \subseteq Step
  /\ stalled \in BOOLEAN
  /\ batch \in [Step -> {"out", "waiting", "running"} \union Outcome]
  /\ {s \in Step : batch[s] # "out"} \subseteq fragment
  /\ spent \in Nat /\ blind \in 0..MaxBlind
  /\ widest \in 0..NumSteps

Init ==
  /\ plan \in Plans
  /\ iteration = 0 /\ status = "RUNNING"
  /\ completed = {} /\ context = {}
  /\ call = "none" /\ fragment = {} /\ done = {} /\ ctx = {} /\ ids = {}
  /\ stalled = FALSE /\ batch = Idle
  /\ spent = 0 /\ blind = 0 /\ widest = 0

-----------------------------------------------------------------------------
(* The move of an iteration. *)

\* AgentState.plan_ready_steps
ReadySteps == {s \in Step \ completed : plan.deps[s] \subseteq completed}

\* Budget.exhausted, on the axes of cost and of iterations: the iteration that
\* reaches the maximum is the last.
Exhausted(n) == spent >= Cap \/ n >= MaxIterations

\* Strategist.decide_next and _final_status, after iteration n left `marked'
\* complete: an exhausted budget aborts even a plan that is complete.
Decided(n, marked) ==
  CASE Exhausted(n)   -> "FAILED"
    [] ~Exhausted(n) /\ marked = Step -> "COMPLETED"
    [] OTHER          -> "RUNNING"

BetweenMoves == status = "RUNNING" /\ call = "none"

\* Steps remain and none is ready: a no-op iteration (_no_plan_noop).
NothingReady ==
  /\ BetweenMoves /\ ReadySteps = {}
  /\ iteration' = iteration + 1
  /\ status' = Decided(iteration + 1, completed)
  /\ UNCHANGED <<plan, completed, context, callVars, costVars, widest>>

\* SingleStepExecutor.execute, on the first ready step.
SingleMove ==
  /\ BetweenMoves /\ ReadySteps # {}
  /\ iteration' = iteration + 1
  /\ call' = "single"
  /\ fragment' = {Min(ReadySteps)}
  /\ batch' = [Idle EXCEPT ![Min(ReadySteps)] = "waiting"]
  /\ ctx' = context
  /\ widest' = Max({widest, 1})
  /\ UNCHANGED <<plan, status, completed, context, done, ids, stalled, costVars>>

\* Steps of the fragment the context already holds an output of are not run.
AlreadyHeld(steps) == steps \intersect context

\* DAGExecutor.execute, on all the ready steps.
DagMove ==
  /\ BetweenMoves /\ Cardinality(ReadySteps) >= 2
  /\ iteration' = iteration + 1
  /\ call' = "dag"
  /\ fragment' = ReadySteps
  /\ done' = AlreadyHeld(ReadySteps)
  /\ ctx' = context
  /\ UNCHANGED <<plan, status, completed, context, ids, stalled, batch, costVars, widest>>

-----------------------------------------------------------------------------
(* Inside _execute_steps_dag. *)

(* Mutant: the templates are not searched. *)
Needs_NoRefs(s) == plan.deps[s]

\* step_deps: a reference counts within the fragment only, a dependency always,
\* also on a step an earlier iteration completed.
Needs(s) == plan.deps[s] \union ((plan.refs[s] \intersect fragment) \ {s})

DagReady == {s \in fragment \ done : Needs(s) \subseteq done}

(* Mutant: no fallback. *)
Stall_Never == FALSE

\* "Circular dependency or stall detected."
Stall == DagReady = {}

\* The next batch: every ready step in parallel, each with its own session and
\* context; with none ready, the rest in list order, one after the other.
NextBatch ==
  /\ call = "dag" /\ batch = Idle /\ done # fragment
  /\ stalled' = (stalled \/ Stall)
  /\ LET next == IF stalled' THEN {Min(fragment \ done)} ELSE DagReady
     IN  /\ batch' = [s \in Step |-> IF s \in next THEN "waiting" ELSE "out"]
         /\ widest' = Max({widest, Cardinality(next)})
  /\ UNCHANGED <<loopVars, call, fragment, done, ctx, ids, costVars>>

(* Mutant: no cost cap. *)
CapAllows_Unread == UNCHANGED blind

\* _enforce_cost_cap lets a step start below the cap, and whenever its own lookup
\* of the cost fails.
CapAllows ==
  \/ spent < Cap /\ UNCHANGED blind
  \/ spent >= Cap /\ blind < MaxBlind /\ blind' = blind + 1

StartStep(s) ==
  /\ batch[s] = "waiting"
  /\ CapAllows
  /\ batch' = [batch EXCEPT ![s] = "running"]
  /\ UNCHANGED <<loopVars, call, fragment, done, ctx, ids, stalled, spent, widest>>

\* BudgetExhaustedError.
RefuseStep(s) ==
  /\ batch[s] = "waiting" /\ spent >= Cap
  /\ batch' = [batch EXCEPT ![s] = "raised"]
  /\ UNCHANGED <<loopVars, call, fragment, done, ctx, ids, stalled, costVars, widest>>

\* The step returns an output, returns an error in its result, times out or
\* raises; _bump_run_cost has added what it cost to the run's row.
EndStep(s) ==
  /\ batch[s] = "running"
  /\ \E outcome \in Outcome, cost \in 0..MaxCost :
       /\ batch' = [batch EXCEPT ![s] = outcome]
       /\ spent' = spent + cost
  /\ UNCHANGED <<loopVars, call, fragment, done, ctx, ids, stalled, blind, widest>>

-----------------------------------------------------------------------------
(* The end of a batch and of a call. *)

BatchEnded == batch # Idle /\ At({"waiting", "running"}) = {}

\* The call is over and the iteration with it: the loop marks `marked' complete.
EndOfCall(held, marked) ==
  /\ call' = "none" /\ fragment' = {} /\ done' = {} /\ ctx' = {} /\ ids' = {}
  /\ stalled' = FALSE /\ batch' = Idle
  /\ context' = held
  /\ completed' = completed \union marked
  /\ status' = Decided(iteration, completed \union marked)
  /\ UNCHANGED <<plan, iteration, costVars, widest>>

\* Whatever did not raise counts as complete, an error in the result included.
SingleEnds ==
  /\ call = "single" /\ BatchEnded
  /\ LET finished == At({"ok", "error", "timeout"})
     IN  EndOfCall(ctx \union finished, finished)

\* No step of the batch raised: the outputs are merged into the call's context.
\* Only the result of a timeout names its step_id.
BatchMerges ==
  /\ call = "dag" /\ BatchEnded /\ At({"raised"}) = {}
  /\ done' = done \union At(Outcome)
  /\ ctx' = ctx \union At({"ok", "timeout"})
  /\ ids' = ids \union At({"timeout"})
  /\ batch' = Idle
  /\ UNCHANGED <<loopVars, call, fragment, stalled, costVars, widest>>

(* Mutant: the steps with an id are reported all the same. *)
AfterRaise_Reports == EndOfCall(context, ids \union At({"timeout"}))

\* What survives a call that raised: DAGExecutor does not absorb its context and
\* reports no step.
AfterRaise == EndOfCall(context, {})

\* A step raised: _execute_steps_dag raises its exception once all have ended.
DagRaises ==
  /\ call = "dag" /\ BatchEnded /\ At({"raised"}) # {}
  /\ AfterRaise

DagReturns ==
  /\ call = "dag" /\ batch = Idle /\ done = fragment
  /\ EndOfCall(ctx, ids)

Next ==
  \/ NothingReady \/ SingleMove \/ DagMove
  \/ NextBatch \/ SingleEnds \/ BatchMerges \/ DagRaises \/ DagReturns
  \/ \E s \in Step : StartStep(s) \/ RefuseStep(s) \/ EndStep(s)

Spec == Init /\ [][Next]_vars

\* asyncio.wait_for bounds every step, so the one task of the loop always goes on.
FairSpec == Spec /\ WF_vars(Next)

-----------------------------------------------------------------------------
(* Properties. *)

\* A step counts as complete only when the context holds what its dependents
\* read: the strategist goes by the one, the templates by the other.
CompletedHasOutput == completed \subseteq context

\* The cap is overshot by at most the steps that were under way together when
\* the last of them was let through, and one step more for each failed lookup.
SpendBounded == spent <= Cap - 1 + MaxCost * (widest + blind)

Starts(s) == batch[s] = "waiting" /\ batch'[s] = "running"

\* No step runs before the steps it depends on are complete, nor before the
\* steps of its own batch call it names, unless the call has stalled.
DependenciesFirst ==
  [][\A s \in Step : Starts(s) =>
        /\ plan.deps[s] \subseteq completed
        /\ call = "dag" /\ ~stalled =>
              (plan.refs[s] \intersect fragment) \ {s} \subseteq done]_vars

\* A complete step is never run (and billed) again, and the parallel executor
\* does not run a step whose output an earlier call of it has left.
NotRunAgain ==
  [][\A s \in Step : Starts(s) => s \notin completed
                                  /\ (call = "dag" => s \notin context)]_vars

\* Every run ends, whatever its plan: also over a cycle, and over a parallel
\* call that keeps reporting no step.
RunEnds == <>(status # "RUNNING")
=============================================================================
