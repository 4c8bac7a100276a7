-------------------------- MODULE BoundedAutonomy ---------------------------
(***************************************************************************)
(* One run of the bounded autonomy kernel: the executor's loop over the    *)
(* tasks of a plan with its attempts and its budget, the replanning loop   *)
(* of ProductionBoundedAutonomyService.run(), and the wrapper that denies  *)
(* a handler whose principal is not authorised                             *)
(* (production_agent_authorization_service.py).                            *)
(*                                                                         *)
(* The plan is made by AutonomyPlanner, step by step.  A handler's result  *)
(* is its choice: the values it outputs and the evidence recorded of it    *)
(* are abstracted, the outcomes it claims to provide are not.              *)
(***************************************************************************)
EXTENDS AutonomyPlanner

CONSTANTS
    Goals,         \* [outcomes, mode, max_tasks, max_attempts, max_replans]
    HandlerSets,   \* which capabilities a caller brings handlers for
    GrantSets      \* which capabilities its principal is authorised for

\* Replanning excludes only what declares a fallback.
Excludable == {c \in Capabilities : Registry[c].fallbacks # {}}

Tasks(q) == {q.tasks[i] : i \in DOMAIN q.tasks}

Critics(q) == {c \in Tasks(q) : Registry[c].role = "postcondition"}

\* Before the first plan there is none.
NoPlan == [tasks |-> <<>>, deps |-> [c \in Capabilities |-> {}]]

\* The outcomes of a goal, and the bounds the loops count against.
GoalValid(g) ==
    /\ g.outcomes \in Seq(STRING)
    /\ g.max_attempts \in Nat \ {0}
    /\ g.max_replans \in Nat

ASSUME GoalAssumption == \A g \in Goals : GoalValid(g)

VARIABLES
    phase,       \* "planning", "executing", or how run() ended
    handled,     \* capabilities with a handler
    permitted,   \* capabilities the principal is authorised for now
    plan,        \* the last plan
    replans,     \* replan_count
    spent,       \* attempts_across_plans, of the executions that ended
    used,        \* total_attempts of this execution
    pos,         \* index of the task being executed
    tries,       \* attempts of that task
    taskStatus,  \* of each capability in this execution ("none": no result yet)
    available,   \* available_outcomes
    failed       \* failed_capability_ids

execution == <<used, pos, tries, taskStatus, available, failed>>
vars == <<phase, goal, handled, permitted, plan, excluded, replans, spent, planner, execution>>

Ended == {"ready", "blocked", "unplannable", "raised"}

Fresh ==
    /\ used' = 0
    /\ pos' = 1
    /\ tries' = 0
    /\ taskStatus' = [c \in Capabilities |-> "none"]
    /\ available' = {}
    /\ failed' = {}

Init ==
    /\ goal \in Goals
    /\ handled \in HandlerSets
    /\ permitted \in GrantSets
    /\ phase = "planning"
    /\ plan = NoPlan
    /\ excluded = {}
    /\ PlannerInit
    /\ replans = 0
    /\ spent = 0
    /\ used = 0
    /\ pos = 1
    /\ tries = 0
    /\ taskStatus = [c \in Capabilities |-> "none"]
    /\ available = {}
    /\ failed = {}

----------------------------------------------------------------------------
(* Planning.                                                               *)

\* A step of plan().
MakePlan ==
    /\ phase = "planning"
    /\ PlannerNext
    /\ UNCHANGED <<phase, goal, handled, permitted, plan, excluded, replans, spent, execution>>

Replanning == plan.tasks # <<>>

BeginExecution ==
    /\ phase = "planning"
    /\ step = "planned"
    /\ phase' = "executing"
    /\ plan' = Draft
    /\ replans' = IF Replanning THEN replans + 1 ELSE replans
    /\ Fresh
    /\ UNCHANGED <<goal, handled, permitted, excluded, spent, planner>>

\* UnplannableGoalError: the first plan's leaves run(), a replan's ends the
\* loop, and the report is about the old plan.
GoalUnplannable ==
    /\ phase = "planning"
    /\ step = "unplannable"
    /\ phase' = IF Replanning THEN "blocked" ELSE "unplannable"
    /\ UNCHANGED <<goal, handled, permitted, plan, excluded, replans, spent, planner, execution>>

\* Any other exception of plan(), which run() does not catch.
PlanningRaises ==
    /\ phase = "planning"
    /\ step = "rejected"
    /\ phase' = "raised"
    /\ UNCHANGED <<goal, handled, permitted, plan, excluded, replans, spent, planner, execution>>

----------------------------------------------------------------------------
(* The executor's loop.                                                    *)

\* int(attempt_budget or goal.budget.max_total_attempts): nothing left would
\* mean everything.
Budget ==
    LET left == goal.max_attempts - spent
    IN  IF left = 0 THEN goal.max_attempts ELSE left

Current == plan.tasks[pos]

AtTask == phase = "executing" /\ pos <= Len(plan.tasks)

\* Mutant: a dependency that was skipped does not hold a task back.
NothingFailed ==
    \A d \in plan.deps[Current] : taskStatus[d] \notin {"failed", "blocked"}

DependenciesDone == \A d \in plan.deps[Current] : taskStatus[d] = "completed"

\* The task has its result: the loop goes on to the next one.
Record(status, provided) ==
    /\ taskStatus' = [taskStatus EXCEPT ![Current] = status]
    /\ available' = available \cup provided
    /\ failed' = IF status = "completed" THEN failed ELSE failed \cup {Current}
    /\ pos' = pos + 1
    /\ tries' = 0
    /\ UNCHANGED <<phase, goal, handled, permitted, plan, excluded, replans, spent, planner>>

Skip ==
    /\ AtTask
    /\ ~DependenciesDone
    /\ Record("skipped", {})
    /\ UNCHANGED used

BudgetExhausted ==
    /\ AtTask
    /\ DependenciesDone
    /\ used >= Budget
    /\ Record("blocked", {})
    /\ UNCHANGED used

HandlerUnavailable ==
    /\ AtTask
    /\ DependenciesDone
    /\ used < Budget
    /\ Registry[Current].role = "ordinary"
    /\ Current \notin handled
    /\ Record("failed", {})
    /\ UNCHANGED used

\* One attempt: counted before the handler is called.
Attempt(role) ==
    /\ AtTask
    /\ DependenciesDone
    /\ used < Budget
    /\ Registry[Current].role = role
    /\ used' = used + 1

\* An error category to retry, with attempts left, of the task and of the budget.
Retries(category) ==
    /\ category \in Registry[Current].retryable
    /\ tries + 1 < Registry[Current].max_attempts
    /\ used + 1 < Budget

\* Preflight and critic are the kernel's own, whatever handlers there are.
PreflightRuns ==
    /\ Attempt("preflight")
    /\ "policy_context" \in Registry[Current].provides
    /\ Record("completed", {"policy_context"})

Delivered == Requested(goal) \subseteq available

CriticCompletes ==
    /\ Attempt("postcondition")
    /\ Delivered
    /\ "evidence_critique" \in Registry[Current].provides
    /\ Record("completed", {"evidence_critique"})

CriticBlocks ==
    /\ Attempt("postcondition")
    /\ ~Delivered
    /\ ~Retries("evidence_incomplete")
    /\ Record("blocked", {})

HandlerCalled ==
    /\ Attempt("ordinary")
    /\ Current \in handled

HandlerCompletes ==
    /\ HandlerCalled
    /\ Current \in permitted
    /\ \E provided \in SUBSET Registry[Current].provides : Record("completed", provided)

\* Any other status, or an exception: with a category that is not retryable,
\* or on the last attempt.
HandlerFails ==
    /\ HandlerCalled
    /\ Current \in permitted
    /\ \E status \in {"failed", "blocked", "skipped"} : Record(status, {})

\* The wrapper answers for the handler.
HandlerDenied ==
    /\ HandlerCalled
    /\ Current \notin permitted
    /\ ~Retries("authorization_denied")
    /\ Record("blocked", {})

TriedAgain ==
    /\ \/ /\ HandlerCalled
          /\ Current \in permitted
          /\ \E category \in Registry[Current].retryable : Retries(category)
       \/ /\ HandlerCalled
          /\ Current \notin permitted
          /\ Retries("authorization_denied")
       \/ /\ Attempt("postcondition")
          /\ ~Delivered
          /\ Retries("evidence_incomplete")
    /\ tries' = tries + 1
    /\ UNCHANGED <<phase, goal, handled, permitted, plan, excluded, replans, spent, planner,
                   pos, taskStatus, available, failed>>

\* _validate_result: an undeclared outcome, an identifier-shaped output or a
\* failure with outcomes raises out of run().  The kernel's own results are
\* validated too.
ResultRejected ==
    /\ \/ HandlerCalled /\ Current \in permitted
       \/ Attempt("preflight") /\ "policy_context" \notin Registry[Current].provides
       \/ /\ Attempt("postcondition")
          /\ Delivered
          /\ "evidence_critique" \notin Registry[Current].provides
    /\ phase' = "raised"
    /\ UNCHANGED <<goal, handled, permitted, plan, excluded, replans, spent, planner,
                   pos, tries, taskStatus, available, failed>>

\* The principal's credential expires.
Expire ==
    /\ phase \notin Ended
    /\ permitted # {}
    /\ permitted' = {}
    /\ UNCHANGED <<phase, goal, handled, plan, excluded, replans, spent, planner, execution>>

----------------------------------------------------------------------------
(* The service's loop.                                                     *)

AllTasksDone == phase = "executing" /\ pos > Len(plan.tasks)

ExecutionStatus ==
    IF \E c \in Capabilities : taskStatus[c] = "blocked" THEN "blocked"
    ELSE IF \/ ~(Requested(goal) \subseteq available)
            \/ \E c \in Critics(plan) : taskStatus[c] # "completed"
         THEN "failed"
    ELSE "completed"

\* What failed, or was skipped, and declares a fallback.
Replaceable == failed \cap Excludable

\* Mutant: the attempts across plans are not looked at.
ReplanWithNothingLeft ==
    /\ ExecutionStatus = "failed"
    /\ replans < goal.max_replans
    /\ failed # {}
    /\ Replaceable # {}

ShouldReplan ==
    /\ ExecutionStatus = "failed"
    /\ replans < goal.max_replans
    /\ failed # {}
    /\ spent + used < goal.max_attempts
    /\ Replaceable # {}

\* The exclusions are kept even when there is no plan without them.
Replan ==
    /\ AllTasksDone
    /\ ShouldReplan
    /\ excluded' = excluded \cup Replaceable
    /\ spent' = spent + used
    /\ used' = 0
    /\ phase' = "planning"
    /\ CallPlanner
    /\ UNCHANGED <<goal, handled, permitted, plan, replans,
                   pos, tries, taskStatus, available, failed>>

Report ==
    /\ AllTasksDone
    /\ ~ShouldReplan
    /\ phase' = IF ExecutionStatus = "completed" THEN "ready" ELSE "blocked"
    /\ spent' = spent + used
    /\ used' = 0
    /\ UNCHANGED <<goal, handled, permitted, plan, excluded, replans, planner,
                   pos, tries, taskStatus, available, failed>>

\* Nothing happens after the report (or the exception).
Done == phase \in Ended /\ UNCHANGED vars

Execute ==
    \/ Skip \/ BudgetExhausted \/ HandlerUnavailable
    \/ PreflightRuns \/ CriticCompletes \/ CriticBlocks
    \/ HandlerCompletes \/ HandlerFails \/ HandlerDenied
    \/ TriedAgain \/ ResultRejected

Planning == MakePlan \/ BeginExecution \/ GoalUnplannable \/ PlanningRaises

Run == Planning \/ Execute \/ Replan \/ Report

Next == Run \/ Expire \/ Done

Spec == Init /\ [][Next]_vars

----------------------------------------------------------------------------
(* Properties.                                                             *)

\* The types of a run's bookkeeping.
TypeOK ==
    /\ PlannerTypeOK
    /\ phase \in {"planning", "executing"} \cup Ended
    /\ goal \in Goals
    /\ handled \in HandlerSets
    /\ permitted \in GrantSets \cup {{}}
    /\ plan \in [tasks : Seq(Capabilities), deps : [Capabilities -> SUBSET Capabilities]]
    /\ excluded \subseteq Excludable
    /\ replans \in Nat /\ spent \in Nat /\ used \in Nat
    /\ pos \in Nat \ {0} /\ tries \in Nat
    /\ taskStatus \in
         [Capabilities -> {"none", "completed", "failed", "blocked", "skipped"}]
    /\ available \subseteq UNION {Registry[c].provides : c \in Capabilities}
    /\ failed \subseteq Capabilities

\* All attempts of all plans together stay within max_total_attempts, and the
\* replans within max_replans, though every execution has a budget of its own
\* in which zero would stand for no limit.
AttemptsWithinBudget ==
    /\ spent + used <= goal.max_attempts
    /\ replans <= goal.max_replans

\* A run is reported ready only when every task of the last plan completed in
\* that plan's own execution and every requested outcome was delivered by it.
ReadyMeansDelivered ==
    phase = "ready" =>
        /\ \A c \in Tasks(plan) : taskStatus[c] = "completed"
        /\ Requested(goal) \subseteq available

\* A plan covers the goal, in the goal's mode, with the policy preflight; each
\* task runs after the tasks it depends on; among these is a producer of every
\* outcome it requires, and for a critic every task that is none.
Sound(q) ==
    /\ \A o \in Requested(goal) : \E c \in Tasks(q) : o \in Registry[c].provides
    /\ \A c \in Tasks(q) : goal.mode \in Registry[c].modes
    /\ \E c \in Tasks(q) : Registry[c].role = "preflight"
    /\ \A i \in DOMAIN q.tasks : \A d \in q.deps[q.tasks[i]] :
         \E j \in DOMAIN q.tasks : j < i /\ q.tasks[j] = d
    /\ \A c \in Tasks(q) \ Critics(q) : \A o \in Required(c) :
         \E d \in q.deps[c] \cup {c} : o \in Registry[d].provides
    /\ \A c \in Critics(q) : Tasks(q) \ Critics(q) \subseteq q.deps[c]

\* Every plan that is executed is sound: validate_plan checks the coverage, the
\* preflight and that there is a critic, but neither the modes, nor the order,
\* nor what the tasks wait for.
PlanIsSound == phase = "executing" => Sound(plan)

\* A replan leaves a capability of the old plan out, and nothing that was
\* excluded earlier comes back.
ReplanChangesRoute ==
    [][replans' # replans =>
         /\ Tasks(plan) \ Tasks(plan') # {}
         /\ Tasks(plan') \cap excluded' = {}]_vars

=============================================================================
