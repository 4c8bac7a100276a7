-------------------------- MODULE AutonomyPlanner ---------------------------
(***************************************************************************)
(* BoundedAutonomyPlanner.plan(), one step of it at a time: the search for *)
(* producers of the requested outcomes and of what these require, the      *)
(* policy preflight and the evidence critic around them, the topological   *)
(* order of the tasks, and validate_plan.                                  *)
(*                                                                         *)
(* select_outcome() is a depth-first search whose only effects happen      *)
(* before it recurses, so the outcomes still to be resolved are a stack.   *)
(* Its own test for a cycle can never succeed, since an outcome is         *)
(* credited before its requirements are resolved: a cycle is found by the  *)
(* topological order.                                                      *)
(***************************************************************************)
EXTENDS AutonomyRegistry, FiniteSets

VARIABLES
    goal,        \* [outcomes, mode, max_tasks, max_attempts, max_replans]
    excluded,    \* excluded_capability_ids
    step,        \* what plan() is doing, or how it ended
    todo,        \* the outcomes still to be resolved, the innermost call first
    selected,    \* base_selected_ids, as far as they are known
    producer,    \* producer_for_outcome
    remaining,   \* the tasks the order has no layer for yet
    ready,       \* what is left of the current layer
    ordered      \* ordered_ids

planner == <<step, todo, selected, producer, remaining, ready, ordered>>

Steps == {"selecting", "selecting_late", "ordering", "planned", "unplannable", "rejected"}

Preflights == InRole("preflight", goal.mode)
Postconditions == InRole("postcondition", goal.mode)

Requested(g) == {g.outcomes[i] : i \in DOMAIN g.outcomes}

PlannerInit ==
    /\ step = "selecting"
    /\ todo = goal.outcomes
    /\ selected = {}
    /\ producer = [o \in {} |-> o]
    /\ remaining = {}
    /\ ready = {}
    /\ ordered = <<>>

\* plan() called again, with the exclusions of a replan.
CallPlanner ==
    /\ step' = "selecting"
    /\ todo' = goal.outcomes
    /\ selected' = {}
    /\ producer' = [o \in {} |-> o]
    /\ remaining' = {}
    /\ ready' = {}
    /\ ordered' = <<>>

Ends(how) ==
    /\ step' = how
    /\ UNCHANGED <<todo, selected, producer, remaining, ready, ordered>>

----------------------------------------------------------------------------
(* The dependency closure.                                                 *)

Resolving == step \in {"selecting", "selecting_late"} /\ todo # <<>>

Candidates == Producers(Head(todo), goal.mode, excluded)

\* The order of the candidates: (priority, module_id, capability_id).
Preferred(c, d) ==
    LET p == Registry[c].priority  q == Registry[d].priority
        m == Registry[c].module    n == Registry[d].module
    IN  p < q \/ (p = q /\ (m < n \/ (m = n /\ c <= d)))

\* setdefault: an outcome stays credited to its first producer.
Credit(c) ==
    producer' = [o \in DOMAIN producer \cup Registry[c].provides |->
                    IF o \in DOMAIN producer THEN producer[o] ELSE c]

AlreadyProduced ==
    /\ Resolving
    /\ Head(todo) \in DOMAIN producer
    /\ todo' = Tail(todo)
    /\ UNCHANGED <<step, selected, producer, remaining, ready, ordered>>

SelectProducer ==
    /\ Resolving
    /\ Head(todo) \notin DOMAIN producer
    /\ \E c \in Candidates :
         /\ \A d \in Candidates : Preferred(c, d)
         /\ selected' = selected \cup {c}
         /\ Credit(c)
         /\ todo' = Registry[c].requires \o Tail(todo)
    /\ UNCHANGED <<step, remaining, ready, ordered>>

NoProducer ==
    /\ Resolving
    /\ Head(todo) \notin DOMAIN producer
    /\ Candidates = {}
    /\ Ends("unplannable")

Resolved == step = "selecting" /\ todo = <<>>

Mandatory == Preflights \cup Postconditions

MandatoryExcluded ==
    /\ Resolved
    /\ Mandatory \cap excluded # {}
    /\ Ends("unplannable")

SelectPreflight ==
    /\ Resolved
    /\ Mandatory \cap excluded = {}
    /\ \E c \in Preflights \ selected :
         /\ \A d \in Preflights \ selected : c <= d
         /\ selected' = selected \cup {c}
         /\ Credit(c)
    /\ UNCHANGED <<step, todo, remaining, ready, ordered>>

Surrounded ==
    /\ Resolved
    /\ Mandatory \cap excluded = {}
    /\ Preflights \subseteq selected

\* Only what a preflight requires can still have no producer.  It is resolved
\* now, which changes the selection while plan() iterates over it.  (Which
\* preflight comes first is left open.)
ResolveLate ==
    /\ Surrounded
    /\ \E c \in selected :
         ~(Required(c) \subseteq DOMAIN producer) /\ todo' = Registry[c].requires
    /\ step' = "selecting_late"
    /\ UNCHANGED <<selected, producer, remaining, ready, ordered>>

\* The RuntimeError of that iteration.
SelectionChanged ==
    /\ step = "selecting_late"
    /\ todo = <<>>
    /\ Ends("rejected")

----------------------------------------------------------------------------
(* The order of the tasks.                                                 *)

\* A critic waits for everything else, any other task for the producers of
\* what it requires.
Dependencies ==
    [c \in Capabilities |->
        IF c \in Postconditions THEN selected
        ELSE IF c \in selected THEN {producer[o] : o \in Required(c)} \ {c}
        ELSE {}]

Arrange ==
    /\ Surrounded
    /\ \A c \in selected : Required(c) \subseteq DOMAIN producer
    /\ step' = "ordering"
    /\ remaining' = selected \cup Postconditions
    /\ UNCHANGED <<todo, selected, producer, ready, ordered>>

\* What waits for nothing that remains.
Layer == {c \in remaining : Dependencies[c] \cap remaining = {}}

Layering == step = "ordering" /\ ready = {} /\ remaining # {}

NextLayer ==
    /\ Layering
    /\ Layer # {}
    /\ ready' = Layer
    /\ remaining' = remaining \ Layer
    /\ UNCHANGED <<step, todo, selected, producer, ordered>>

Cycle ==
    /\ Layering
    /\ Layer = {}
    /\ Ends("unplannable")

\* The tasks of a layer in the order of their ids.
OrderTask ==
    /\ step = "ordering"
    /\ \E c \in ready :
         /\ \A d \in ready : c <= d
         /\ ready' = ready \ {c}
         /\ ordered' = Append(ordered, c)
    /\ UNCHANGED <<step, todo, selected, producer, remaining>>

----------------------------------------------------------------------------
(* The finished plan.                                                      *)

InOrder == step = "ordering" /\ ready = {} /\ remaining = {}

WithinTasks == Len(ordered) <= goal.max_tasks

\* What validate_plan may still object to: a mandatory capability with a
\* production effect, and a mode with no preflight or no critic (the registry
\* is validated for offline_evaluation only).
PlanAcceptable ==
    /\ \A c \in selected \cup Postconditions : Registry[c].risk # "production_effect"
    /\ Preflights # {}
    /\ Postconditions # {}

TooManyTasks ==
    /\ InOrder
    /\ ~WithinTasks
    /\ Ends("unplannable")

PlanRejected ==
    /\ InOrder
    /\ WithinTasks
    /\ ~PlanAcceptable
    /\ Ends("rejected")

PlanAccepted ==
    /\ InOrder
    /\ WithinTasks
    /\ PlanAcceptable
    /\ Ends("planned")

PlannerNext ==
    \/ AlreadyProduced \/ SelectProducer \/ NoProducer
    \/ MandatoryExcluded \/ SelectPreflight \/ ResolveLate \/ SelectionChanged
    \/ Arrange \/ NextLayer \/ Cycle \/ OrderTask
    \/ TooManyTasks \/ PlanRejected \/ PlanAccepted

\* What plan() returns.
Draft == [tasks |-> ordered, deps |-> Dependencies]

----------------------------------------------------------------------------

\* The types of plan()'s variables.
PlannerTypeOK ==
    /\ step \in Steps
    /\ todo \in Seq(STRING)
    /\ selected \subseteq Capabilities
    /\ DOMAIN producer \subseteq STRING
    /\ remaining \subseteq Capabilities
    /\ ready \subseteq Capabilities
    /\ ordered \in Seq(Capabilities)

=============================================================================
