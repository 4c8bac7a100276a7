----------------------- MODULE BoundedAutonomyProofs ------------------------
(***************************************************************************)
(* For any registry, goals, handlers and grants: the run is well typed,    *)
(* every plan it executes is sound, a replan leaves out what it excludes,  *)
(* the run stays within its attempts and its replans, and it reports ready *)
(* only when every task of its last plan completed and delivered the       *)
(* requested outcomes.                                                     *)
(*                                                                         *)
(* The planner's part of the inductive invariant: what is wanted is        *)
(* credited to a selected capability that provides it or still on the      *)
(* stack (Selection); the tasks already in order wait only for tasks       *)
(* before them, those of the current layer only for tasks in order         *)
(* (Layers).  The run's part adds that an execution begins with attempts   *)
(* left, so that its budget is never the zero that means all of them; that *)
(* no task from pos on has a result yet; and that a completed task depends *)
(* on completed tasks only.  With a critic that depends on everything, the *)
(* last makes one completed critic speak for the whole plan.               *)
(***************************************************************************)
EXTENDS BoundedAutonomy, TLAPS

Pushed(o) == \E i \in DOMAIN todo : todo[i] = o

Placed(c) == \E i \in DOMAIN ordered : ordered[i] = c

Selection ==
    /\ \A o \in DOMAIN producer :
         producer[o] \in selected /\ o \in Registry[producer[o]].provides
    /\ \A o \in Requested(goal) : o \in DOMAIN producer \/ Pushed(o)
    /\ \A c \in selected : Registry[c].role # "preflight" =>
         \A o \in Required(c) : o \in DOMAIN producer \/ Pushed(o)
    /\ \A c \in selected :
         c \notin excluded /\ goal.mode \in Registry[c].modes /\ Registry[c].role # "postcondition"

Layers ==
    step \in {"ordering", "planned"} =>
        /\ todo = <<>>
        /\ Mandatory \cap excluded = {}
        /\ Preflights \subseteq selected
        /\ \A c \in selected : Required(c) \subseteq DOMAIN producer
        /\ \A c \in Capabilities :
             (c \in selected \/ c \in Postconditions) <=>
                (c \in remaining \/ c \in ready \/ Placed(c))
        /\ ready \cap remaining = {}
        /\ \A c \in ready \cup remaining : ~Placed(c)
        /\ \A i, j \in DOMAIN ordered : ordered[i] = ordered[j] => i = j
        /\ \A i \in DOMAIN ordered : \A d \in Dependencies[ordered[i]] :
             \E j \in DOMAIN ordered : j < i /\ ordered[j] = d
        /\ \A c \in ready : \A d \in Dependencies[c] : Placed(d)

Stages ==
    /\ step = "selecting" => remaining = {} /\ ready = {} /\ ordered = <<>>
    /\ step = "planned" =>
          remaining = {} /\ ready = {} /\ Preflights # {} /\ Postconditions # {}

PlannerInv == PlannerTypeOK /\ Selection /\ Layers /\ Stages

\* What is known of the last plan, and of the exclusions of a replan.
PlanKept ==
    /\ Replanning =>
          /\ Sound(plan)
          /\ Critics(plan) # {}
          /\ \A i, j \in DOMAIN plan.tasks : plan.tasks[i] = plan.tasks[j] => i = j
    /\ phase = "executing" => Replanning
    /\ phase = "planning" /\ Replanning =>
          Tasks(plan) \cap excluded # {} /\ replans < goal.max_replans
    /\ failed \subseteq Tasks(plan)

AttemptsLeft ==
    /\ phase = "planning" => spent < goal.max_attempts /\ used = 0
    /\ phase = "executing" => spent < goal.max_attempts /\ used <= Budget

Pending ==
    phase = "executing" =>
        \A i \in DOMAIN plan.tasks : i >= pos => taskStatus[plan.tasks[i]] = "none"

DependenciesFirst ==
    phase = "executing" =>
        \A c \in Capabilities : taskStatus[c] = "completed" =>
            \A d \in plan.deps[c] : taskStatus[d] = "completed"

RunInv ==
    /\ TypeOK
    /\ PlannerInv
    /\ PlanKept
    /\ AttemptsLeft
    /\ AttemptsWithinBudget
    /\ Pending
    /\ DependenciesFirst
    /\ ReadyMeansDelivered

----------------------------------------------------------------------------
(* The planner's steps.                                                    *)

LEMMA CapabilityTyped ==
    ASSUME NEW c \in Capabilities
    PROVE  /\ Registry[c].requires \in Seq(STRING)
           /\ Registry[c].provides \subseteq STRING
           /\ Required(c) \subseteq STRING
<1>1. DescriptorValid(c)
  BY RegistryAssumption
<1>2. Registry[c].requires \in Seq(STRING) /\ Registry[c].provides \subseteq STRING
  BY <1>1 DEF DescriptorValid
<1>3. Required(c) \subseteq STRING
  BY <1>2 DEF Required
<1> QED
  BY <1>2, <1>3

LEMMA PlannerStarts ==
    ASSUME goal \in Goals, PlannerInit
    PROVE  PlannerInv
<1>1. goal.outcomes \in Seq(STRING)
  BY GoalAssumption DEF GoalValid
<1>2. PlannerTypeOK
  BY <1>1 DEF PlannerInit, PlannerTypeOK, Steps
<1>3. Selection
  BY DEF PlannerInit, Selection, Requested, Pushed
<1>4. Layers /\ Stages
  BY DEF PlannerInit, Layers, Stages
<1> QED
  BY <1>2, <1>3, <1>4 DEF PlannerInv

LEMMA PlannerCalled ==
    ASSUME goal \in Goals, CallPlanner, UNCHANGED goal
    PROVE  PlannerInv'
<1>1. goal.outcomes \in Seq(STRING)
  BY GoalAssumption DEF GoalValid
<1>2. PlannerTypeOK'
  BY <1>1 DEF CallPlanner, PlannerTypeOK, Steps
<1>3. Selection'
  BY DEF CallPlanner, Selection, Requested, Pushed
<1>4. Layers' /\ Stages'
  BY DEF CallPlanner, Layers, Stages
<1> QED
  BY <1>2, <1>3, <1>4 DEF PlannerInv

\* What is on the stack below its top stays there.
LEMMA StackKept ==
    ASSUME todo \in Seq(STRING), todo # <<>>, NEW r \in Seq(STRING),
           todo' = r \o Tail(todo)
    PROVE  /\ todo' \in Seq(STRING)
           /\ \A o : Pushed(o) /\ o # Head(todo) => Pushed(o)'
           /\ \A k \in DOMAIN r : Pushed(r[k])'
<1>1. /\ Tail(todo) \in Seq(STRING) /\ Len(Tail(todo)) = Len(todo) - 1 /\ Len(todo) \in Nat \ {0}
      /\ \A i \in 1 .. Len(todo) - 1 : Tail(todo)[i] = todo[i + 1]
      /\ Head(todo) = todo[1] /\ DOMAIN todo = 1 .. Len(todo)
  OBVIOUS
<1>2. /\ todo' \in Seq(STRING) /\ Len(todo') = Len(r) + Len(Tail(todo))
      /\ Len(r) \in Nat /\ DOMAIN r = 1 .. Len(r) /\ DOMAIN todo' = 1 .. Len(todo')
      /\ \A i \in 1 .. Len(r) : todo'[i] = r[i]
      /\ \A i \in 1 .. Len(Tail(todo)) : todo'[Len(r) + i] = Tail(todo)[i]
  BY <1>1
<1>3. ASSUME NEW o, Pushed(o), o # Head(todo)
      PROVE  Pushed(o)'
  <2>1. PICK i \in 1 .. Len(todo) : todo[i] = o
    BY <1>1, <1>3 DEF Pushed
  <2>2. i - 1 \in 1 .. Len(todo) - 1 /\ Tail(todo)[i - 1] = o
    BY <1>1, <1>3, <2>1
  <2>3. Len(r) + (i - 1) \in DOMAIN todo' /\ todo'[Len(r) + (i - 1)] = o
    BY <1>1, <1>2, <2>2
  <2> QED
    BY <2>3 DEF Pushed
<1>4. \A k \in DOMAIN r : Pushed(r[k])'
  BY <1>1, <1>2 DEF Pushed
<1> QED
  BY <1>2, <1>3, <1>4

LEMMA ResolvedKeepsInv ==
    ASSUME PlannerInv, AlreadyProduced, UNCHANGED <<goal, excluded>>
    PROVE  PlannerInv'
<1>1. /\ todo \in Seq(STRING) /\ todo # <<>> /\ todo' = Tail(todo)
      /\ step \in {"selecting", "selecting_late"}
      /\ Head(todo) \in DOMAIN producer
      /\ UNCHANGED <<step, selected, producer, remaining, ready, ordered>>
  BY DEF PlannerInv, PlannerTypeOK, AlreadyProduced, Resolving
<1>2. todo' \in Seq(STRING) /\ \A o : Pushed(o) /\ o # Head(todo) => Pushed(o)'
  <2>1. todo' = <<>> \o Tail(todo) /\ <<>> \in Seq(STRING)
    BY <1>1
  <2>2. PICK r \in Seq(STRING) : todo' = r \o Tail(todo)
    BY <2>1
  <2> QED
    BY <1>1, <2>2, StackKept
<1>3. PlannerTypeOK'
  BY <1>1, <1>2 DEF PlannerInv, PlannerTypeOK
<1>4. Selection'
  <2>1. \A o \in Requested(goal) : o \in DOMAIN producer \/ Pushed(o)'
    BY <1>1, <1>2 DEF PlannerInv, Selection
  <2>2. \A c \in selected : Registry[c].role # "preflight" =>
          \A o \in Required(c) : o \in DOMAIN producer \/ Pushed(o)'
    BY <1>1, <1>2 DEF PlannerInv, Selection
  <2> QED
    BY <1>1, <2>1, <2>2 DEF PlannerInv, Selection, Requested
<1>5. Layers' /\ Stages'
  BY <1>1 DEF PlannerInv, Layers, Stages
<1> QED
  BY <1>3, <1>4, <1>5 DEF PlannerInv

\* A capability that is selected keeps what was known of the others.
LEMMA SelectionGrows ==
    ASSUME PlannerInv, UNCHANGED <<goal, excluded>>,
           NEW c \in Capabilities, Credit(c), selected' = selected \cup {c},
           c \notin excluded, goal.mode \in Registry[c].modes,
           Registry[c].role # "postcondition",
           Registry[c].role = "preflight" \/ \A o \in Required(c) : Pushed(o)',
           \A o : Pushed(o) => Pushed(o)' \/ o \in Registry[c].provides
    PROVE  Selection' /\ DOMAIN producer' \subseteq STRING
<1>1. DOMAIN producer' = DOMAIN producer \cup Registry[c].provides
  BY DEF Credit
<1>2. \A o \in DOMAIN producer' : producer'[o] = IF o \in DOMAIN producer THEN producer[o] ELSE c
  BY DEF Credit
<1>3. \A o \in DOMAIN producer' :
        producer'[o] \in selected' /\ o \in Registry[producer'[o]].provides
  BY <1>1, <1>2 DEF PlannerInv, Selection
<1>4. \A o \in Requested(goal) : o \in DOMAIN producer' \/ Pushed(o)'
  BY <1>1 DEF PlannerInv, Selection
<1>5. \A d \in selected' : Registry[d].role # "preflight" =>
        \A o \in Required(d) : o \in DOMAIN producer' \/ Pushed(o)'
  BY <1>1 DEF PlannerInv, Selection
<1>6. \A d \in selected' :
        d \notin excluded /\ goal.mode \in Registry[d].modes /\ Registry[d].role # "postcondition"
  BY DEF PlannerInv, Selection
<1>7. DOMAIN producer' \subseteq STRING
  BY <1>1, CapabilityTyped DEF PlannerInv, PlannerTypeOK
<1> QED
  BY <1>3, <1>4, <1>5, <1>6, <1>7 DEF Selection, Requested

LEMMA ProducerKeepsInv ==
    ASSUME PlannerInv, SelectProducer, UNCHANGED <<goal, excluded>>
    PROVE  PlannerInv'
<1>1. PICK c \in Candidates :
        /\ selected' = selected \cup {c} /\ Credit(c)
        /\ todo' = Registry[c].requires \o Tail(todo)
  BY DEF SelectProducer
<1>2. /\ c \in Capabilities /\ c \notin excluded /\ goal.mode \in Registry[c].modes
      /\ Registry[c].role # "postcondition" /\ Head(todo) \in Registry[c].provides
  BY DEF Candidates, Producers
<1>3. /\ todo \in Seq(STRING) /\ todo # <<>> /\ step \in {"selecting", "selecting_late"}
      /\ UNCHANGED <<step, remaining, ready, ordered>>
  BY DEF PlannerInv, PlannerTypeOK, SelectProducer, Resolving
<1>4. /\ todo' \in Seq(STRING)
      /\ \A o : Pushed(o) /\ o # Head(todo) => Pushed(o)'
      /\ \A k \in DOMAIN Registry[c].requires : Pushed(Registry[c].requires[k])'
  BY <1>1, <1>2, <1>3, CapabilityTyped, StackKept
<1>5. Selection' /\ DOMAIN producer' \subseteq STRING
  <2>1. \A o \in Required(c) : Pushed(o)'
    BY <1>4 DEF Required
  <2>2. \A o : Pushed(o) => Pushed(o)' \/ o \in Registry[c].provides
    BY <1>2, <1>4
  <2> QED
    BY <1>1, <1>2, <2>1, <2>2, SelectionGrows
<1>6. PlannerTypeOK'
  BY <1>1, <1>2, <1>3, <1>4, <1>5 DEF PlannerInv, PlannerTypeOK
<1>7. Layers' /\ Stages'
  BY <1>3 DEF PlannerInv, Layers, Stages
<1> QED
  BY <1>5, <1>6, <1>7 DEF PlannerInv

LEMMA PreflightKeepsInv ==
    ASSUME PlannerInv, SelectPreflight, UNCHANGED <<goal, excluded>>
    PROVE  PlannerInv'
<1>1. PICK c \in Preflights \ selected : selected' = selected \cup {c} /\ Credit(c)
  BY DEF SelectPreflight
<1>2. /\ step = "selecting" /\ Mandatory \cap excluded = {}
      /\ UNCHANGED <<step, todo, remaining, ready, ordered>>
  BY DEF SelectPreflight, Resolved
<1>3. /\ c \in Capabilities /\ c \notin excluded /\ goal.mode \in Registry[c].modes
      /\ Registry[c].role = "preflight"
  BY <1>1, <1>2 DEF Preflights, Mandatory, InRole
<1>4. Selection' /\ DOMAIN producer' \subseteq STRING
  <2>1. \A o : Pushed(o) => Pushed(o)'
    BY <1>2 DEF Pushed
  <2> QED
    BY <1>1, <1>3, <2>1, SelectionGrows
<1>5. PlannerTypeOK'
  BY <1>1, <1>2, <1>3, <1>4 DEF PlannerInv, PlannerTypeOK
<1>6. Layers' /\ Stages'
  BY <1>2 DEF PlannerInv, Layers, Stages
<1> QED
  BY <1>4, <1>5, <1>6 DEF PlannerInv

\* A late requirement goes on an empty stack.
LEMMA LateKeepsInv ==
    ASSUME PlannerInv, ResolveLate, UNCHANGED <<goal, excluded>>
    PROVE  PlannerInv'
<1>1. PICK c \in selected : todo' = Registry[c].requires
  BY DEF ResolveLate
<1>2. /\ todo = <<>> /\ step' = "selecting_late"
      /\ UNCHANGED <<selected, producer, remaining, ready, ordered>>
  BY DEF ResolveLate, Surrounded, Resolved
<1>3. PlannerTypeOK'
  BY <1>1, <1>2, CapabilityTyped DEF PlannerInv, PlannerTypeOK, Steps
<1>4. \A p : ~Pushed(p)
  <2>1. DOMAIN todo = {}
    BY <1>2
  <2> QED
    BY <2>1 DEF Pushed
<1>5. Selection'
  BY <1>2, <1>4 DEF PlannerInv, Selection, Requested
<1>6. Layers' /\ Stages'
  BY <1>2 DEF Layers, Stages
<1> QED
  BY <1>3, <1>5, <1>6 DEF PlannerInv

LEMMA SelectionUnchanged ==
    ASSUME Selection, UNCHANGED <<goal, excluded, todo, selected, producer>>
    PROVE  Selection'
BY DEF Selection, Requested, Pushed

LEMMA EndsKeepsInv ==
    ASSUME PlannerInv, UNCHANGED <<goal, excluded>>,
           \/ Ends("unplannable") \/ Ends("rejected") \/ UNCHANGED planner
           \/ PlanAccepted
    PROVE  PlannerInv'
<1>1. /\ UNCHANGED <<todo, selected, producer, remaining, ready, ordered>>
      /\ step' \in {step, "unplannable", "rejected", "planned"}
      /\ step' = "planned" => PlanAccepted \/ step = "planned"
  BY DEF Ends, planner, PlanAccepted
<1>2. Selection'
  BY <1>1, SelectionUnchanged DEF PlannerInv
<1>3. PlannerTypeOK'
  BY <1>1 DEF PlannerInv, PlannerTypeOK, Steps
<1>4. UNCHANGED <<Mandatory, Preflights, Postconditions, Dependencies>>
  BY <1>1 DEF Mandatory, Preflights, Postconditions, Dependencies
<1>5. step' \in {"ordering", "planned"} => step \in {"ordering", "planned"}
  BY <1>1 DEF PlanAccepted, InOrder
<1>6. Layers'
  BY <1>1, <1>4, <1>5 DEF PlannerInv, Layers, Placed
<1>7. Stages'
  BY <1>1, <1>4 DEF PlannerInv, Stages, PlanAccepted, InOrder, PlanAcceptable
<1> QED
  BY <1>2, <1>3, <1>6, <1>7 DEF PlannerInv

LEMMA ArrangeKeepsInv ==
    ASSUME PlannerInv, Arrange, UNCHANGED <<goal, excluded>>
    PROVE  PlannerInv'
<1>1. /\ step = "selecting" /\ step' = "ordering" /\ todo = <<>>
      /\ Mandatory \cap excluded = {} /\ Preflights \subseteq selected
      /\ \A c \in selected : Required(c) \subseteq DOMAIN producer
      /\ remaining' = selected \cup Postconditions
      /\ UNCHANGED <<todo, selected, producer, ready, ordered>>
  BY DEF Arrange, Surrounded, Resolved
<1>2. ready = {} /\ ordered = <<>>
  BY <1>1 DEF PlannerInv, Stages
<1>3. UNCHANGED <<Mandatory, Preflights, Postconditions>>
  BY DEF Mandatory, Preflights, Postconditions
<1>4. Selection'
  BY <1>1, SelectionUnchanged DEF PlannerInv
<1>5. Postconditions \subseteq Capabilities
  BY DEF Postconditions, InRole
<1>6. PlannerTypeOK'
  BY <1>1, <1>5 DEF PlannerInv, PlannerTypeOK, Steps
<1>7. \A c : ~Placed(c)'
  BY <1>1, <1>2 DEF Placed
<1>8. DOMAIN ordered' = {}
  BY <1>1, <1>2
<1>9. Layers'
  BY <1>1, <1>2, <1>3, <1>7, <1>8 DEF Layers
<1>10. Stages'
  BY <1>1 DEF Stages
<1> QED
  BY <1>4, <1>6, <1>9, <1>10 DEF PlannerInv

\* What a task waits for is selected.
LEMMA DependenciesSelected ==
    ASSUME PlannerInv, step \in {"ordering", "planned"}, NEW c \in Capabilities
    PROVE  Dependencies[c] \subseteq selected
<1>1. CASE c \in Postconditions
  BY <1>1 DEF Dependencies
<1>2. CASE c \notin Postconditions /\ c \in selected
  <2>1. \A o \in Required(c) : o \in DOMAIN producer /\ producer[o] \in selected
    BY <1>2 DEF PlannerInv, Selection, Layers
  <2> QED
    BY <1>2, <2>1 DEF Dependencies
<1>3. CASE c \notin Postconditions /\ c \notin selected
  BY <1>3 DEF Dependencies
<1> QED
  BY <1>1, <1>2, <1>3

LEMMA LayerKeepsInv ==
    ASSUME PlannerInv, NextLayer, UNCHANGED <<goal, excluded>>
    PROVE  PlannerInv'
<1>1. /\ step = "ordering" /\ ready = {} /\ ready' = Layer /\ remaining' = remaining \ Layer
      /\ UNCHANGED <<step, todo, selected, producer, ordered>>
  BY DEF NextLayer, Layering
<1>2. UNCHANGED <<Mandatory, Preflights, Postconditions, Dependencies>>
  BY <1>1 DEF Mandatory, Preflights, Postconditions, Dependencies
<1>3. Layer \subseteq remaining /\ remaining \subseteq Capabilities
  BY DEF Layer, PlannerInv, PlannerTypeOK
<1>4. Selection'
  BY <1>1, SelectionUnchanged DEF PlannerInv
<1>5. PlannerTypeOK'
  BY <1>1, <1>3 DEF PlannerInv, PlannerTypeOK
<1>6. Stages'
  BY <1>1 DEF Stages
<1>7. \A c : Placed(c)' = Placed(c)
  BY <1>1 DEF Placed
<1>8. ASSUME NEW c \in ready', NEW d \in Dependencies[c]
      PROVE  Placed(d)
  <2>1. c \in Capabilities /\ Dependencies[c] \cap remaining = {} /\ todo = <<>>
    BY <1>1, <1>3 DEF Layer, PlannerInv, Layers
  <2>2. d \in selected /\ d \notin remaining /\ d \in Capabilities
    BY <1>1, <2>1, DependenciesSelected DEF PlannerInv, PlannerTypeOK
  <2> QED
    BY <1>1, <2>2 DEF PlannerInv, Layers
<1>9. \A c \in Capabilities :
        (c \in remaining' \/ c \in ready') <=> (c \in remaining \/ c \in ready)
  BY <1>1, <1>3
<1>10. ready' \cap remaining' = {} /\ ready' \cup remaining' = remaining
  BY <1>1, <1>3
<1>11. \A i \in DOMAIN ordered : \A d \in Dependencies[ordered[i]] :
         \E j \in DOMAIN ordered : j < i /\ ordered[j] = d
  BY <1>1 DEF PlannerInv, Layers
<1>12. /\ todo = <<>> /\ Mandatory \cap excluded = {} /\ Preflights \subseteq selected
       /\ \A c \in selected : Required(c) \subseteq DOMAIN producer
       /\ \A c \in Capabilities :
             (c \in selected \/ c \in Postconditions) <=>
                (c \in remaining \/ c \in ready \/ Placed(c))
       /\ \A c \in remaining : ~Placed(c)
       /\ \A i, j \in DOMAIN ordered : ordered[i] = ordered[j] => i = j
  BY <1>1 DEF PlannerInv, Layers
<1>13. \A c \in ready' \cup remaining' : ~Placed(c)'
  BY <1>7, <1>10, <1>12
<1>14. \A c \in Capabilities :
         (c \in selected \/ c \in Postconditions) <=>
            (c \in remaining' \/ c \in ready' \/ Placed(c)')
  BY <1>7, <1>9, <1>12
<1>15. \A c \in ready' : \A d \in Dependencies'[c] : Placed(d)'
  BY <1>2, <1>7, <1>8
<1>16. Layers'
  BY <1>1, <1>2, <1>10, <1>11, <1>12, <1>13, <1>14, <1>15 DEF Layers
<1> QED
  BY <1>4, <1>5, <1>6, <1>16 DEF PlannerInv

LEMMA TaskKeepsInv ==
    ASSUME PlannerInv, OrderTask, UNCHANGED <<goal, excluded>>
    PROVE  PlannerInv'
<1>1. PICK c \in ready : ready' = ready \ {c} /\ ordered' = Append(ordered, c)
  BY DEF OrderTask
<1>2. step = "ordering" /\ UNCHANGED <<step, todo, selected, producer, remaining>>
  BY DEF OrderTask
<1>3. UNCHANGED <<Mandatory, Preflights, Postconditions, Dependencies>>
  BY <1>2 DEF Mandatory, Preflights, Postconditions, Dependencies
<1>4. /\ c \in Capabilities /\ ordered \in Seq(Capabilities)
      /\ ready \subseteq Capabilities /\ remaining \subseteq Capabilities
  BY <1>1 DEF PlannerInv, PlannerTypeOK
<1>5. /\ ordered' \in Seq(Capabilities) /\ Len(ordered) \in Nat
      /\ DOMAIN ordered = 1 .. Len(ordered) /\ DOMAIN ordered' = 1 .. Len(ordered) + 1
      /\ \A i \in 1 .. Len(ordered) : ordered'[i] = ordered[i]
      /\ ordered'[Len(ordered) + 1] = c
  BY <1>1, <1>4
<1>6. Selection'
  BY <1>2, SelectionUnchanged DEF PlannerInv
<1>7. PlannerTypeOK'
  BY <1>1, <1>2, <1>5 DEF PlannerInv, PlannerTypeOK
<1>8. Stages'
  BY <1>2 DEF Stages
<1>9. /\ todo = <<>> /\ Mandatory \cap excluded = {} /\ Preflights \subseteq selected
      /\ \A d \in selected : Required(d) \subseteq DOMAIN producer
      /\ \A d \in Capabilities :
           (d \in selected \/ d \in Postconditions) <=>
              (d \in remaining \/ d \in ready \/ Placed(d))
      /\ ready \cap remaining = {}
      /\ \A d \in ready \cup remaining : ~Placed(d)
      /\ \A i, j \in DOMAIN ordered : ordered[i] = ordered[j] => i = j
      /\ \A i \in DOMAIN ordered : \A d \in Dependencies[ordered[i]] :
           \E j \in DOMAIN ordered : j < i /\ ordered[j] = d
      /\ \A b \in ready : \A d \in Dependencies[b] : Placed(d)
  BY <1>2 DEF PlannerInv, Layers
<1>10. \A d : Placed(d)' <=> Placed(d) \/ d = c
  BY <1>5 DEF Placed
<1>11. \A d \in Capabilities :
         (d \in selected \/ d \in Postconditions) <=>
            (d \in remaining' \/ d \in ready' \/ Placed(d)')
  BY <1>1, <1>2, <1>9, <1>10
<1>12. ready' \cap remaining' = {} /\ \A d \in ready' \cup remaining' : ~Placed(d)'
  BY <1>1, <1>2, <1>9, <1>10
<1>13. ASSUME NEW i \in DOMAIN ordered', NEW j \in DOMAIN ordered', ordered'[i] = ordered'[j]
       PROVE  i = j
  <2>1. \A k \in 1 .. Len(ordered) : ordered[k] # c
    BY <1>1, <1>5, <1>9 DEF Placed
  <2> QED
    BY <1>5, <1>9, <1>13, <2>1
<1>14. ASSUME NEW i \in DOMAIN ordered', NEW d \in Dependencies[ordered'[i]]
       PROVE  \E j \in DOMAIN ordered' : j < i /\ ordered'[j] = d
  <2>1. CASE i \in 1 .. Len(ordered)
    <3>1. PICK j \in 1 .. Len(ordered) : j < i /\ ordered[j] = d
      BY <1>5, <1>9, <2>1
    <3> QED
      BY <1>5, <3>1
  <2>2. CASE i = Len(ordered) + 1
    <3>1. d \in Dependencies[c]
      BY <1>5, <2>2
    <3>2. PICK j \in 1 .. Len(ordered) : ordered[j] = d
      BY <1>1, <1>5, <1>9, <3>1 DEF Placed
    <3> QED
      BY <1>5, <2>2, <3>2
  <2> QED
    BY <1>5, <2>1, <2>2
<1>15. \A b \in ready' : \A d \in Dependencies[b] : Placed(d)'
  BY <1>1, <1>9, <1>10
<1>16. Layers'
  BY <1>2, <1>3, <1>9, <1>11, <1>12, <1>13, <1>14, <1>15 DEF Layers
<1> QED
  BY <1>6, <1>7, <1>8, <1>16 DEF PlannerInv

LEMMA PlannerKeepsInv ==
    ASSUME PlannerInv, PlannerNext, UNCHANGED <<goal, excluded>>
    PROVE  PlannerInv'
<1>1. CASE AlreadyProduced
  BY <1>1, ResolvedKeepsInv
<1>2. CASE SelectProducer
  BY <1>2, ProducerKeepsInv
<1>3. CASE SelectPreflight
  BY <1>3, PreflightKeepsInv
<1>4. CASE Arrange
  BY <1>4, ArrangeKeepsInv
<1>5. CASE NextLayer
  BY <1>5, LayerKeepsInv
<1>6. CASE OrderTask
  BY <1>6, TaskKeepsInv
<1>7. CASE NoProducer \/ MandatoryExcluded \/ Cycle \/ TooManyTasks
  BY <1>7, EndsKeepsInv DEF NoProducer, MandatoryExcluded, Cycle, TooManyTasks
<1>8. CASE SelectionChanged \/ PlanRejected
  BY <1>8, EndsKeepsInv DEF SelectionChanged, PlanRejected
<1>9. CASE PlanAccepted
  BY <1>9, EndsKeepsInv
<1>10. CASE ResolveLate
  BY <1>10, LateKeepsInv
<1> QED
  BY <1>1, <1>2, <1>3, <1>4, <1>5, <1>6, <1>7, <1>8, <1>9, <1>10 DEF PlannerNext

\* What the planner's invariant says of the plan it returns.
LEMMA DraftSound ==
    ASSUME PlannerInv, step = "planned"
    PROVE  /\ Draft \in [tasks : Seq(Capabilities), deps : [Capabilities -> SUBSET Capabilities]]
           /\ Draft.tasks # <<>>
           /\ Sound(Draft)
           /\ Critics(Draft) # {}
           /\ \A i, j \in DOMAIN Draft.tasks : Draft.tasks[i] = Draft.tasks[j] => i = j
           /\ Tasks(Draft) \cap excluded = {}
<1> DEFINE q == Draft
<1>1. q.tasks = ordered /\ q.deps = Dependencies
  BY DEF Draft
<1>2. /\ todo = <<>> /\ remaining = {} /\ ready = {}
      /\ Preflights # {} /\ Postconditions # {} /\ Preflights \subseteq selected
      /\ Mandatory \cap excluded = {}
      /\ \A c \in selected : Required(c) \subseteq DOMAIN producer
      /\ selected \subseteq Capabilities /\ ordered \in Seq(Capabilities)
      /\ \A c \in Capabilities : (c \in selected \/ c \in Postconditions) <=> Placed(c)
      /\ \A i, j \in DOMAIN ordered : ordered[i] = ordered[j] => i = j
      /\ \A i \in DOMAIN ordered : \A d \in Dependencies[ordered[i]] :
           \E j \in DOMAIN ordered : j < i /\ ordered[j] = d
  BY DEF PlannerInv, PlannerTypeOK, Layers, Stages
<1>3. \A c \in Capabilities : c \in Postconditions <=>
        Registry[c].role = "postcondition" /\ goal.mode \in Registry[c].modes
  BY DEF Postconditions, InRole
<1>4. \A c \in selected :
        c \notin excluded /\ goal.mode \in Registry[c].modes /\ Registry[c].role # "postcondition"
  BY DEF PlannerInv, Selection
<1>5. Tasks(q) = selected \cup Postconditions
  <2>1. Tasks(q) \subseteq Capabilities
    BY <1>1, <1>2 DEF Tasks
  <2>2. \A c \in Capabilities : c \in Tasks(q) <=> Placed(c)
    BY <1>1 DEF Tasks, Placed
  <2>3. Postconditions \subseteq Capabilities
    BY DEF Postconditions, InRole
  <2> QED
    BY <1>2, <2>1, <2>2, <2>3
<1>6. Critics(q) = Postconditions /\ Tasks(q) \ Critics(q) = selected
  BY <1>2, <1>3, <1>4, <1>5 DEF Critics, Postconditions, InRole
<1>7. q.tasks # <<>>
  <2>1. PICK c \in Capabilities : c \in Postconditions
    BY <1>2 DEF Postconditions, InRole
  <2>2. PICK i \in DOMAIN ordered : ordered[i] = c
    BY <1>2, <2>1 DEF Placed
  <2> QED
    BY <1>1, <2>2
<1>8. q.deps \in [Capabilities -> SUBSET Capabilities]
  <2>1. \A c \in Capabilities : Dependencies[c] \in SUBSET Capabilities
    BY <1>2, DependenciesSelected
  <2>2. Dependencies = [c \in Capabilities |-> Dependencies[c]]
    BY DEF Dependencies
  <2> QED
    BY <1>1, <2>1, <2>2
<1>9. \A o \in Requested(goal) : \E c \in Tasks(q) : o \in Registry[c].provides
  BY <1>2, <1>5 DEF PlannerInv, Selection, Pushed
<1>10. \A c \in Tasks(q) : goal.mode \in Registry[c].modes
  BY <1>2, <1>3, <1>4, <1>5 DEF Postconditions, InRole
<1>11. \E c \in Tasks(q) : Registry[c].role = "preflight"
  BY <1>2, <1>5 DEF Preflights, InRole
<1>12. ASSUME NEW c \in Tasks(q) \ Critics(q), NEW o \in Required(c)
       PROVE  \E d \in q.deps[c] \cup {c} : o \in Registry[d].provides
  <2>1. c \in selected /\ c \in Capabilities /\ c \notin Postconditions
    BY <1>2, <1>3, <1>4, <1>6
  <2>2. o \in DOMAIN producer /\ o \in Registry[producer[o]].provides
    BY <1>2, <2>1 DEF PlannerInv, Selection
  <2>3. Dependencies[c] = {producer[p] : p \in Required(c)} \ {c}
    BY <2>1 DEF Dependencies
  <2>4. producer[o] \in Dependencies[c] \cup {c}
    BY <2>3
  <2> QED
    BY <1>1, <2>2, <2>4
<1>13. \A c \in Critics(q) : Tasks(q) \ Critics(q) \subseteq q.deps[c]
  <2>1. \A c \in Postconditions : c \in Capabilities /\ Dependencies[c] = selected
    BY DEF Dependencies, Postconditions, InRole
  <2> QED
    BY <1>1, <1>6, <2>1
<1>14. Sound(q)
  BY <1>1, <1>2, <1>9, <1>10, <1>11, <1>12, <1>13 DEF Sound
<1>15. Tasks(q) \cap excluded = {}
  BY <1>2, <1>4, <1>5 DEF Mandatory
<1>16. q \in [tasks : Seq(Capabilities), deps : [Capabilities -> SUBSET Capabilities]]
  BY <1>1, <1>2, <1>8 DEF Draft
<1> QED
  BY <1>1, <1>2, <1>6, <1>7, <1>14, <1>15, <1>16

----------------------------------------------------------------------------
(* The plan and the task being executed.                                   *)

LEMMA CurrentTyped ==
    ASSUME RunInv, AtTask
    PROVE  /\ Current \in Capabilities
           /\ pos \in DOMAIN plan.tasks
           /\ taskStatus[Current] = "none"
<1>1. plan.tasks \in Seq(Capabilities) /\ pos \in Nat \ {0}
  BY DEF RunInv, TypeOK
<1>2. pos \in DOMAIN plan.tasks
  BY <1>1 DEF AtTask
<1>3. Current \in Capabilities
  BY <1>1, <1>2 DEF Current
<1>4. taskStatus[Current] = "none"
  BY <1>1, <1>2 DEF RunInv, Pending, AtTask, Current
<1> QED
  BY <1>2, <1>3, <1>4

\* An execution that has attempts left is limited by them.
LEMMA BudgetIsWhatIsLeft ==
    ASSUME TypeOK, spent < goal.max_attempts
    PROVE  Budget = goal.max_attempts - spent
BY GoalAssumption DEF GoalValid, TypeOK, Budget

\* The plan is kept when a step that leaves it alone neither starts a planning
\* nor an execution.
LEMMA PlanUnchanged ==
    ASSUME PlanKept, UNCHANGED <<goal, plan, excluded, replans, failed>>,
           phase' \in {phase} \cup Ended
    PROVE  PlanKept'
<1>1. Sound(plan)' = Sound(plan) /\ Critics(plan)' = Critics(plan) /\ Replanning' = Replanning
  BY DEF Sound, Tasks, Critics, Requested, Replanning
<1> QED
  BY <1>1 DEF PlanKept, Tasks, Ended

LEMMA InitHolds == Init => RunInv
<1> SUFFICES ASSUME Init PROVE RunInv
  OBVIOUS
<1>1. goal \in Goals /\ goal.max_attempts \in Nat \ {0} /\ goal.max_replans \in Nat
  BY GoalAssumption DEF GoalValid, Init
<1>2. PlannerInv
  BY <1>1, PlannerStarts DEF Init
<1>3. PlanKept
  BY DEF Init, PlanKept, Replanning, NoPlan
<1>4. TypeOK
  <2>1. plan \in [tasks : Seq(Capabilities), deps : [Capabilities -> SUBSET Capabilities]]
    BY DEF Init, NoPlan
  <2> QED
    BY <1>1, <1>2, <2>1 DEF Init, TypeOK, PlannerInv, Ended
<1>5. AttemptsLeft /\ AttemptsWithinBudget
  BY <1>1 DEF Init, AttemptsLeft, AttemptsWithinBudget
<1>6. Pending /\ DependenciesFirst /\ ReadyMeansDelivered
  BY DEF Init, Pending, DependenciesFirst, ReadyMeansDelivered
<1> QED
  BY <1>2, <1>3, <1>4, <1>5, <1>6 DEF RunInv

----------------------------------------------------------------------------
(* Planning.                                                               *)

LEMMA PlanningKeepsInv ==
    ASSUME RunInv, MakePlan
    PROVE  RunInv'
<1>1. /\ phase = "planning" /\ PlannerNext
      /\ UNCHANGED <<phase, goal, handled, permitted, plan, excluded, replans, spent>>
      /\ UNCHANGED <<used, pos, tries, taskStatus, available, failed>>
  BY DEF MakePlan, execution
<1>2. PlannerInv'
  BY <1>1, PlannerKeepsInv DEF RunInv
<1>3. TypeOK'
  BY <1>1, <1>2 DEF RunInv, TypeOK, PlannerInv
<1>4. PlanKept'
  BY <1>1, PlanUnchanged DEF RunInv
<1>5. AttemptsLeft' /\ AttemptsWithinBudget'
  BY <1>1 DEF RunInv, AttemptsLeft, AttemptsWithinBudget
<1>6. Pending' /\ DependenciesFirst' /\ ReadyMeansDelivered'
  BY <1>1 DEF Pending, DependenciesFirst, ReadyMeansDelivered
<1> QED
  BY <1>2, <1>3, <1>4, <1>5, <1>6 DEF RunInv

LEMMA ExecutionBegins ==
    ASSUME RunInv, BeginExecution
    PROVE  RunInv'
<1>1. /\ phase = "planning" /\ step = "planned" /\ phase' = "executing" /\ plan' = Draft
      /\ replans' = IF Replanning THEN replans + 1 ELSE replans
      /\ UNCHANGED <<goal, handled, permitted, excluded, spent, planner>>
      /\ used' = 0 /\ pos' = 1 /\ tries' = 0 /\ available' = {} /\ failed' = {}
      /\ taskStatus' = [c \in Capabilities |-> "none"]
  BY DEF BeginExecution, Fresh
<1>2. PlannerInv'
  BY <1>1, EndsKeepsInv DEF RunInv
<1>3. /\ plan' \in [tasks : Seq(Capabilities), deps : [Capabilities -> SUBSET Capabilities]]
      /\ plan'.tasks # <<>> /\ Critics(plan') # {}
      /\ \A i, j \in DOMAIN plan'.tasks : plan'.tasks[i] = plan'.tasks[j] => i = j
  BY <1>1, DraftSound DEF RunInv
<1>4. Sound(plan)'
  <2>1. Sound(Draft)
    BY <1>1, DraftSound DEF RunInv
  <2> HIDE DEF Draft
  <2> QED
    BY <1>1, <2>1 DEF Sound, Tasks, Critics, Requested
<1>5. /\ spent \in Nat /\ spent < goal.max_attempts /\ replans \in Nat
      /\ goal.max_attempts \in Nat \ {0} /\ goal.max_replans \in Nat
      /\ replans' \in Nat /\ replans' <= goal.max_replans
  BY <1>1, GoalAssumption
     DEF GoalValid, RunInv, TypeOK, AttemptsLeft, PlanKept, AttemptsWithinBudget
<1>6. TypeOK'
  BY <1>1, <1>2, <1>3, <1>5 DEF RunInv, TypeOK, PlannerInv
<1>7. PlanKept'
  <2>1. Critics(plan)' # {} /\ Replanning'
    BY <1>3 DEF Critics, Tasks, Replanning
  <2> QED
    BY <1>1, <1>3, <1>4, <2>1 DEF PlanKept
<1>8. AttemptsLeft' /\ AttemptsWithinBudget'
  BY <1>1, <1>5 DEF AttemptsLeft, AttemptsWithinBudget, Budget
<1>9. Pending' /\ DependenciesFirst' /\ ReadyMeansDelivered'
  BY <1>1, <1>3 DEF Pending, DependenciesFirst, ReadyMeansDelivered
<1> QED
  BY <1>2, <1>6, <1>7, <1>8, <1>9 DEF RunInv

LEMMA PlanningEnds ==
    ASSUME RunInv, GoalUnplannable \/ PlanningRaises
    PROVE  RunInv'
<1>1. /\ phase = "planning" /\ phase' \in {"blocked", "unplannable", "raised"}
      /\ UNCHANGED <<goal, handled, permitted, plan, excluded, replans, spent, planner>>
      /\ UNCHANGED <<used, pos, tries, taskStatus, available, failed>>
  BY DEF GoalUnplannable, PlanningRaises, execution
<1>2. PlannerInv'
  BY <1>1, EndsKeepsInv DEF RunInv, planner
<1>3. TypeOK'
  BY <1>1, <1>2 DEF RunInv, TypeOK, PlannerInv, Ended
<1>4. PlanKept'
  BY <1>1, PlanUnchanged DEF RunInv, Ended
<1>5. AttemptsWithinBudget'
  BY <1>1 DEF RunInv, AttemptsWithinBudget
<1>6. AttemptsLeft' /\ Pending' /\ DependenciesFirst' /\ ReadyMeansDelivered'
  BY <1>1 DEF AttemptsLeft, Pending, DependenciesFirst, ReadyMeansDelivered
<1> QED
  BY <1>2, <1>3, <1>4, <1>5, <1>6 DEF RunInv

----------------------------------------------------------------------------
(* The executor.                                                           *)

LEMMA RecordKeepsInv ==
    ASSUME RunInv, AtTask,
           NEW status \in {"completed", "failed", "blocked", "skipped"},
           NEW provided \in SUBSET UNION {Registry[c].provides : c \in Capabilities},
           Record(status, provided),
           status = "completed" => DependenciesDone,
           \/ used' = used
           \/ used < Budget /\ used' = used + 1
    PROVE  RunInv'
<1> DEFINE now == Current
<1>1. /\ now \in Capabilities /\ taskStatus[now] = "none"
      /\ pos \in DOMAIN plan.tasks /\ now = plan.tasks[pos]
  BY CurrentTyped DEF Current
<1>2. /\ taskStatus \in [Capabilities -> {"none", "completed", "failed", "blocked", "skipped"}]
      /\ taskStatus' = [taskStatus EXCEPT ![now] = status]
  BY DEF RunInv, TypeOK, Record
<1>3. UNCHANGED <<phase, goal, handled, permitted, plan, excluded, replans, spent, planner>>
  BY DEF Record
<1>4. /\ phase = "executing" /\ spent \in Nat /\ used \in Nat /\ pos \in Nat \ {0}
      /\ goal.max_attempts \in Nat \ {0} /\ goal.max_replans \in Nat
      /\ spent < goal.max_attempts /\ used <= goal.max_attempts - spent
      /\ Budget = goal.max_attempts - spent
  BY GoalAssumption, BudgetIsWhatIsLeft DEF GoalValid, RunInv, AtTask, TypeOK, AttemptsLeft
<1>5. used' \in Nat /\ used' <= goal.max_attempts - spent
  BY <1>4
<1> HIDE DEF now
<1>6. TypeOK'
  <2>1. failed' \subseteq Capabilities /\ pos' \in Nat \ {0} /\ tries' = 0
    BY <1>1, <1>4 DEF Record, RunInv, TypeOK, now
  <2>2. available' \subseteq UNION {Registry[c].provides : c \in Capabilities}
    BY DEF Record, RunInv, TypeOK
  <2>3. taskStatus' \in [Capabilities -> {"none", "completed", "failed", "blocked", "skipped"}]
    BY <1>2
  <2>4. PlannerTypeOK'
    BY <1>3 DEF RunInv, TypeOK, PlannerTypeOK, planner
  <2> QED
    BY <1>3, <1>5, <2>1, <2>2, <2>3, <2>4 DEF RunInv, TypeOK
<1>12. PlannerInv'
  BY <1>3, EndsKeepsInv DEF RunInv
<1>7. PlanKept'
  <2>1. failed' \subseteq failed \cup {now} /\ now \in Tasks(plan)
    BY <1>1 DEF Record, Tasks, now
  <2> QED
    BY <1>3, <1>4, <2>1 DEF RunInv, PlanKept, Replanning, Sound, Tasks, Critics, Requested
<1>8. AttemptsLeft' /\ AttemptsWithinBudget'
  <2>1. Budget' = goal.max_attempts - spent
    BY <1>3, <1>4 DEF Budget
  <2>2. AttemptsLeft'
    BY <1>3, <1>4, <1>5, <2>1 DEF AttemptsLeft
  <2>3. replans <= goal.max_replans
    BY DEF RunInv, AttemptsWithinBudget
  <2>4. AttemptsWithinBudget'
    BY <1>3, <1>4, <1>5, <2>3 DEF AttemptsWithinBudget
  <2> QED
    BY <2>2, <2>4
<1>9. Pending'
  <2> SUFFICES ASSUME NEW i \in DOMAIN plan.tasks, i >= pos + 1
               PROVE  taskStatus'[plan.tasks[i]] = "none"
    BY <1>3 DEF Pending, Record
  <2>1. /\ plan.tasks \in Seq(Capabilities)
        /\ \A k, j \in DOMAIN plan.tasks : plan.tasks[k] = plan.tasks[j] => k = j
    BY <1>4 DEF RunInv, TypeOK, PlanKept
  <2>2. i \in Nat /\ i >= pos /\ i # pos
    BY <1>4, <2>1
  <2>3. plan.tasks[i] # now
    BY <1>1, <2>1, <2>2
  <2>4. taskStatus[plan.tasks[i]] = "none"
    BY <1>4, <2>2 DEF RunInv, Pending
  <2>5. plan.tasks[i] \in Capabilities
    BY <2>1
  <2> QED
    BY <1>2, <2>3, <2>4, <2>5
<1>10. DependenciesFirst'
  <2> SUFFICES ASSUME NEW c \in Capabilities, taskStatus'[c] = "completed",
                      NEW d \in plan.deps[c]
               PROVE  taskStatus'[d] = "completed"
    BY <1>3 DEF DependenciesFirst
  <2>1. d \in Capabilities
    BY DEF RunInv, TypeOK
  <2>2. taskStatus[d] = "completed"
    <3>1. CASE c = now
      <4>1. DependenciesDone
        BY <1>1, <1>2, <3>1
      <4> QED
        BY <4>1, <3>1 DEF DependenciesDone, now
    <3>2. CASE c # now
      BY <1>2, <1>4, <3>2 DEF RunInv, DependenciesFirst
    <3> QED
      BY <3>1, <3>2
  <2> QED
    BY <1>1, <1>2, <2>1, <2>2
<1>11. ReadyMeansDelivered'
  BY <1>3, <1>4 DEF ReadyMeansDelivered
<1> QED
  BY <1>6, <1>7, <1>8, <1>9, <1>10, <1>11, <1>12 DEF RunInv

LEMMA RetryKeepsInv ==
    ASSUME RunInv, TriedAgain \/ ResultRejected
    PROVE  RunInv'
<1>1. /\ UNCHANGED <<goal, handled, permitted, plan, excluded, replans, spent, planner,
                     pos, taskStatus, available, failed>>
      /\ phase' \in {"executing", "raised"} /\ phase = "executing"
      /\ used' = used + 1 /\ used < Budget
      /\ tries' \in {tries, tries + 1}
  BY DEF TriedAgain, ResultRejected, HandlerCalled, Attempt, AtTask
<1>2. /\ spent \in Nat /\ used \in Nat /\ tries \in Nat
      /\ goal.max_attempts \in Nat \ {0} /\ goal.max_replans \in Nat
      /\ spent < goal.max_attempts
      /\ Budget = goal.max_attempts - spent
  BY <1>1, GoalAssumption, BudgetIsWhatIsLeft DEF GoalValid, RunInv, TypeOK, AttemptsLeft
<1>7. PlannerInv'
  BY <1>1, EndsKeepsInv DEF RunInv
<1>3. TypeOK'
  BY <1>1, <1>2, <1>7 DEF RunInv, TypeOK, PlannerInv, Ended
<1>4. PlanKept'
  BY <1>1, PlanUnchanged DEF RunInv, Ended
<1>5. AttemptsLeft' /\ AttemptsWithinBudget'
  <2>1. Budget' = goal.max_attempts - spent
    BY <1>1, <1>2 DEF Budget
  <2>2. replans <= goal.max_replans
    BY DEF RunInv, AttemptsWithinBudget
  <2> QED
    BY <1>1, <1>2, <2>1, <2>2 DEF AttemptsLeft, AttemptsWithinBudget
<1>6. Pending' /\ DependenciesFirst' /\ ReadyMeansDelivered'
  BY <1>1 DEF RunInv, Pending, DependenciesFirst, ReadyMeansDelivered
<1> QED
  BY <1>3, <1>4, <1>5, <1>6, <1>7 DEF RunInv

LEMMA ExecuteKeepsInv ==
    ASSUME RunInv, Execute
    PROVE  RunInv'
<1> DEFINE Kept(status, provided) ==
      /\ AtTask
      /\ status \in {"completed", "failed", "blocked", "skipped"}
      /\ provided \in SUBSET UNION {Registry[c].provides : c \in Capabilities}
      /\ Record(status, provided)
      /\ status = "completed" => DependenciesDone
      /\ used' = used \/ (used < Budget /\ used' = used + 1)
<1>1. ASSUME NEW status, NEW provided, Kept(status, provided)
      PROVE  RunInv'
  BY <1>1, RecordKeepsInv
<1>2. CASE Skip
  <2>1. Kept("skipped", {})
    BY <1>2 DEF Skip
  <2> QED
    BY <2>1, <1>1
<1>3. CASE BudgetExhausted
  <2>1. Kept("blocked", {})
    BY <1>3 DEF BudgetExhausted
  <2> QED
    BY <2>1, <1>1
<1>4. CASE HandlerUnavailable
  <2>1. Kept("failed", {})
    BY <1>4 DEF HandlerUnavailable
  <2> QED
    BY <2>1, <1>1
<1>5. CASE PreflightRuns
  <2>1. AtTask /\ "policy_context" \in Registry[Current].provides /\ Current \in Capabilities
    BY <1>5, CurrentTyped DEF PreflightRuns, Attempt
  <2>2. Kept("completed", {"policy_context"})
    BY <1>5, <2>1 DEF PreflightRuns, Attempt
  <2> QED
    BY <2>2, <1>1
<1>6. CASE CriticCompletes
  <2>1. AtTask /\ "evidence_critique" \in Registry[Current].provides /\ Current \in Capabilities
    BY <1>6, CurrentTyped DEF CriticCompletes, Attempt
  <2>2. Kept("completed", {"evidence_critique"})
    BY <1>6, <2>1 DEF CriticCompletes, Attempt
  <2> QED
    BY <2>2, <1>1
<1>11. CASE CriticBlocks
  <2>1. Kept("blocked", {})
    BY <1>11 DEF CriticBlocks, Attempt
  <2> QED
    BY <2>1, <1>1
<1>7. CASE HandlerCompletes
  <2>1. AtTask
    BY <1>7 DEF HandlerCompletes, HandlerCalled, Attempt
  <2>2. PICK provided \in SUBSET Registry[Current].provides : Record("completed", provided)
    BY <1>7 DEF HandlerCompletes
  <2>3. Current \in Capabilities
    BY <2>1, CurrentTyped
  <2>4. Kept("completed", provided)
    BY <1>7, <2>2, <2>3 DEF HandlerCompletes, HandlerCalled, Attempt
  <2> QED
    BY <2>4, <1>1
<1>8. CASE HandlerFails
  <2>1. PICK status \in {"failed", "blocked", "skipped"} : Record(status, {})
    BY <1>8 DEF HandlerFails
  <2>2. Kept(status, {})
    BY <1>8, <2>1 DEF HandlerFails, HandlerCalled, Attempt
  <2> QED
    BY <2>2, <1>1
<1>9. CASE HandlerDenied
  <2>1. Kept("blocked", {})
    BY <1>9 DEF HandlerDenied, HandlerCalled, Attempt
  <2> QED
    BY <2>1, <1>1
<1>10. CASE TriedAgain \/ ResultRejected
  BY <1>10, RetryKeepsInv
<1> QED
  BY <1>2, <1>3, <1>4, <1>5, <1>6, <1>7, <1>8, <1>9, <1>10, <1>11 DEF Execute

----------------------------------------------------------------------------
(* The service.                                                            *)

LEMMA ReplanKeepsInv ==
    ASSUME RunInv, Replan
    PROVE  RunInv'
<1>1. /\ phase = "executing" /\ phase' = "planning" /\ CallPlanner
      /\ UNCHANGED <<goal, handled, permitted, plan, replans,
                     pos, tries, taskStatus, available, failed>>
      /\ excluded' = excluded \cup Replaceable /\ excluded' \subseteq Excludable
      /\ Replaceable \subseteq failed /\ Replaceable # {}
      /\ spent' = spent + used /\ used' = 0 /\ spent + used < goal.max_attempts
      /\ replans < goal.max_replans
  BY DEF Replan, AllTasksDone, ShouldReplan, Replaceable, RunInv, TypeOK
<1>2. /\ spent \in Nat /\ used \in Nat /\ replans \in Nat /\ goal \in Goals
      /\ goal.max_attempts \in Nat \ {0} /\ goal.max_replans \in Nat
  BY GoalAssumption DEF GoalValid, RunInv, TypeOK
<1>3. PlannerInv'
  BY <1>1, <1>2, PlannerCalled
<1>4. TypeOK'
  BY <1>1, <1>2, <1>3 DEF RunInv, TypeOK, PlannerInv
<1>5. PlanKept'
  <2>1. Tasks(plan) \cap excluded' # {}
    BY <1>1 DEF RunInv, PlanKept
  <2> QED
    BY <1>1, <2>1 DEF RunInv, PlanKept, Replanning, Sound, Tasks, Critics, Requested
<1>6. AttemptsLeft' /\ AttemptsWithinBudget'
  BY <1>1, <1>2 DEF AttemptsLeft, AttemptsWithinBudget
<1>7. Pending' /\ DependenciesFirst' /\ ReadyMeansDelivered'
  BY <1>1 DEF Pending, DependenciesFirst, ReadyMeansDelivered
<1> QED
  BY <1>3, <1>4, <1>5, <1>6, <1>7 DEF RunInv

\* One completed critic speaks for the whole plan.
LEMMA CriticSpeaksForAll ==
    ASSUME RunInv, phase = "executing",
           \A c \in Critics(plan) : taskStatus[c] = "completed"
    PROVE  \A c \in Tasks(plan) : taskStatus[c] = "completed"
<1>1. plan.tasks \in Seq(Capabilities) /\ Sound(plan) /\ Critics(plan) # {}
  BY DEF RunInv, TypeOK, PlanKept
<1>2. PICK critic \in Critics(plan) : Tasks(plan) \ Critics(plan) \subseteq plan.deps[critic]
  BY <1>1 DEF Sound
<1>3. critic \in Capabilities
  BY <1>1 DEF Critics, Tasks
<1>4. \A d \in plan.deps[critic] : taskStatus[d] = "completed"
  BY <1>2, <1>3 DEF RunInv, DependenciesFirst
<1> QED
  BY <1>2, <1>4

LEMMA ReportKeepsInv ==
    ASSUME RunInv, Report
    PROVE  RunInv'
<1>1. /\ phase = "executing" /\ spent' = spent + used /\ used' = 0
      /\ phase' = IF ExecutionStatus = "completed" THEN "ready" ELSE "blocked"
      /\ UNCHANGED <<goal, handled, permitted, plan, excluded, replans, planner,
                     pos, tries, taskStatus, available, failed>>
  BY DEF Report, AllTasksDone
<1>2. /\ spent \in Nat /\ used \in Nat
      /\ goal.max_attempts \in Nat \ {0} /\ goal.max_replans \in Nat
  BY GoalAssumption DEF GoalValid, RunInv, TypeOK
<1>7. PlannerInv'
  BY <1>1, EndsKeepsInv DEF RunInv
<1>3. TypeOK'
  BY <1>1, <1>2, <1>7 DEF RunInv, TypeOK, PlannerInv, Ended
<1>4. PlanKept' /\ AttemptsWithinBudget'
  BY <1>1, <1>2, PlanUnchanged DEF RunInv, AttemptsWithinBudget, Ended
<1>5. AttemptsLeft' /\ Pending' /\ DependenciesFirst'
  BY <1>1 DEF AttemptsLeft, Pending, DependenciesFirst
<1>6. ReadyMeansDelivered'
  <2> SUFFICES ASSUME phase' = "ready"
               PROVE  /\ \A c \in Tasks(plan) : taskStatus[c] = "completed"
                      /\ Requested(goal) \subseteq available
    BY <1>1 DEF ReadyMeansDelivered
  <2>1. ExecutionStatus = "completed"
    BY <1>1
  <2>2. /\ \A c \in Critics(plan) : taskStatus[c] = "completed"
        /\ Requested(goal) \subseteq available
    BY <2>1 DEF ExecutionStatus
  <2> QED
    BY <1>1, <2>2, CriticSpeaksForAll
<1> QED
  BY <1>3, <1>4, <1>5, <1>6, <1>7 DEF RunInv

LEMMA StutterKeepsInv ==
    ASSUME RunInv,
           UNCHANGED <<phase, goal, handled, plan, excluded, replans, spent, planner, execution>>,
           permitted' \in {permitted, {}}
    PROVE  RunInv'
<1>1. UNCHANGED <<used, pos, tries, taskStatus, available, failed>>
  BY DEF execution
<1>2. PlannerInv'
  BY EndsKeepsInv DEF RunInv
<1>3. TypeOK'
  BY <1>1, <1>2 DEF RunInv, TypeOK, PlannerInv
<1>4. PlanKept'
  BY <1>1, PlanUnchanged DEF RunInv
<1>5. /\ AttemptsLeft' /\ AttemptsWithinBudget' /\ Pending'
      /\ DependenciesFirst' /\ ReadyMeansDelivered'
  BY <1>1 DEF RunInv, AttemptsLeft, AttemptsWithinBudget, Budget, Pending,
     DependenciesFirst, ReadyMeansDelivered, Tasks, Requested
<1> QED
  BY <1>2, <1>3, <1>4, <1>5 DEF RunInv

LEMMA NextKeepsInv == RunInv /\ [Next]_vars => RunInv'
<1> SUFFICES ASSUME RunInv, [Next]_vars PROVE RunInv'
  OBVIOUS
<1>1. CASE Planning
  BY <1>1, PlanningKeepsInv, ExecutionBegins, PlanningEnds DEF Planning
<1>2. CASE Execute
  BY <1>2, ExecuteKeepsInv
<1>3. CASE Replan \/ Report
  BY <1>3, ReplanKeepsInv, ReportKeepsInv
<1>4. CASE Expire
  BY <1>4, StutterKeepsInv DEF Expire
<1>5. CASE UNCHANGED vars
  BY <1>5, StutterKeepsInv DEF vars
<1> QED
  BY <1>1, <1>2, <1>3, <1>4, <1>5 DEF Next, Run, Done

----------------------------------------------------------------------------

\* The inductive invariant of a run.
THEOREM Invariant == Spec => []RunInv
BY InitHolds, NextKeepsInv, PTL DEF Spec

\* The types of run()'s bookkeeping.
THEOREM TypeCorrect == Spec => []TypeOK
<1>1. RunInv => TypeOK
  BY DEF RunInv
<1> QED
  BY <1>1, Invariant, PTL

\* Whatever the registry and the exclusions, every plan that plan() returns
\* covers the goal in its mode, runs each task after those it depends on, has
\* among these a producer of all it requires, and lets the critic wait for all.
THEOREM PlansAreSound == Spec => []PlanIsSound
<1>1. RunInv => PlanIsSound
  BY DEF RunInv, PlanKept, PlanIsSound
<1> QED
  BY <1>1, Invariant, PTL

\* A replanned run takes another route: a task of the old plan that failed is
\* gone, and nothing excluded before comes back.
THEOREM ReplansChangeRoute == Spec => ReplanChangesRoute
<1>1. ASSUME RunInv, [Next]_vars, replans' # replans
      PROVE  /\ Tasks(plan) \ Tasks(plan') # {}
             /\ Tasks(plan') \cap excluded' = {}
  <2>1. BeginExecution
    <3>1. CASE Execute
      BY <1>1, <3>1
         DEF Execute, Skip, BudgetExhausted, HandlerUnavailable, PreflightRuns,
             CriticCompletes, CriticBlocks, HandlerCompletes, HandlerFails, HandlerDenied,
             TriedAgain, ResultRejected, Record
    <3> QED
      BY <1>1, <3>1
         DEF Next, Run, Planning, MakePlan, GoalUnplannable, PlanningRaises,
             Replan, Report, Expire, Done, vars
  <2>2. /\ phase = "planning" /\ step = "planned" /\ Replanning
        /\ plan' = Draft /\ excluded' = excluded
    BY <1>1, <2>1 DEF BeginExecution
  <2>3. Tasks(Draft) \cap excluded = {}
    BY <1>1, <2>2, DraftSound DEF RunInv
  <2>4. Tasks(plan) \cap excluded # {}
    BY <1>1, <2>2 DEF RunInv, PlanKept
  <2> HIDE DEF Draft
  <2> QED
    BY <2>2, <2>3, <2>4
<1>2. RunInv /\ [Next]_vars =>
        [replans' # replans =>
           /\ Tasks(plan) \ Tasks(plan') # {}
           /\ Tasks(plan') \cap excluded' = {}]_vars
  BY <1>1
<1> QED
  BY <1>2, Invariant, PTL DEF Spec, ReplanChangesRoute

\* No sequence of retries and replans takes more attempts than the goal's
\* max_total_attempts, or more replans than max_replans.
THEOREM BudgetIsKept == Spec => []AttemptsWithinBudget
<1>1. RunInv => AttemptsWithinBudget
  BY DEF RunInv
<1> QED
  BY <1>1, Invariant, PTL

\* engineering_preview_ready means that every task of the final plan completed
\* and that the outcomes asked for were delivered, whatever failed before.
THEOREM ReadyIsDelivered == Spec => []ReadyMeansDelivered
<1>1. RunInv => ReadyMeansDelivered
  BY DEF RunInv
<1> QED
  BY <1>1, Invariant, PTL

=============================================================================
