------------------------ MODULE IndexLifecycleProofs ------------------------
(***************************************************************************)
(* For any manifests, versions and operators: the table is well typed, at  *)
(* most one version is active, only validated versions are served, the     *)
(* event trail follows the statuses, and the index queries are answered    *)
(* from is never withdrawn without a successor.                            *)
(*                                                                         *)
(* The inductive invariant adds to these what a running switch still knows *)
(* of the rows it read without locking them: its target has been servable  *)
(* since it was read, and a row it is retiring is active until it commits. *)
(* The first is why the unguarded UPDATE of the target is harmless; the    *)
(* second holds because another transaction that would retire or activate  *)
(* the row waits for it.                                                   *)
(***************************************************************************)
EXTENDS IndexLifecycle, TLAPS

\* What a switch relies on.
TargetServable ==
    \A p \in Operators : pc[p] # "idle" => status[target[p]] \in Servable

RetiringWasActive ==
    \A p \in Operators : \A v \in retired[p] : event[v] = "active"

ValidatedPassed == \A v \in Versions : status[v] = "validated" => v \in passed

IndexInv ==
    /\ TypeOK
    /\ OneActive
    /\ ServedWasValidated
    /\ TrailFollows
    /\ TargetServable
    /\ RetiringWasActive
    /\ ValidatedPassed

----------------------------------------------------------------------------

LEMMA ManifestNamesVersion == ASSUME NEW m \in Manifests PROVE VersionOf(m) \in Versions
BY DEF Versions

\* A version with an event "active" is active or was retired.
LEMMA ActiveTrail ==
    ASSUME TrailFollows, NEW v \in Versions, event[v] = "active"
    PROVE  status[v] \in {"active", "retired"}
BY DEF TrailFollows

LEMMA InitHolds == Init => IndexInv
<1> SUFFICES ASSUME Init PROVE IndexInv
  OBVIOUS
<1>1. TableTyped
  BY DEF Init, TableTyped, Status
<1>2. SwitchTyped
  BY DEF Init, SwitchTyped
<1>3. /\ OneActive /\ ServedWasValidated /\ TrailFollows /\ ValidatedPassed
      /\ TargetServable /\ RetiringWasActive
  BY DEF Init, OneActive, ServedWasValidated, TrailFollows, ValidatedPassed,
         TargetServable, RetiringWasActive, Servable
<1> QED
  BY <1>1, <1>2, <1>3 DEF IndexInv, TypeOK

LEMMA RegisterKeepsInv ==
    ASSUME IndexInv, NEW m \in Manifests, RegisterCandidate(m)
    PROVE  IndexInv'
<1> DEFINE v0 == VersionOf(m)
<1>0. v0 \in Versions
  BY ManifestNamesVersion
<1>1. /\ TableTyped /\ SwitchTyped /\ OneActive /\ ServedWasValidated /\ TrailFollows
      /\ TargetServable /\ RetiringWasActive /\ ValidatedPassed
  BY DEF IndexInv, TypeOK
<1>2. /\ status[v0] = "absent"
      /\ status' = [status EXCEPT ![v0] = "candidate"]
      /\ manifest' = [manifest EXCEPT ![v0] = m]
      /\ UNCHANGED <<event, passed, pc, kind, target, rows, retired>>
  BY DEF RegisterCandidate
<1> HIDE DEF v0
<1>3. status'[v0] = "candidate" /\ \A v \in Versions \ {v0} : status'[v] = status[v]
  BY <1>0, <1>1, <1>2 DEF TableTyped
<1>4. event[v0] = "absent"
  BY <1>0, <1>1, <1>2 DEF TrailFollows
<1>5. TableTyped'
  BY <1>0, <1>1, <1>2 DEF TableTyped, Status
<1>6. SwitchTyped'
  BY <1>1, <1>2 DEF SwitchTyped
<1>7. OneActive' /\ ServedWasValidated' /\ ValidatedPassed'
  BY <1>1, <1>2, <1>3 DEF OneActive, ServedWasValidated, ValidatedPassed, Servable
<1>8. TrailFollows'
  BY <1>1, <1>2, <1>3, <1>4 DEF TrailFollows
<1>9. TargetServable'
  BY <1>1, <1>2, <1>3 DEF TargetServable, SwitchTyped, Servable
<1>10. RetiringWasActive'
  BY <1>1, <1>2 DEF RetiringWasActive
<1> QED
  BY <1>5, <1>6, <1>7, <1>8, <1>9, <1>10 DEF IndexInv, TypeOK

\* A guarded transition up to shadow serving touches no version that is
\* servable, so no switch is disturbed.
LEMMA TransitionKeepsInv ==
    ASSUME IndexInv, NEW m \in Manifests,
           NEW e \in {"candidate", "building", "built", "validated"},
           NEW n \in {"building", "built", "validated", "failed", "shadow"},
           Transition(m, e, n),
           passed \subseteq passed', passed' \subseteq Versions,
           n \in {"validated", "shadow"} => VersionOf(m) \in passed'
    PROVE  IndexInv'
<1> DEFINE v0 == VersionOf(m)
<1>0. v0 \in Versions
  BY ManifestNamesVersion
<1>1. /\ TableTyped /\ SwitchTyped /\ OneActive /\ ServedWasValidated /\ TrailFollows
      /\ TargetServable /\ RetiringWasActive /\ ValidatedPassed
  BY DEF IndexInv, TypeOK
<1>2. /\ status[v0] = e
      /\ status' = [status EXCEPT ![v0] = n]
      /\ event' = [event EXCEPT ![v0] = n]
      /\ UNCHANGED <<manifest, pc, kind, target, rows, retired>>
      /\ n \in {"validated", "shadow"} => v0 \in passed'
  BY DEF Transition
<1> HIDE DEF v0
<1>3. /\ status'[v0] = n /\ event'[v0] = n
      /\ \A v \in Versions \ {v0} : status'[v] = status[v] /\ event'[v] = event[v]
  BY <1>0, <1>1, <1>2 DEF TableTyped
<1>4. status[v0] \notin Servable
  BY <1>2 DEF Servable
<1>5. TableTyped'
  BY <1>0, <1>1, <1>2 DEF TableTyped, Status
<1>6. SwitchTyped'
  BY <1>1, <1>2 DEF SwitchTyped
<1>7. OneActive' /\ ServedWasValidated' /\ ValidatedPassed'
  BY <1>1, <1>2, <1>3 DEF OneActive, ServedWasValidated, ValidatedPassed, Servable
<1>8. TrailFollows'
  BY <1>1, <1>3 DEF TrailFollows
<1>9. TargetServable'
  BY <1>1, <1>2, <1>3, <1>4 DEF TargetServable, SwitchTyped
<1>10. RetiringWasActive'
  <2> SUFFICES ASSUME NEW p \in Operators, NEW v \in retired[p] PROVE event'[v] = "active"
    BY <1>2 DEF RetiringWasActive
  <2>1. v \in Versions /\ event[v] = "active"
    BY <1>1 DEF SwitchTyped, RetiringWasActive
  <2>2. status[v] \in Servable
    BY <1>1, <2>1, ActiveTrail DEF Servable
  <2> QED
    BY <1>3, <1>4, <2>1, <2>2
<1> QED
  BY <1>5, <1>6, <1>7, <1>8, <1>9, <1>10 DEF IndexInv, TypeOK

LEMMA LifecycleKeepsInv ==
    ASSUME IndexInv, NEW m \in Manifests, Lifecycle(m)
    PROVE  IndexInv'
<1>0. /\ passed \subseteq Versions /\ VersionOf(m) \in Versions /\ ValidatedPassed
  BY ManifestNamesVersion DEF IndexInv, TypeOK, TableTyped
<1>1. CASE RegisterCandidate(m)
  BY <1>1, RegisterKeepsInv
<1>2. CASE MarkBuilding(m)
  BY <1>0, <1>2, TransitionKeepsInv DEF MarkBuilding
<1>3. CASE MarkBuilt(m)
  BY <1>0, <1>3, TransitionKeepsInv DEF MarkBuilt
<1>4. CASE Transition(m, "built", "validated") /\ passed' = passed \cup {VersionOf(m)}
  BY <1>0, <1>4, TransitionKeepsInv
<1>5. CASE Transition(m, "built", "failed") /\ UNCHANGED passed
  BY <1>0, <1>5, TransitionKeepsInv
<1>6. CASE PromoteToShadow(m)
  <2>1. VersionOf(m) \in passed
    BY <1>0, <1>6 DEF PromoteToShadow, Transition, ValidatedPassed
  <2> QED
    BY <1>0, <1>6, <2>1, TransitionKeepsInv DEF PromoteToShadow
<1> QED
  BY <1>1, <1>2, <1>3, <1>4, <1>5, <1>6 DEF Lifecycle, RecordValidation

----------------------------------------------------------------------------
(* The steps of a switch.                                                  *)

\* A step of a switch that leaves the table alone keeps the invariant when it
\* keeps the switch's own part.
LEMMA QuietStep ==
    ASSUME IndexInv, UNCHANGED table, SwitchTyped', TargetServable', RetiringWasActive'
    PROVE  IndexInv'
BY DEF IndexInv, TypeOK, table, TableTyped, OneActive, ServedWasValidated, TrailFollows,
       ValidatedPassed

LEMMA BeginKeepsInv ==
    ASSUME IndexInv, NEW p \in Operators, NEW v \in Versions,
           NEW k \in {"activation", "rollback"}, status[v] \in Servable, Begin(p, k, v)
    PROVE  IndexInv'
<1>1. UNCHANGED table
  BY DEF Begin, table
<1>2. SwitchTyped'
  BY DEF IndexInv, TypeOK, SwitchTyped, Begin
<1>3. TargetServable'
  BY DEF IndexInv, TypeOK, SwitchTyped, Begin, TargetServable
<1>4. RetiringWasActive'
  BY DEF IndexInv, Begin, RetiringWasActive
<1> QED
  BY <1>1, <1>2, <1>3, <1>4, QuietStep

LEMMA RetireScanKeepsInv ==
    ASSUME IndexInv, NEW p \in Operators, RetireScan(p)
    PROVE  IndexInv'
<1>1. UNCHANGED table
  BY DEF RetireScan, table
<1>2. SwitchTyped'
  BY DEF IndexInv, TypeOK, SwitchTyped, RetireScan
<1>3. TargetServable'
  BY DEF IndexInv, TypeOK, SwitchTyped, RetireScan, TargetServable
<1>4. RetiringWasActive'
  BY DEF IndexInv, RetireScan, RetiringWasActive
<1> QED
  BY <1>1, <1>2, <1>3, <1>4, QuietStep

LEMMA RetireRowsKeepsInv ==
    ASSUME IndexInv, NEW p \in Operators, RetireRows(p)
    PROVE  IndexInv'
<1>0. /\ SwitchTyped /\ TrailFollows /\ RetiringWasActive /\ TargetServable
      /\ retired' = [retired EXCEPT ![p] = {v \in rows[p] : status[v] = "active"}]
      /\ pc' = [pc EXCEPT ![p] = "activate"] /\ pc[p] = "retiring"
      /\ UNCHANGED <<status, event, kind, target, rows>>
  BY DEF IndexInv, TypeOK, RetireRows
<1>1. UNCHANGED table
  BY DEF RetireRows, table
<1>2. SwitchTyped'
  BY <1>0 DEF SwitchTyped
<1>3. TargetServable'
  BY <1>0 DEF SwitchTyped, TargetServable
<1>4. RetiringWasActive'
  <2> SUFFICES ASSUME NEW q \in Operators, NEW v \in retired'[q] PROVE event[v] = "active"
    BY <1>0 DEF RetiringWasActive
  <2>1. CASE q = p
    <3>1. v \in Versions /\ status[v] = "active"
      BY <1>0, <2>1 DEF SwitchTyped
    <3> QED
      BY <1>0, <3>1 DEF TrailFollows
  <2>2. CASE q # p
    BY <1>0, <2>2 DEF SwitchTyped, RetiringWasActive
  <2> QED
    BY <2>1, <2>2
<1> QED
  BY <1>1, <1>2, <1>3, <1>4, QuietStep

LEMMA ActivateRowKeepsInv ==
    ASSUME IndexInv, NEW p \in Operators, ActivateRow(p)
    PROVE  IndexInv'
<1>1. UNCHANGED table
  BY DEF ActivateRow, table
<1>2. SwitchTyped'
  BY DEF IndexInv, TypeOK, SwitchTyped, ActivateRow
<1>3. TargetServable'
  BY DEF IndexInv, TypeOK, SwitchTyped, ActivateRow, TargetServable
<1>4. RetiringWasActive'
  BY DEF IndexInv, ActivateRow, RetiringWasActive
<1> QED
  BY <1>1, <1>2, <1>3, <1>4, QuietStep

LEMMA EndTypes ==
    ASSUME SwitchTyped, NEW p \in Operators, EndOf(p)
    PROVE  /\ SwitchTyped'
           /\ \A q \in Operators : pc'[q] # "idle" =>
                 q # p /\ pc[q] # "idle" /\ target'[q] = target[q]
           /\ \A q \in Operators : retired'[q] \subseteq retired[q]
BY DEF SwitchTyped, EndOf

\* UniqueViolation, DeadlockVictim and Abort: nothing happened.
LEMMA RollbackKeepsInv ==
    ASSUME IndexInv, NEW p \in Operators, EndOf(p), UNCHANGED table
    PROVE  IndexInv'
<1>0. /\ SwitchTyped /\ TargetServable /\ RetiringWasActive
      /\ UNCHANGED <<status, event>>
  BY DEF IndexInv, TypeOK, table
<1>1. SwitchTyped'
  BY <1>0, EndTypes
<1>2. TargetServable'
  BY <1>0, EndTypes DEF TargetServable
<1>3. RetiringWasActive'
  BY <1>0, EndTypes DEF RetiringWasActive
<1> QED
  BY <1>1, <1>2, <1>3, QuietStep

\* What a committed switch does to the table.
LEMMA CommitEffect ==
    ASSUME IndexInv, NEW p \in Operators, Commit(p)
    PROVE  /\ target[p] \in Versions
           /\ status'[target[p]] = "active"
           /\ event'[target[p]] = "active"
           /\ \A v \in Versions \ {target[p]} : event'[v] = event[v]
           /\ \A v \in retired[p] \ {target[p]} :
                 status'[v] = "retired" /\ event[v] = "active"
           /\ \A v \in Versions \ ({target[p]} \cup retired[p]) :
                 status'[v] = status[v] /\ status[v] # "active"
BY DEF IndexInv, TypeOK, TableTyped, SwitchTyped, Commit, Rivals, RetiringWasActive

LEMMA CommitKeepsInv ==
    ASSUME IndexInv, NEW p \in Operators, Commit(p)
    PROVE  IndexInv'
<1> DEFINE t == target[p]
<1>1. /\ TableTyped /\ SwitchTyped /\ OneActive /\ ServedWasValidated /\ TrailFollows
      /\ TargetServable /\ RetiringWasActive /\ ValidatedPassed
  BY DEF IndexInv, TypeOK
<1>2. /\ pc[p] = "commit" /\ EndOf(p) /\ UNCHANGED <<manifest, passed>>
      /\ status' = [v \in Versions |-> IF v = t THEN "active"
                                       ELSE IF v \in retired[p] THEN "retired"
                                       ELSE status[v]]
      /\ event' = [event EXCEPT ![t] = "active"]
  BY DEF Commit
<1>3. /\ t \in Versions
      /\ status'[t] = "active"
      /\ event'[t] = "active"
      /\ \A v \in Versions \ {t} : event'[v] = event[v]
      /\ \A v \in retired[p] \ {t} : status'[v] = "retired" /\ event[v] = "active"
      /\ \A v \in Versions \ ({t} \cup retired[p]) :
            status'[v] = status[v] /\ status[v] # "active"
  BY CommitEffect
<1>4. status[t] \in Servable
  BY <1>1, <1>2 DEF TargetServable
<1> HIDE DEF t
<1>5. \A v \in Versions : status[v] \in Servable <=> status'[v] \in Servable
  <2> SUFFICES ASSUME NEW v \in Versions
               PROVE  status[v] \in Servable <=> status'[v] \in Servable
    OBVIOUS
  <2>1. CASE v = t
    BY <1>3, <1>4, <2>1 DEF Servable
  <2>2. CASE v \in retired[p] \ {t}
    BY <1>1, <1>3, <2>2, ActiveTrail DEF Servable
  <2>3. CASE v \notin {t} \cup retired[p]
    BY <1>3, <2>3
  <2> QED
    BY <2>1, <2>2, <2>3
<1>6. TableTyped'
  BY <1>1, <1>2, <1>3 DEF TableTyped, Status
<1>7. SwitchTyped'
  BY <1>1, <1>2, EndTypes
<1>8. OneActive'
  <2>1. \A v \in Versions \ {t} : status'[v] # "active"
    BY <1>1, <1>3 DEF SwitchTyped
  <2> QED
    BY <2>1 DEF OneActive
<1>9. ServedWasValidated'
  BY <1>1, <1>2, <1>5 DEF ServedWasValidated
<1>10. ValidatedPassed'
  BY <1>1, <1>2, <1>3 DEF ValidatedPassed
<1>11. TrailFollows'
  BY <1>1, <1>3 DEF TrailFollows
<1>12. TargetServable'
  BY <1>1, <1>2, <1>5, EndTypes DEF TargetServable, SwitchTyped
<1>13. RetiringWasActive'
  <2> SUFFICES ASSUME NEW q \in Operators, NEW v \in retired'[q] PROVE event'[v] = "active"
    BY DEF RetiringWasActive
  <2>1. v \in retired[q] /\ v \in Versions
    BY <1>1, <1>2, EndTypes DEF SwitchTyped
  <2> QED
    BY <1>1, <1>3, <2>1 DEF RetiringWasActive
<1> QED
  BY <1>6, <1>7, <1>8, <1>9, <1>10, <1>11, <1>12, <1>13 DEF IndexInv, TypeOK

LEMMA StepKeepsInv == IndexInv /\ [Next]_vars => IndexInv'
<1> SUFFICES ASSUME IndexInv, [Next]_vars PROVE IndexInv'
  OBVIOUS
<1>1. CASE \E m \in Manifests : Lifecycle(m)
  BY <1>1, LifecycleKeepsInv
<1>2. ASSUME NEW p \in Operators, NEW m \in Manifests, PromoteToActive(p, m)
      PROVE  IndexInv'
  BY <1>2, BeginKeepsInv, ManifestNamesVersion DEF PromoteToActive, Servable
<1>3. ASSUME NEW p \in Operators, NEW m \in Manifests, Rollback(p, m)
      PROVE  IndexInv'
  BY <1>3, BeginKeepsInv, ManifestNamesVersion DEF Rollback, Servable
<1>4. ASSUME NEW p \in Operators, Statement(p)
      PROVE  IndexInv'
  BY <1>4, RetireScanKeepsInv, RetireRowsKeepsInv, ActivateRowKeepsInv, CommitKeepsInv,
     RollbackKeepsInv DEF Statement, UniqueViolation
<1>5. ASSUME NEW p \in Operators, DeadlockVictim(p) \/ Abort(p)
      PROVE  IndexInv'
  BY <1>5, RollbackKeepsInv DEF DeadlockVictim, Abort
<1>6. CASE UNCHANGED vars
  BY <1>6 DEF vars, IndexInv, TypeOK, TableTyped, SwitchTyped, OneActive,
     ServedWasValidated, TrailFollows, TargetServable, RetiringWasActive, ValidatedPassed
<1> QED
  BY <1>1, <1>2, <1>3, <1>4, <1>5, <1>6 DEF Next

----------------------------------------------------------------------------
(* The theorems.                                                           *)

\* The invariant that carries the others holds in every reachable state.
THEOREM Invariant == Spec => []IndexInv
BY InitHolds, StepKeepsInv, PTL DEF Spec

\* Every variable of the table and of the switches keeps its type.
THEOREM TypeCorrect == Spec => []TypeOK
BY Invariant, PTL DEF IndexInv

\* The tenant never has two active versions, for any number of concurrent
\* activations and rollbacks.
THEOREM AtMostOneActive == Spec => []OneActive
BY Invariant, PTL DEF IndexInv

\* A version is served, activated or kept for a rollback only if its
\* validation passed, although the activating UPDATE tests no status.
THEOREM ServedVersionsWereValidated == Spec => []ServedWasValidated
BY Invariant, PTL DEF IndexInv

\* The newest event of a version names its status, or the version is one a
\* switch retired.
THEOREM EventsFollowStatus == Spec => []TrailFollows
BY Invariant, PTL DEF IndexInv

\* An active version is withdrawn only in the commit that activates another.
THEOREM ActiveIsReplaced == Spec => ServingContinues
<1> DEFINE Replaced ==
      \A v \in Versions :
          status[v] = "active" /\ status'[v] # "active" =>
             /\ status'[v] = "retired"
             /\ \E w \in Versions : status[w] # "active" /\ status'[w] = "active"
<1>1. IndexInv /\ [Next]_vars => [Replaced]_vars
  <2> SUFFICES ASSUME IndexInv, [Next]_vars, NEW v \in Versions,
                      status[v] = "active", status'[v] # "active"
               PROVE  /\ status'[v] = "retired"
                      /\ \E w \in Versions : status[w] # "active" /\ status'[w] = "active"
    OBVIOUS
  <2>1. ASSUME NEW p \in Operators, Commit(p)
        PROVE  /\ status'[v] = "retired"
               /\ \E w \in Versions : status[w] # "active" /\ status'[w] = "active"
    <3>1. /\ target[p] \in Versions /\ status'[target[p]] = "active"
          /\ v # target[p]
          /\ v \in retired[p] \ {target[p]} => status'[v] = "retired"
          /\ v \in retired[p]
      BY <2>1, CommitEffect
    <3>2. status[target[p]] # "active"
      BY <3>1 DEF IndexInv, OneActive
    <3> QED
      BY <3>1, <3>2
  <2>2. ASSUME NEW m \in Manifests, Lifecycle(m)
        PROVE  FALSE
    <3>1. status \in [Versions -> Status]
      BY DEF IndexInv, TypeOK, TableTyped
    <3> QED
      BY <2>2, <3>1, ManifestNamesVersion DEF Lifecycle, RegisterCandidate, MarkBuilding,
         MarkBuilt, RecordValidation, PromoteToShadow, Transition
  <2>3. CASE UNCHANGED status
    BY <2>3
  <2> QED
    BY <2>1, <2>2, <2>3 DEF Next, vars, table, PromoteToActive, Rollback, Begin, Statement,
       RetireScan, RetireRows, ActivateRow, UniqueViolation, DeadlockVictim, Abort
<1> QED
  BY <1>1, Invariant, PTL DEF Spec, ServingContinues

=============================================================================
