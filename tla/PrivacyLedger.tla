---------------------------- MODULE PrivacyLedger ----------------------------
(***************************************************************************)
(* What the privacy budget of the distributed provider path promises,      *)
(* whatever reservations and terminal marks run at once: the table         *)
(* provider_privacy_releases changes as if each of them happened at one    *)
(* moment.  A reservation is admitted at a charge with which the scope     *)
(* stays within its budget and each composition group covers its           *)
(* partitions, or it is refused because the budget, as it is then, has no  *)
(* room for its epsilon; and a release that is reserved is marked once.    *)
(*                                                                         *)
(* A release is a pair (ingestion_id, dispatch_attempt); its scope,        *)
(* composition group and partition follow from the request.  Epsilon is    *)
(* counted in whole units, and stands for all the parameters a composition *)
(* group shares (delta, sensitivity and mechanism are compared like it).   *)
(***************************************************************************)
EXTENDS Naturals, FiniteSets

CONSTANTS
  Releases,     \* (ingestion_id, dispatch_attempt)
  Scopes,       \* tenant : provider : dataset : schema version
  Groups,       \* window:<id> or object:<fingerprint>:attempt:<n>
  Partitions,   \* partition_index of the manifest, or -1
  ScopeOf, GroupOf, PartitionOf,
  MaxEpsilon,   \* largest epsilon of a contract
  Budget        \* max_cumulative_epsilon, by scope

Epsilons == 1 .. MaxEpsilon

VARIABLES
  decision,   \* provider_privacy_releases.decision, "none": no such row
  status,     \* .status
  epsilon,    \* .epsilon
  charged     \* .charged_epsilon

rows == <<decision, status, epsilon, charged>>

Decisions == {"none", "allowed", "blocked"}
Terminal == {"completed", "blocked", "failed"}

LedgerInit ==
  /\ decision = [r \in Releases |-> "none"]
  /\ status = [r \in Releases |-> "none"]
  /\ epsilon = [r \in Releases |-> 0]
  /\ charged = [r \in Releases |-> 0]

\* The sum of cost over a set of releases, by counting its units of epsilon.
Units(S, cost) == {x \in S \X Epsilons : x[2] <= cost[x[1]]}
Total(S, cost) == Cardinality(Units(S, cost))

Allowed(s) == {r \in Releases : ScopeOf[r] = s /\ decision[r] = "allowed"}

\* SELECT SUM(charged_epsilon) WHERE budget_scope AND decision = 'allowed'.
Used(s) == Total(Allowed(s), charged)

AllowedInGroup(r) == {q \in Allowed(ScopeOf[r]) : GroupOf[q] = GroupOf[r]}
AllowedInPartition(r) ==
  {q \in AllowedInGroup(r) : PartitionOf[q] = PartitionOf[r]}

ParametersChanged(r, e) == \E q \in AllowedInGroup(r) : epsilon[q] # e

\* What the releases of a scope were charged never exceeds its budget, whatever
\* reservations run at once and whatever became of the releases (reserve()
\* checks a sum it read before it inserts).
BudgetNeverExceeded == \A s \in Scopes : Used(s) <= Budget[s]

\* A row of a composition group may appear in every release of one partition,
\* and in no other partition: the group is charged at least the epsilon of all
\* the releases of any one of its partitions, failed ones included (reserve()
\* decides it from two LIMIT 1 queries, without counting).
ParallelCompositionCovered ==
  \A r \in Releases :
    Total(AllowedInPartition(r), epsilon) <= Total(AllowedInGroup(r), charged)

----------------------------------------------------------------------------
\* A reservation that is new, of a group whose parameters it shares.
MayReserve(r, e) == decision[r] = "none" /\ ~ParametersChanged(r, e)

\* It is charged its epsilon or nothing.
Admit(r, e, charge) ==
  /\ MayReserve(r, e)
  /\ decision' = [decision EXCEPT ![r] = "allowed"]
  /\ status' = [status EXCEPT ![r] = "reserved"]
  /\ epsilon' = [epsilon EXCEPT ![r] = e]
  /\ charged' = [charged EXCEPT ![r] = charge]
  /\ BudgetNeverExceeded'
  /\ ParallelCompositionCovered'

Refuse(r, e) ==
  /\ MayReserve(r, e)
  /\ Used(ScopeOf[r]) + e > Budget[ScopeOf[r]]
  /\ decision' = [decision EXCEPT ![r] = "blocked"]
  /\ status' = [status EXCEPT ![r] = "blocked"]
  /\ epsilon' = [epsilon EXCEPT ![r] = e]
  /\ UNCHANGED charged

Mark(r, s) ==
  /\ status[r] = "reserved"
  /\ status' = [status EXCEPT ![r] = s]
  /\ UNCHANGED <<decision, epsilon, charged>>

LedgerNext ==
  \E r \in Releases :
    \/ \E e \in Epsilons : Refuse(r, e) \/ \E charge \in {0, e} : Admit(r, e, charge)
    \/ \E s \in Terminal : Mark(r, s)

LedgerSpec == LedgerInit /\ [][LedgerNext]_rows
=============================================================================
