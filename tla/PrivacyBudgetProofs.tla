------------------------- MODULE PrivacyBudgetProofs -------------------------
(***************************************************************************)
(* Theorems about PrivacyBudget, for any callers, releases, scopes and     *)
(* budgets.  Sums of epsilon are cardinalities of sets of units, so that   *)
(* the facts of FiniteSetTheorems apply to them.                           *)
(***************************************************************************)
EXTENDS PrivacyBudget, FiniteSetTheorems, TLAPS

(***************************************************************************)
(* Sums.                                                                   *)
(***************************************************************************)

LEMMA UnitsFinite ==
  ASSUME NEW S \in SUBSET Releases, NEW cost
  PROVE  /\ IsFiniteSet(Units(S, cost))
         /\ Total(S, cost) \in Nat
<1>1. IsFiniteSet(S)
  BY ConstantsAssumption, FS_Subset
<1>2. IsFiniteSet(Epsilons)
  BY ConstantsAssumption, FS_Interval DEF Epsilons
<1>3. IsFiniteSet(S \X Epsilons)
  BY <1>1, <1>2, FS_Product
<1>4. Units(S, cost) \in SUBSET (S \X Epsilons)
  BY DEF Units
<1>5. IsFiniteSet(Units(S, cost))
  BY <1>3, <1>4, FS_Subset
<1> QED
  BY <1>5, FS_CardinalityType DEF Total

\* A sum grows with the set it is taken over.
LEMMA TotalMonotone ==
  ASSUME NEW T \in SUBSET Releases, NEW S \in SUBSET T, NEW cost
  PROVE  Total(S, cost) <= Total(T, cost)
<1>1. Units(S, cost) \in SUBSET Units(T, cost)
  BY DEF Units
<1> QED
  BY <1>1, UnitsFinite, FS_Subset DEF Total

LEMMA TotalEmpty ==
  ASSUME NEW cost
  PROVE  Total({}, cost) = 0
<1>1. Units({}, cost) = {}
  BY DEF Units
<1> QED
  BY <1>1, FS_EmptySet DEF Total

\* A sum over equal costs is the same sum.
LEMMA TotalSameCost ==
  ASSUME NEW S \in SUBSET Releases, NEW cost, NEW new,
         \A r \in S : new[r] = cost[r]
  PROVE  Total(S, new) = Total(S, cost)
<1>1. Units(S, new) = Units(S, cost)
  BY DEF Units
<1> QED
  BY <1>1 DEF Total

LEMMA DisjointUnion ==
  ASSUME NEW A, NEW B, IsFiniteSet(A), IsFiniteSet(B), A \cap B = {}
  PROVE  Cardinality(A \cup B) = Cardinality(A) + Cardinality(B)
<1>1. Cardinality(A \cap B) = 0
  BY FS_EmptySet
<1>2. Cardinality(A) \in Nat /\ Cardinality(B) \in Nat
  BY FS_CardinalityType
<1>3. Cardinality(A \cup B)
        = Cardinality(A) + Cardinality(B) - Cardinality(A \cap B)
  BY FS_Union
<1> QED
  BY <1>1, <1>2, <1>3

\* One more release adds its cost to the sum.
LEMMA TotalAdd ==
  ASSUME NEW S \in SUBSET Releases, NEW T, NEW r \in Releases, r \notin S,
         T = S \cup {r}, NEW cost, NEW new, \A q \in S : new[q] = cost[q],
         new[r] \in 0 .. MaxEpsilon
  PROVE  Total(T, new) = Total(S, cost) + new[r]
<1> DEFINE Own == {r} \X (1 .. new[r])
<1>1. Units(T, new) = Units(S, cost) \cup Own
  BY ConstantsAssumption DEF Units, Epsilons
<1>2. Units(S, cost) \cap Own = {}
  BY DEF Units
<1>3. IsFiniteSet(Own) /\ Cardinality(Own) = new[r]
  <2>1. new[r] \in Nat
    BY ConstantsAssumption
  <2>2. IsFiniteSet(1 .. new[r]) /\ Cardinality(1 .. new[r]) = new[r]
    BY <2>1, FS_Interval
  <2>3. IsFiniteSet({r}) /\ Cardinality({r}) = 1
    BY FS_Singleton
  <2>4. IsFiniteSet(Own) /\ Cardinality(Own) = 1 * Cardinality(1 .. new[r])
    BY <2>2, <2>3, FS_Product
  <2> QED
    BY <2>1, <2>2, <2>4
<1>4. IsFiniteSet(Units(S, cost))
  BY UnitsFinite
<1> HIDE DEF Own
<1>5. Cardinality(Units(S, cost) \cup Own)
        = Cardinality(Units(S, cost)) + Cardinality(Own)
  BY <1>2, <1>3, <1>4, DisjointUnion
<1>6. Cardinality(Units(S, cost)) \in Nat /\ new[r] \in Nat
  BY UnitsFinite, ConstantsAssumption DEF Total
<1>7. Cardinality(Units(T, new)) = Cardinality(Units(S, cost) \cup Own)
  BY <1>1, Zenon
<1>8. Cardinality(Units(T, new)) = Cardinality(Units(S, cost)) + new[r]
  BY <1>3, <1>5, <1>6, <1>7
<1> QED
  BY <1>8 DEF Total

\* A sum over a single release.
LEMMA TotalSingle ==
  ASSUME NEW r \in Releases, NEW cost, cost[r] \in 0 .. MaxEpsilon
  PROVE  Total({r}, cost) = cost[r]
<1>1. {} \in SUBSET Releases /\ {r} = {} \cup {r}
  OBVIOUS
<1>2. Total({r}, cost) = Total({}, cost) + cost[r]
  BY <1>1, TotalAdd
<1> QED
  BY <1>2, TotalEmpty, ConstantsAssumption

(***************************************************************************)
(* Type correctness.                                                       *)
(***************************************************************************)

LEMMA TypeInit == Init => TypeOK
  BY ConstantsAssumption DEF Init, LedgerInit, TypeOK, Decisions, Terminal

LEMMA ReturnTyped ==
  ASSUME TypeOK, NEW c \in Callers, Return(c)
  PROVE  /\ pc' \in [Callers -> {"idle", "locked", "inserting", "marking"}]
         /\ release' \in [Callers -> Releases \cup {None}]
         /\ asked' \in [Callers -> 0 .. MaxEpsilon]
         /\ used' \in [Callers -> Nat]
         /\ charge' \in [Callers -> 0 .. MaxEpsilon]
         /\ outcome' \in [Callers -> Terminal \cup {"none"}]
  BY ConstantsAssumption DEF TypeOK, Return

LEMMA SumsTyped ==
  /\ \A s : Used(s) \in Nat
  /\ \A r \in Releases, e \in Epsilons : ChargeFor(r, e) \in 0 .. MaxEpsilon
<1>1. \A s : Allowed(s) \in SUBSET Releases
  BY DEF Allowed
<1>2. \A s : Used(s) \in Nat
  BY <1>1, UnitsFinite DEF Used
<1>3. \A r \in Releases, e \in Epsilons : ChargeFor(r, e) \in 0 .. MaxEpsilon
  BY ConstantsAssumption DEF ChargeFor, Epsilons
<1> QED
  BY <1>2, <1>3

\* A caller that is inside reserve() knows its release and its epsilon.
InCall == \A c \in Callers :
  /\ pc[c] # "idle" => release[c] \in Releases
  /\ pc[c] \in {"locked", "inserting"} => asked[c] \in Epsilons
  /\ pc[c] = "marking" => outcome[c] \in Terminal

LEMMA TypeStep == TypeOK /\ InCall /\ [Next]_vars => TypeOK' /\ InCall'
<1> SUFFICES ASSUME TypeOK, InCall, [Next]_vars PROVE TypeOK' /\ InCall'
  OBVIOUS
<1>1. CASE UNCHANGED vars
  BY <1>1 DEF TypeOK, InCall, vars, rows, caller
<1>2. ASSUME NEW c \in Callers, NEW r \in Releases, NEW e \in Epsilons,
             LockScope(c, r, e)
      PROVE  TypeOK' /\ InCall'
  BY <1>2, ConstantsAssumption
  DEF TypeOK, InCall, LockScope, rows, Epsilons
<1>3. ASSUME NEW c \in Callers, ReadScope(c)
      PROVE  TypeOK' /\ InCall'
  <2>1. CASE Return(c)
    BY <1>3, <2>1, ReturnTyped DEF ReadScope, TypeOK, InCall, rows, Return
  <2>2. CASE ~Return(c)
    <3>1. release[c] \in Releases /\ asked[c] \in Epsilons
      BY <1>3 DEF InCall, ReadScope
    <3>2. /\ pc' = [pc EXCEPT ![c] = "inserting"]
          /\ used' = [used EXCEPT ![c] = Used(ScopeOf[release[c]])]
          /\ charge' = [charge EXCEPT ![c] = ChargeFor(release[c], asked[c])]
          /\ UNCHANGED <<rows, release, asked, outcome>>
      BY <1>3, <2>2 DEF ReadScope
    <3>3. Used(ScopeOf[release[c]]) \in Nat
      BY SumsTyped
    <3>4. ChargeFor(release[c], asked[c]) \in 0 .. MaxEpsilon
      BY <3>1, SumsTyped
    <3> QED
      BY <3>1, <3>2, <3>3, <3>4, <1>3 DEF ReadScope, TypeOK, InCall, rows
  <2> QED
    BY <2>1, <2>2
<1>4. ASSUME NEW c \in Callers, InsertRelease(c)
      PROVE  TypeOK' /\ InCall'
  <2>1. release[c] \in Releases /\ asked[c] \in Epsilons
    BY <1>4 DEF InCall, InsertRelease
  <2>2. \/ rows' = rows
        \/ /\ decision' \in [Releases -> Decisions]
           /\ status' \in [Releases -> {"none", "reserved"} \cup Terminal]
           /\ epsilon' \in [Releases -> 0 .. MaxEpsilon]
           /\ charged' \in [Releases -> 0 .. MaxEpsilon]
    BY <1>4, <2>1, ConstantsAssumption
    DEF InsertRelease, TypeOK, Epsilons, Decisions, Terminal, rows
  <2> QED
    BY <1>4, <2>2, ReturnTyped DEF InsertRelease, TypeOK, InCall, rows, Return
<1>5. ASSUME NEW c \in Callers, NEW r \in Releases, NEW s \in Terminal,
             ReadRelease(c, r, s)
      PROVE  TypeOK' /\ InCall'
  BY <1>5 DEF TypeOK, InCall, ReadRelease, rows
<1>6. ASSUME NEW c \in Callers, UpdateRelease(c)
      PROVE  TypeOK' /\ InCall'
  <2>1. status' \in [Releases -> {"none", "reserved"} \cup Terminal]
    BY <1>6 DEF UpdateRelease, TypeOK, InCall
  <2> QED
    BY <1>6, <2>1, ReturnTyped DEF UpdateRelease, TypeOK, InCall, Return
<1>7. ASSUME NEW c \in Callers, Rollback(c)
      PROVE  TypeOK' /\ InCall'
  BY <1>7, ReturnTyped DEF Rollback, TypeOK, InCall, rows, Return
<1> QED
  BY <1>1, <1>2, <1>3, <1>4, <1>5, <1>6, <1>7 DEF Next

\* Type correctness: every variable of the specification keeps its type, for
\* any number of callers and releases (reserve and mark_terminal).
THEOREM TypeCorrect == Spec => []TypeOK
<1>1. Init => TypeOK /\ InCall
  BY TypeInit DEF Init, InCall
<1>2. (TypeOK /\ InCall) /\ [Next]_vars => (TypeOK /\ InCall)'
  BY TypeStep
<1> QED
  BY <1>1, <1>2, PTL DEF Spec


(***************************************************************************)
(* The budget invariant.  The lock makes what a caller has read (its sum   *)
(* and its charge) still true when it inserts; the rows of a composition   *)
(* group agree on epsilon.                                                 *)
(***************************************************************************)

InReserve(c) == pc[c] \in {"locked", "inserting"}

ScopeLocked ==
  \A c, d \in Callers :
    InReserve(c) /\ InReserve(d) /\ c # d
      => ScopeOf[release[c]] # ScopeOf[release[d]]

ReadIsFresh ==
  \A c \in Callers, r \in Releases, e \in Epsilons :
    pc[c] = "inserting" /\ release[c] = r /\ asked[c] = e =>
      /\ decision[r] = "none"
      /\ used[c] = Used(ScopeOf[r])
      /\ charge[c] = ChargeFor(r, e)
      /\ ~ParametersChanged(r, e)

GroupsAgree ==
  \A r \in Releases : \A q \in AllowedInGroup(r) :
    decision[r] = "allowed" => epsilon[q] = epsilon[r]

EpsilonPositive ==
  \A r \in Releases : decision[r] # "none" => epsilon[r] \in Epsilons

BudgetInv == /\ TypeOK
             /\ InCall
             /\ ScopeLocked
             /\ ReadIsFresh
             /\ GroupsAgree
             /\ EpsilonPositive
             /\ BudgetNeverExceeded
             /\ ParallelCompositionCovered

LEMMA BudgetInit == Init => BudgetInv
<1> SUFFICES ASSUME Init PROVE BudgetInv
  OBVIOUS
<1>1. TypeOK /\ InCall /\ ScopeLocked /\ ReadIsFresh
  BY TypeInit DEF Init, InCall, ScopeLocked, ReadIsFresh, InReserve
<1>2. /\ \A s : Allowed(s) = {}
      /\ \A r \in Releases : AllowedInGroup(r) = {}
      /\ \A r \in Releases : AllowedInPartition(r) = {}
  BY DEF Init, LedgerInit, Allowed, AllowedInGroup, AllowedInPartition
<1>3. GroupsAgree /\ EpsilonPositive
  BY <1>2 DEF Init, LedgerInit, GroupsAgree, EpsilonPositive
<1>4. BudgetNeverExceeded
  BY <1>2, TotalEmpty, ConstantsAssumption DEF BudgetNeverExceeded, Used
<1>5. ParallelCompositionCovered
  BY <1>2, TotalEmpty DEF ParallelCompositionCovered
<1> QED
  BY <1>1, <1>3, <1>4, <1>5 DEF BudgetInv

\* A step that leaves decisions, parameters and charges alone leaves all that
\* is computed from them alone.
LEMMA SameRows ==
  ASSUME UNCHANGED <<decision, epsilon, charged>>
  PROVE  /\ \A s : Used(s)' = Used(s)
         /\ \A r, e : ChargeFor(r, e)' = ChargeFor(r, e)
         /\ \A r, e : ParametersChanged(r, e)' = ParametersChanged(r, e)
         /\ GroupsAgree' = GroupsAgree
         /\ EpsilonPositive' = EpsilonPositive
         /\ BudgetNeverExceeded' = BudgetNeverExceeded
         /\ ParallelCompositionCovered' = ParallelCompositionCovered
<1>1. \A s : Allowed(s)' = Allowed(s)
  BY DEF Allowed
<1>2. \A r : AllowedInGroup(r)' = AllowedInGroup(r)
  BY <1>1 DEF AllowedInGroup
<1>3. \A r : AllowedInPartition(r)' = AllowedInPartition(r)
  BY <1>2 DEF AllowedInPartition
<1>4. \A s : Used(s)' = Used(s)
  BY <1>1 DEF Used, Total, Units
<1>5. \A r, e : ChargeFor(r, e)' = ChargeFor(r, e)
  BY <1>2, <1>3 DEF ChargeFor
<1>6. \A r, e : ParametersChanged(r, e)' = ParametersChanged(r, e)
  BY <1>2 DEF ParametersChanged
<1>7. GroupsAgree' = GroupsAgree /\ EpsilonPositive' = EpsilonPositive
  BY <1>2 DEF GroupsAgree, EpsilonPositive
<1>8. BudgetNeverExceeded' = BudgetNeverExceeded
  BY <1>4 DEF BudgetNeverExceeded
<1>9. ParallelCompositionCovered' = ParallelCompositionCovered
  BY <1>2, <1>3 DEF ParallelCompositionCovered, Total, Units
<1> QED
  BY <1>4, <1>5, <1>6, <1>7, <1>8, <1>9

\* The same when a row is added that is not allowed (it was refused).
LEMMA RefusedRow ==
  ASSUME TypeOK, NEW r \in Releases, decision[r] = "none",
         decision' = [decision EXCEPT ![r] = "blocked"],
         UNCHANGED charged,
         \A q \in Releases : q # r => epsilon'[q] = epsilon[q]
  PROVE  /\ \A s : Allowed(s)' = Allowed(s)
         /\ \A q \in Releases : AllowedInGroup(q)' = AllowedInGroup(q)
         /\ \A q \in Releases : AllowedInPartition(q)' = AllowedInPartition(q)
         /\ \A s : \A q \in Allowed(s) : epsilon'[q] = epsilon[q]
<1>1. \A s : Allowed(s)' = Allowed(s)
  BY DEF Allowed, TypeOK
<1>2. \A q \in Releases : AllowedInGroup(q)' = AllowedInGroup(q)
  BY <1>1 DEF AllowedInGroup
<1>3. \A q \in Releases : AllowedInPartition(q)' = AllowedInPartition(q)
  BY <1>2 DEF AllowedInPartition
<1>4. \A s : \A q \in Allowed(s) : epsilon'[q] = epsilon[q]
  BY DEF Allowed
<1> QED
  BY <1>1, <1>2, <1>3, <1>4

(***************************************************************************)
(* A reservation that is allowed: one row more, charged as it was decided. *)
(***************************************************************************)

\* TotalAdd for the two sums the invariant is about.
LEMMA ChargeAdded ==
  ASSUME NEW S \in SUBSET Releases, NEW T, NEW r \in Releases, r \notin S,
         T = S \cup {r}, \A q \in S : charged'[q] = charged[q],
         charged'[r] \in 0 .. MaxEpsilon
  PROVE  Total(T, charged') = Total(S, charged) + charged'[r]
  BY TotalAdd

LEMMA EpsilonAdded ==
  ASSUME NEW S \in SUBSET Releases, NEW T, NEW r \in Releases, r \notin S,
         T = S \cup {r}, \A q \in S : epsilon'[q] = epsilon[q],
         epsilon'[r] \in 0 .. MaxEpsilon
  PROVE  Total(T, epsilon') = Total(S, epsilon) + epsilon'[r]
  BY TotalAdd

LEMMA AllowedRow ==
  ASSUME BudgetInv, NEW r \in Releases, NEW e \in Epsilons, NEW k,
         decision[r] = "none",
         ~ParametersChanged(r, e),
         k = ChargeFor(r, e),
         Used(ScopeOf[r]) + k <= Budget[ScopeOf[r]],
         decision' = [decision EXCEPT ![r] = "allowed"],
         epsilon' = [epsilon EXCEPT ![r] = e],
         charged' = [charged EXCEPT ![r] = k]
  PROVE  /\ GroupsAgree'
         /\ EpsilonPositive'
         /\ BudgetNeverExceeded'
         /\ ParallelCompositionCovered'
<1>0. /\ TypeOK /\ GroupsAgree /\ EpsilonPositive
      /\ BudgetNeverExceeded /\ ParallelCompositionCovered
  BY DEF BudgetInv
<1>1. /\ decision'[r] = "allowed" /\ epsilon'[r] = e /\ charged'[r] = k
      /\ \A q \in Releases : q # r => /\ decision'[q] = decision[q]
                                    /\ epsilon'[q] = epsilon[q]
                                    /\ charged'[q] = charged[q]
  BY <1>0 DEF TypeOK
<1>2. k \in 0 .. MaxEpsilon /\ e \in 0 .. MaxEpsilon /\ k \in Nat /\ e \in Nat
  BY SumsTyped, ConstantsAssumption DEF Epsilons
<1>a. epsilon'[r] \in 0 .. MaxEpsilon /\ charged'[r] \in 0 .. MaxEpsilon
  BY <1>1, <1>2
<1>3. \A s : /\ r \notin Allowed(s)
             /\ Allowed(s) \in SUBSET Releases
             /\ Allowed(s)' = IF s = ScopeOf[r] THEN Allowed(s) \cup {r}
                                                ELSE Allowed(s)
  BY <1>1 DEF Allowed
<1>4. \A q \in Releases :
        /\ AllowedInGroup(q) \in SUBSET Releases
        /\ r \notin AllowedInGroup(q)
        /\ AllowedInGroup(q)' =
              IF ScopeOf[q] = ScopeOf[r] /\ GroupOf[q] = GroupOf[r]
                THEN AllowedInGroup(q) \cup {r} ELSE AllowedInGroup(q)
  BY <1>3 DEF AllowedInGroup
<1>5. \A q \in Releases :
        /\ AllowedInPartition(q) \in SUBSET AllowedInGroup(q)
        /\ r \notin AllowedInPartition(q)
        /\ AllowedInPartition(q)' =
              IF /\ ScopeOf[q] = ScopeOf[r] /\ GroupOf[q] = GroupOf[r]
                 /\ PartitionOf[q] = PartitionOf[r]
                THEN AllowedInPartition(q) \cup {r} ELSE AllowedInPartition(q)
  BY <1>4 DEF AllowedInPartition
<1>6. BudgetNeverExceeded'
  <2> SUFFICES ASSUME NEW s \in Scopes
               PROVE  Used(s)' <= Budget[s]
    BY DEF BudgetNeverExceeded
  <2>a. /\ Allowed(s) \in SUBSET Releases /\ r \notin Allowed(s)
        /\ \A q \in Allowed(s) : charged'[q] = charged[q]
    BY <1>1, <1>3
  <2>1. Total(Allowed(s), charged') = Total(Allowed(s), charged)
    BY <2>a, TotalSameCost, Zenon
  <2>2. CASE s = ScopeOf[r]
    <3>a. Allowed(s)' = Allowed(s) \cup {r}
      BY <1>3, <2>2
    <3>1. Total(Allowed(s)', charged') = Total(Allowed(s), charged) + charged'[r]
      BY <1>a, <2>a, <3>a, ChargeAdded
    <3>2. Used(s)' = Used(s) + k
      BY <1>1, <1>3, <2>2, <3>1 DEF Used, Total, Units
    <3> QED
      BY <2>2, <3>2
  <2>3. CASE s # ScopeOf[r]
    <3>1. Used(s)' = Used(s)
      BY <1>3, <2>1, <2>3 DEF Used, Total, Units
    <3> QED
      BY <1>0, <3>1 DEF BudgetNeverExceeded
  <2> QED
    BY <2>2, <2>3
<1>7. \A q \in AllowedInGroup(r) : epsilon[q] = e
  BY DEF ParametersChanged
<1>8. GroupsAgree' /\ EpsilonPositive'
  <2>1. EpsilonPositive'
    BY <1>0, <1>1 DEF EpsilonPositive
  <2>2. ASSUME NEW q \in Releases, NEW p \in AllowedInGroup(q)',
               decision'[q] = "allowed"
        PROVE  epsilon'[p] = epsilon'[q]
    <3>1. CASE ~(ScopeOf[q] = ScopeOf[r] /\ GroupOf[q] = GroupOf[r])
      BY <1>0, <1>1, <1>4, <2>2, <3>1 DEF GroupsAgree
    <3>2. CASE ScopeOf[q] = ScopeOf[r] /\ GroupOf[q] = GroupOf[r]
      <4>1. AllowedInGroup(q) = AllowedInGroup(r)
        BY <3>2 DEF AllowedInGroup
      <4>2. epsilon'[p] = e
        BY <1>1, <1>4, <1>7, <2>2, <3>2, <4>1
      <4>3. q = r \/ q \in AllowedInGroup(r)
        BY <1>1, <2>2, <3>2 DEF AllowedInGroup, Allowed
      <4>4. epsilon'[q] = e
        BY <1>1, <1>4, <1>7, <4>3
      <4> QED
        BY <4>2, <4>4
    <3> QED
      BY <3>1, <3>2
  <2> QED
    BY <2>1, <2>2 DEF GroupsAgree
<1>9. ParallelCompositionCovered'
  <2> SUFFICES ASSUME NEW q \in Releases
               PROVE  Total(AllowedInPartition(q)', epsilon')
                        <= Total(AllowedInGroup(q)', charged')
    BY DEF ParallelCompositionCovered, Total, Units
  <2> DEFINE P == AllowedInPartition(q)
             G == AllowedInGroup(q)
  <2>1. /\ P \in SUBSET Releases /\ G \in SUBSET Releases
        /\ Total(P, epsilon) \in Nat /\ Total(G, charged) \in Nat
        /\ Total(P, epsilon) <= Total(G, charged)
    BY <1>0, <1>4, <1>5, UnitsFinite DEF ParallelCompositionCovered
  <2>2. /\ r \notin P /\ r \notin G
        /\ \A x \in P : epsilon'[x] = epsilon[x]
        /\ \A x \in G : charged'[x] = charged[x]
    BY <1>1, <1>4, <1>5, <2>1
  <2> DEFINE P1 == P \cup {r}
             G1 == G \cup {r}
  <2>c. P1 = P \cup {r} /\ G1 = G \cup {r}
    OBVIOUS
  <2> HIDE DEF P, G, P1, G1
  <2>3. /\ Total(P, epsilon') = Total(P, epsilon)
        /\ Total(G, charged') = Total(G, charged)
    BY <2>1, <2>2, TotalSameCost, Zenon
  <2>a. Total(P1, epsilon') = Total(P, epsilon) + epsilon'[r]
    BY <1>a, <2>1, <2>2, <2>c, EpsilonAdded
  <2>b. Total(G1, charged') = Total(G, charged) + charged'[r]
    BY <1>a, <2>1, <2>2, <2>c, ChargeAdded
  <2> USE DEF P, G, P1, G1
  <2>4. CASE ~(ScopeOf[q] = ScopeOf[r] /\ GroupOf[q] = GroupOf[r])
    BY <1>4, <1>5, <2>1, <2>3, <2>4
  <2>5. CASE /\ ScopeOf[q] = ScopeOf[r] /\ GroupOf[q] = GroupOf[r]
             /\ PartitionOf[q] # PartitionOf[r]
    <3>1. Total(P, epsilon') <= Total(G \cup {r}, charged')
      BY <1>1, <1>2, <2>1, <2>3, <2>b
    <3> QED
      BY <1>4, <1>5, <2>5, <3>1
  <2>6. CASE /\ ScopeOf[q] = ScopeOf[r] /\ GroupOf[q] = GroupOf[r]
             /\ PartitionOf[q] = PartitionOf[r]
    <3>1. Total(P \cup {r}, epsilon') <= Total(G \cup {r}, charged')
      <4>1. CASE k = e
        BY <1>1, <1>2, <2>1, <2>a, <2>b, <4>1
      <4>2. CASE k # e
        <5>1. /\ AllowedInGroup(r) # {} /\ AllowedInPartition(r) = {}
              /\ k = 0
          BY <4>2 DEF ChargeFor
        <5>2. P = {} /\ G = AllowedInGroup(r)
          BY <2>6, <5>1 DEF AllowedInPartition, AllowedInGroup
        <5>3. Total(P, epsilon) = 0
          BY <5>2, TotalEmpty
        <5>4. PICK p \in AllowedInGroup(r) : TRUE
          BY <5>1
        <5>5. /\ p \in Releases /\ epsilon[p] = e
              /\ AllowedInGroup(p) = G
              /\ {p} \in SUBSET AllowedInPartition(p)
              /\ AllowedInPartition(p) \in SUBSET Releases
          BY <1>7, <5>2, <5>4 DEF AllowedInPartition, AllowedInGroup, Allowed
        <5>6. Total({p}, epsilon) = e
          BY <1>2, <5>5, TotalSingle
        <5>7. Total({p}, epsilon) <= Total(AllowedInPartition(p), epsilon)
          BY <5>5, TotalMonotone
        <5>8. Total(AllowedInPartition(p), epsilon) <= Total(G, charged)
          BY <1>0, <5>5 DEF ParallelCompositionCovered
        <5>9. Total(AllowedInPartition(p), epsilon) \in Nat
          BY <5>5, UnitsFinite
        <5> QED
          BY <1>1, <1>2, <2>1, <2>a, <2>b, <5>1, <5>3, <5>6, <5>7, <5>8, <5>9
      <4> QED
        BY <4>1, <4>2
    <3> QED
      BY <1>4, <1>5, <2>6, <3>1
  <2> QED
    BY <2>4, <2>5, <2>6
<1> QED
  BY <1>6, <1>8, <1>9

(***************************************************************************)
(* Every step preserves the budget invariant.                              *)
(***************************************************************************)

\* A step that writes none of decision, epsilon and charged, and after which
\* every caller but c is where it was while c holds no lock.
LEMMA NoNewRow ==
  ASSUME BudgetInv, [Next]_vars, UNCHANGED <<decision, epsilon, charged>>,
         NEW c \in Callers, pc'[c] \in {"idle", "marking"},
         \A d \in Callers : d # c =>
           /\ pc'[d] = pc[d] /\ release'[d] = release[d]
           /\ asked'[d] = asked[d] /\ used'[d] = used[d]
           /\ charge'[d] = charge[d]
  PROVE  BudgetInv'
<1>1. TypeOK' /\ InCall'
  BY TypeStep DEF BudgetInv
<1>2. ScopeLocked'
  BY DEF BudgetInv, ScopeLocked, InReserve
<1>3. ReadIsFresh'
  <2> SUFFICES ASSUME NEW d \in Callers, NEW r \in Releases, NEW e \in Epsilons,
                      pc'[d] = "inserting", release'[d] = r, asked'[d] = e
               PROVE  /\ decision'[r] = "none"
                      /\ used'[d] = Used(ScopeOf[r])'
                      /\ charge'[d] = ChargeFor(r, e)'
                      /\ ~ParametersChanged(r, e)'
    BY DEF ReadIsFresh
  <2>1. /\ pc[d] = "inserting" /\ release[d] = r /\ asked[d] = e
        /\ used'[d] = used[d] /\ charge'[d] = charge[d]
    OBVIOUS
  <2>2. /\ decision[r] = "none"
        /\ used[d] = Used(ScopeOf[r])
        /\ charge[d] = ChargeFor(r, e)
        /\ ~ParametersChanged(r, e)
    BY <2>1 DEF BudgetInv, ReadIsFresh
  <2> QED
    BY <2>1, <2>2, SameRows
<1> QED
  BY <1>1, <1>2, <1>3, SameRows DEF BudgetInv

\* A row that appears in one scope changes nothing that a caller in another
\* scope has read.
LEMMA OtherScope ==
  ASSUME NEW r \in Releases, NEW q \in Releases, NEW f,
         ScopeOf[q] # ScopeOf[r],
         \A p \in Releases : p # r => /\ decision'[p] = decision[p]
                                    /\ epsilon'[p] = epsilon[p]
                                    /\ charged'[p] = charged[p]
  PROVE  /\ decision'[q] = decision[q]
         /\ Used(ScopeOf[q])' = Used(ScopeOf[q])
         /\ ChargeFor(q, f)' = ChargeFor(q, f)
         /\ ParametersChanged(q, f)' = ParametersChanged(q, f)
<1>1. /\ Allowed(ScopeOf[q])' = Allowed(ScopeOf[q])
      /\ Allowed(ScopeOf[q]) \in SUBSET Releases
      /\ \A p \in Allowed(ScopeOf[q]) : p # r
  BY DEF Allowed
<1>2. /\ AllowedInGroup(q)' = AllowedInGroup(q)
      /\ AllowedInPartition(q)' = AllowedInPartition(q)
  BY <1>1 DEF AllowedInGroup, AllowedInPartition
<1>3. ChargeFor(q, f)' = ChargeFor(q, f)
  BY <1>2 DEF ChargeFor
<1>4. ParametersChanged(q, f)' = ParametersChanged(q, f)
  BY <1>1, <1>2 DEF ParametersChanged, AllowedInGroup
<1>5. Units(Allowed(ScopeOf[q]), charged') = Units(Allowed(ScopeOf[q]), charged)
  BY <1>1 DEF Units
<1>6. Used(ScopeOf[q])' = Used(ScopeOf[q])
  BY <1>1, <1>5 DEF Used, Total, Units
<1> QED
  BY <1>3, <1>4, <1>6

\* A reservation that is refused: one row more, not charged.
LEMMA RefusedKeeps ==
  ASSUME BudgetInv, NEW r \in Releases, NEW e \in Epsilons, decision[r] = "none",
         decision' = [decision EXCEPT ![r] = "blocked"],
         epsilon' = [epsilon EXCEPT ![r] = e],
         UNCHANGED charged
  PROVE  /\ GroupsAgree'
         /\ EpsilonPositive'
         /\ BudgetNeverExceeded'
         /\ ParallelCompositionCovered'
<1>0. /\ TypeOK /\ GroupsAgree /\ EpsilonPositive
      /\ BudgetNeverExceeded /\ ParallelCompositionCovered
  BY DEF BudgetInv
<1>1. /\ \A q \in Releases : q # r => /\ decision'[q] = decision[q]
                                    /\ epsilon'[q] = epsilon[q]
      /\ epsilon'[r] = e /\ decision'[r] = "blocked"
  BY <1>0 DEF TypeOK
<1>2. /\ \A s : Allowed(s)' = Allowed(s)
      /\ \A q \in Releases : AllowedInGroup(q)' = AllowedInGroup(q)
      /\ \A q \in Releases : AllowedInPartition(q)' = AllowedInPartition(q)
      /\ \A s : \A q \in Allowed(s) : epsilon'[q] = epsilon[q]
  BY <1>0, <1>1, RefusedRow
<1>3. GroupsAgree'
  <2> SUFFICES ASSUME NEW q \in Releases, NEW p \in AllowedInGroup(q),
                      decision'[q] = "allowed"
               PROVE  epsilon'[p] = epsilon'[q]
    BY <1>2 DEF GroupsAgree
  <2>1. q # r /\ decision[q] = "allowed"
    BY <1>1
  <2>2. p # r /\ p \in Releases
    BY DEF AllowedInGroup, Allowed
  <2> QED
    BY <1>0, <1>1, <2>1, <2>2 DEF GroupsAgree
<1>4. EpsilonPositive'
  BY <1>0, <1>1 DEF EpsilonPositive
<1>5. BudgetNeverExceeded'
  BY <1>0, <1>2 DEF BudgetNeverExceeded, Used, Total, Units
<1>6. ParallelCompositionCovered'
  <2> SUFFICES ASSUME NEW q \in Releases
               PROVE  Total(AllowedInPartition(q), epsilon')
                        <= Total(AllowedInGroup(q), charged)
    BY <1>2 DEF ParallelCompositionCovered, Total, Units
  <2>1. /\ AllowedInPartition(q) \in SUBSET Releases
        /\ \A p \in AllowedInPartition(q) : epsilon'[p] = epsilon[p]
    BY <1>2 DEF AllowedInPartition, AllowedInGroup, Allowed
  <2>2. Total(AllowedInPartition(q), epsilon') = Total(AllowedInPartition(q), epsilon)
    BY <2>1, TotalSameCost, Zenon
  <2> QED
    BY <1>0, <2>2 DEF ParallelCompositionCovered
<1> QED
  BY <1>3, <1>4, <1>5, <1>6

LEMMA BudgetStep == BudgetInv /\ [Next]_vars => BudgetInv'
<1> SUFFICES ASSUME BudgetInv, [Next]_vars PROVE BudgetInv'
  OBVIOUS
<1>a. TypeOK /\ InCall /\ TypeOK' /\ InCall'
  BY TypeStep DEF BudgetInv
<1>1. CASE UNCHANGED vars
  <2>1. ScopeLocked'
    BY <1>1 DEF BudgetInv, ScopeLocked, InReserve, vars, caller
  <2>2. UNCHANGED <<decision, epsilon, charged>> /\ UNCHANGED caller
    BY <1>1 DEF vars, rows
  <2>3. ReadIsFresh'
    BY <2>2, SameRows DEF BudgetInv, ReadIsFresh, caller
  <2> QED
    BY <1>a, <2>1, <2>2, <2>3, SameRows DEF BudgetInv
<1>2. ASSUME NEW c \in Callers, NEW r \in Releases, NEW e \in Epsilons,
             LockScope(c, r, e)
      PROVE  BudgetInv'
  <2>1. UNCHANGED <<decision, epsilon, charged>>
    BY <1>2 DEF LockScope, rows
  <2>2. ScopeLocked'
    BY <1>2, <1>a DEF LockScope, BudgetInv, ScopeLocked, InReserve, Holds, TypeOK
  <2>3. ReadIsFresh'
    <3> SUFFICES ASSUME NEW d \in Callers, NEW q \in Releases, NEW f \in Epsilons,
                        pc'[d] = "inserting", release'[d] = q, asked'[d] = f
                 PROVE  /\ decision'[q] = "none"
                        /\ used'[d] = Used(ScopeOf[q])'
                        /\ charge'[d] = ChargeFor(q, f)'
                        /\ ~ParametersChanged(q, f)'
      BY DEF ReadIsFresh
    <3>1. /\ pc[d] = "inserting" /\ release[d] = q /\ asked[d] = f
          /\ used'[d] = used[d] /\ charge'[d] = charge[d]
      BY <1>2, <1>a DEF LockScope, TypeOK
    <3>2. /\ decision[q] = "none"
          /\ used[d] = Used(ScopeOf[q])
          /\ charge[d] = ChargeFor(q, f)
          /\ ~ParametersChanged(q, f)
      BY <3>1 DEF BudgetInv, ReadIsFresh
    <3> QED
      BY <2>1, <3>1, <3>2, SameRows
  <2> QED
    BY <1>a, <2>1, <2>2, <2>3, SameRows DEF BudgetInv
<1>3. ASSUME NEW c \in Callers, ReadScope(c)
      PROVE  BudgetInv'
  <2>1. UNCHANGED <<decision, epsilon, charged>>
    BY <1>3 DEF ReadScope, rows
  <2>2. CASE Return(c)
    BY <1>a, <2>1, <2>2, NoNewRow DEF Return, TypeOK
  <2>3. CASE ~Return(c)
    <3> DEFINE r == release[c]
               e == asked[c]
    <3>1. r \in Releases /\ e \in Epsilons /\ pc[c] = "locked"
      BY <1>3, <1>a DEF InCall, ReadScope
    <3>2. /\ pc' = [pc EXCEPT ![c] = "inserting"]
          /\ used' = [used EXCEPT ![c] = Used(ScopeOf[r])]
          /\ charge' = [charge EXCEPT ![c] = ChargeFor(r, e)]
          /\ UNCHANGED <<release, asked>>
          /\ decision[r] = "none" /\ ~ParametersChanged(r, e)
      BY <1>3, <2>3 DEF ReadScope
    <3>3. ScopeLocked'
      BY <3>1, <3>2, <1>a DEF BudgetInv, ScopeLocked, InReserve, TypeOK
    <3>4. ReadIsFresh'
      <4> SUFFICES ASSUME NEW d \in Callers, NEW q \in Releases, NEW f \in Epsilons,
                          pc'[d] = "inserting", release'[d] = q, asked'[d] = f
                   PROVE  /\ decision'[q] = "none"
                          /\ used'[d] = Used(ScopeOf[q])'
                          /\ charge'[d] = ChargeFor(q, f)'
                          /\ ~ParametersChanged(q, f)'
        BY DEF ReadIsFresh
      <4>1. /\ decision[q] = "none"
            /\ used'[d] = Used(ScopeOf[q])
            /\ charge'[d] = ChargeFor(q, f)
            /\ ~ParametersChanged(q, f)
        <5>1. CASE d = c
          BY <3>2, <5>1, <1>a DEF TypeOK
        <5>2. CASE d # c
          <6>1. /\ pc[d] = "inserting" /\ release[d] = q /\ asked[d] = f
                /\ used'[d] = used[d] /\ charge'[d] = charge[d]
            BY <3>2, <5>2, <1>a DEF TypeOK
          <6> QED
            BY <6>1 DEF BudgetInv, ReadIsFresh
        <5> QED
          BY <5>1, <5>2
      <4> QED
        BY <2>1, <4>1, SameRows
    <3> QED
      BY <1>a, <2>1, <3>3, <3>4, SameRows DEF BudgetInv
  <2> QED
    BY <2>2, <2>3
<1>4. ASSUME NEW c \in Callers, InsertRelease(c)
      PROVE  BudgetInv'
  <2> DEFINE r == release[c]
             e == asked[c]
  <2>1. r \in Releases /\ e \in Epsilons /\ pc[c] = "inserting"
    BY <1>4, <1>a DEF InCall, InsertRelease
  <2>2. /\ decision[r] = "none"
        /\ used[c] = Used(ScopeOf[r])
        /\ charge[c] = ChargeFor(r, e)
        /\ ~ParametersChanged(r, e)
    BY <2>1 DEF BudgetInv, ReadIsFresh
  <2>3. /\ pc'[c] = "idle"
        /\ \A d \in Callers : d # c =>
             /\ pc'[d] = pc[d] /\ release'[d] = release[d]
             /\ asked'[d] = asked[d] /\ used'[d] = used[d]
             /\ charge'[d] = charge[d]
    BY <1>4, <1>a DEF InsertRelease, Return, TypeOK
  <2>4. \A p \in Releases : p # r => /\ decision'[p] = decision[p]
                                   /\ epsilon'[p] = epsilon[p]
                                   /\ charged'[p] = charged[p]
    BY <1>4, <1>a DEF InsertRelease, TypeOK, rows
  <2>5. ScopeLocked'
    BY <2>3 DEF BudgetInv, ScopeLocked, InReserve
  <2>6. ReadIsFresh'
    <3> SUFFICES ASSUME NEW d \in Callers, NEW q \in Releases, NEW f \in Epsilons,
                        pc'[d] = "inserting", release'[d] = q, asked'[d] = f
                 PROVE  /\ decision'[q] = "none"
                        /\ used'[d] = Used(ScopeOf[q])'
                        /\ charge'[d] = ChargeFor(q, f)'
                        /\ ~ParametersChanged(q, f)'
      BY DEF ReadIsFresh
    <3>1. /\ d # c
          /\ pc[d] = "inserting" /\ release[d] = q /\ asked[d] = f
          /\ used'[d] = used[d] /\ charge'[d] = charge[d]
      BY <2>3
    <3>2. /\ decision[q] = "none"
          /\ used[d] = Used(ScopeOf[q])
          /\ charge[d] = ChargeFor(q, f)
          /\ ~ParametersChanged(q, f)
      BY <3>1 DEF BudgetInv, ReadIsFresh
    <3>3. ScopeOf[q] # ScopeOf[r]
      BY <2>1, <3>1 DEF BudgetInv, ScopeLocked, InReserve
    <3>4. /\ decision'[q] = decision[q]
          /\ Used(ScopeOf[q])' = Used(ScopeOf[q])
          /\ ChargeFor(q, f)' = ChargeFor(q, f)
          /\ ParametersChanged(q, f)' = ParametersChanged(q, f)
      <4> HIDE DEF r
      <4> QED
        BY <2>1, <2>4, <3>3, OtherScope
    <3> QED
      BY <3>1, <3>2, <3>4
  <2>7. GroupsAgree' /\ EpsilonPositive' /\ BudgetNeverExceeded'
          /\ ParallelCompositionCovered'
    <3>1. CASE WithinBudget(c)
      <4>1. /\ decision' = [decision EXCEPT ![r] = "allowed"]
            /\ epsilon' = [epsilon EXCEPT ![r] = e]
            /\ charged' = [charged EXCEPT ![r] = charge[c]]
        BY <1>4, <2>2, <3>1 DEF InsertRelease
      <4>2. Used(ScopeOf[r]) + charge[c] <= Budget[ScopeOf[r]]
        BY <2>2, <3>1 DEF WithinBudget
      <4> DEFINE k == charge[c]
      <4>3. k = ChargeFor(r, e)
        BY <2>2
      <4> HIDE DEF r, e, k
      <4> QED
        BY <2>1, <2>2, <4>1, <4>2, <4>3, AllowedRow DEF k
    <3>2. CASE ~WithinBudget(c)
      <4>1. /\ decision' = [decision EXCEPT ![r] = "blocked"]
            /\ epsilon' = [epsilon EXCEPT ![r] = e]
            /\ UNCHANGED charged
        BY <1>4, <2>2, <3>2 DEF InsertRelease
      <4> HIDE DEF r, e
      <4> QED
        BY <2>1, <2>2, <4>1, RefusedKeeps
    <3> QED
      BY <3>1, <3>2
  <2> QED
    BY <1>a, <2>5, <2>6, <2>7 DEF BudgetInv
<1>5. ASSUME NEW c \in Callers, NEW r \in Releases, NEW s \in Terminal,
             ReadRelease(c, r, s)
      PROVE  BudgetInv'
  BY <1>5, <1>a, NoNewRow DEF ReadRelease, TypeOK, rows
<1>6. ASSUME NEW c \in Callers, UpdateRelease(c)
      PROVE  BudgetInv'
  BY <1>6, <1>a, NoNewRow DEF UpdateRelease, Return, TypeOK
<1>7. ASSUME NEW c \in Callers, Rollback(c)
      PROVE  BudgetInv'
  BY <1>7, <1>a, NoNewRow DEF Rollback, Return, TypeOK, rows
<1> QED
  BY <1>1, <1>2, <1>3, <1>4, <1>5, <1>6, <1>7 DEF Next

LEMMA BudgetInvariant == Spec => []BudgetInv
  BY BudgetInit, BudgetStep, PTL DEF Spec

\* The releases of a scope are never charged more than its budget, for any
\* number of concurrent reservations of any releases (reserve()).
THEOREM BudgetIsKept == Spec => []BudgetNeverExceeded
<1>1. BudgetInv => BudgetNeverExceeded
  BY DEF BudgetInv
<1> QED
  BY <1>1, BudgetInvariant, PTL

\* A composition group is charged at least the epsilon of all the releases of
\* any one of its partitions (the charge reserve() chooses).
THEOREM ParallelCompositionIsCovered == Spec => []ParallelCompositionCovered
<1>1. BudgetInv => ParallelCompositionCovered
  BY DEF BudgetInv
<1> QED
  BY <1>1, BudgetInvariant, PTL

(***************************************************************************)
(* What a step may never do.                                               *)
(***************************************************************************)

LEMMA FrozenStep ==
  ASSUME BudgetInv, [Next]_vars
  PROVE  [\A r \in Releases :
            decision[r] # "none" =>
              /\ decision'[r] = decision[r]
              /\ epsilon'[r] = epsilon[r]
              /\ charged'[r] = charged[r]]_vars
<1> SUFFICES ASSUME NEW q \in Releases, decision[q] # "none"
             PROVE  /\ decision'[q] = decision[q]
                    /\ epsilon'[q] = epsilon[q]
                    /\ charged'[q] = charged[q]
  OBVIOUS
<1>1. CASE UNCHANGED <<decision, epsilon, charged>>
  BY <1>1
<1>2. ASSUME NEW c \in Callers, InsertRelease(c)
      PROVE  /\ decision'[q] = decision[q]
             /\ epsilon'[q] = epsilon[q]
             /\ charged'[q] = charged[q]
  BY <1>2 DEF BudgetInv, TypeOK, InsertRelease, rows
<1> QED
  BY <1>1, <1>2
  DEF Next, LockScope, ReadScope, ReadRelease, UpdateRelease, Rollback, vars, rows

\* A committed reservation keeps its decision and its charge, whatever becomes
\* of the release (mark_terminal() never refunds).
THEOREM ReservationsStayFrozen == Spec => ReservationsAreFrozen
<1>1. BudgetInv /\ [Next]_vars =>
        [\A r \in Releases :
           decision[r] # "none" =>
             /\ decision'[r] = decision[r]
             /\ epsilon'[r] = epsilon[r]
             /\ charged'[r] = charged[r]]_vars
  BY FrozenStep
<1> QED
  BY <1>1, BudgetInvariant, PTL DEF Spec, ReservationsAreFrozen

\* A release has a row exactly when it has a status, and is terminal at most
\* once (mark_terminal() against itself).
StatusOfRow == \A r \in Releases : decision[r] = "none" <=> status[r] = "none"

LEMMA StatusStep ==
  ASSUME TypeOK, InCall, StatusOfRow, [Next]_vars
  PROVE  /\ StatusOfRow'
         /\ \A r \in Releases : status[r] \in Terminal => status'[r] = status[r]
<1>1. CASE UNCHANGED <<decision, status>>
  BY <1>1 DEF StatusOfRow
<1>2. ASSUME NEW c \in Callers, InsertRelease(c)
      PROVE  /\ StatusOfRow'
             /\ \A r \in Releases : status[r] \in Terminal => status'[r] = status[r]
  BY <1>2 DEF InsertRelease, StatusOfRow, TypeOK, InCall, Terminal, rows
<1>3. ASSUME NEW c \in Callers, UpdateRelease(c)
      PROVE  /\ StatusOfRow'
             /\ \A r \in Releases : status[r] \in Terminal => status'[r] = status[r]
  BY <1>3 DEF UpdateRelease, StatusOfRow, TypeOK, InCall, Terminal
<1> QED
  BY <1>1, <1>2, <1>3
  DEF Next, LockScope, ReadScope, ReadRelease, Rollback, vars, rows

\* "A terminal privacy release cannot be replaced", also by a call that read it
\* before it was terminal.
THEOREM TerminalReleasesStayFinal == Spec => TerminalReleaseIsFinal
<1>1. Init => StatusOfRow
  BY DEF Init, LedgerInit, StatusOfRow
<1>2. BudgetInv /\ StatusOfRow /\ [Next]_vars => StatusOfRow'
  BY StatusStep DEF BudgetInv
<1>3. BudgetInv /\ StatusOfRow /\ [Next]_vars =>
        [\A r \in Releases : status[r] \in Terminal => status'[r] = status[r]]_vars
  BY StatusStep DEF BudgetInv
<1> QED
  BY <1>1, <1>2, <1>3, BudgetInvariant, PTL DEF Spec, TerminalReleaseIsFinal

(***************************************************************************)
(* The ledger: each INSERT and each UPDATE that changes the table is the   *)
(* one moment of its reservation or terminal mark; the other steps of a    *)
(* transaction are stutters.                                               *)
(***************************************************************************)

\* The INSERT: what the reservation was decided on is what the table says.
LEMMA InsertIsReservation ==
  ASSUME BudgetInv, BudgetInv', NEW c \in Callers, InsertRelease(c)
  PROVE  LedgerNext
<1> DEFINE r == release[c]
           e == asked[c]
<1>1. r \in Releases /\ e \in Epsilons /\ pc[c] = "inserting"
  BY DEF BudgetInv, InCall, InsertRelease
<1>2. /\ decision[r] = "none"
      /\ used[c] = Used(ScopeOf[r])
      /\ charge[c] = ChargeFor(r, e)
      /\ ~ParametersChanged(r, e)
  BY <1>1 DEF BudgetInv, ReadIsFresh
<1>3. MayReserve(r, e) /\ charge[c] \in {0, e}
  BY <1>2 DEF MayReserve, ChargeFor
<1>4. CASE WithinBudget(c)
  <2>1. Admit(r, e, charge[c])
    BY <1>2, <1>3, <1>4 DEF InsertRelease, Admit, BudgetInv
  <2> QED
    BY <1>1, <1>3, <2>1 DEF LedgerNext
<1>5. CASE ~WithinBudget(c)
  <2>1. used[c] \in Nat /\ charge[c] \in Nat /\ e \in Nat /\ charge[c] <= e
    BY <1>1, <1>3, ConstantsAssumption DEF BudgetInv, TypeOK, Epsilons
  <2>2. Budget[ScopeOf[r]] \in Nat
    BY <1>1, ConstantsAssumption
  <2>3. Used(ScopeOf[r]) + e > Budget[ScopeOf[r]]
    BY <1>2, <1>5, <2>1, <2>2 DEF WithinBudget
  <2>4. Refuse(r, e)
    BY <1>2, <1>3, <1>5, <2>3 DEF InsertRelease, Refuse
  <2> QED
    BY <1>1, <2>4 DEF LedgerNext
<1> QED
  BY <1>4, <1>5

LEMMA LedgerStep ==
  ASSUME BudgetInv, BudgetInv', [Next]_vars
  PROVE  [LedgerNext]_rows
<1>1. ASSUME NEW c \in Callers, InsertRelease(c)
      PROVE  LedgerNext
  BY <1>1, InsertIsReservation
<1>2. ASSUME NEW c \in Callers, UpdateRelease(c)
      PROVE  [LedgerNext]_rows
  <2>1. release[c] \in Releases /\ outcome[c] \in Terminal
    BY <1>2 DEF BudgetInv, InCall, UpdateRelease
  <2>2. CASE status[release[c]] = "reserved"
    <3>1. Mark(release[c], outcome[c])
      BY <1>2, <2>2 DEF UpdateRelease, Mark
    <3> QED
      BY <2>1, <3>1 DEF LedgerNext
  <2>3. CASE status[release[c]] # "reserved"
    BY <1>2, <2>3 DEF UpdateRelease, rows
  <2> QED
    BY <2>2, <2>3
<1>3. ASSUME NEW c \in Callers,
             \/ \E r \in Releases, e \in Epsilons : LockScope(c, r, e)
             \/ ReadScope(c)
             \/ \E r \in Releases, s \in Terminal : ReadRelease(c, r, s)
             \/ Rollback(c)
      PROVE  UNCHANGED rows
  BY <1>3 DEF LockScope, ReadScope, ReadRelease, Rollback
<1>4. CASE UNCHANGED vars
  BY <1>4 DEF vars
<1> QED
  BY <1>1, <1>2, <1>3, <1>4 DEF Next

\* PrivacyBudget implements PrivacyLedger: reserve() under its lock and
\* mark_terminal() without one change the table as if each call were a single
\* step, and a reservation is refused only when the budget is short then.
THEOREM LedgerIsKept == Spec => KeepsTheLedger
<1>1. Init => LedgerInit
  BY DEF Init
<1>2. BudgetInv /\ BudgetInv' /\ [Next]_vars => [LedgerNext]_rows
  BY LedgerStep
<1> QED
  BY <1>1, <1>2, BudgetInvariant, PTL DEF Spec, KeepsTheLedger, LedgerSpec

=============================================================================
