----------------------- MODULE AudienceApprovalProofs -----------------------
(***************************************************************************)
(* The safety properties of AudienceApproval, for any runs, clients,       *)
(* epsilons, budget, exceptions and crashes.                               *)
(***************************************************************************)
EXTENDS AudienceApproval, FiniteSetTheorems, TLAPS

\* A request knows its run, and one that saves the job record its decision.
InRequest ==
  \A c \in Clients :
    /\ pc[c] # "idle" => run[c] \in Runs
    /\ pc[c] \in {"rereading", "saving"} => reply[c] # "none"

\* The row is written once, by the job, before the job completes.
RowFollowsJob ==
  \A r \in Runs :
    /\ job[r] = "absent" => agent[r] = "none"
    /\ agent[r] \in {"none", "queued", "running", "persisting"} =>
         approval[r] = "absent" /\ summaryApproval[r] = "absent"
    /\ job[r] = "completed" \/ agent[r] = "completing" =>
         approval[r] # "absent"

\* Whoever holds an approval, in a row, a record or a request, has it from a
\* charge.
ChargedFirst ==
  /\ \A r \in Runs :
       approval[r] = "approved" \/ jobApproval[r] = "approved" \/ exported[r]
         => charges[r] > 0
  /\ \A c \in Clients :
       /\ pc[c] \in {"approving", "exporting"} => charges[run[c]] > 0
       /\ seenApproval[c] = "approved" =>
            pc[c] = "saving" /\ charges[run[c]] > 0

\* One decision at a time is charged, of a package that stays pending; what it
\* read from the ledger stays true until it writes.
OneDecision ==
  /\ \A c, d \in Clients : pc[c] \in Deciding /\ pc[d] \in Deciding => c = d
  /\ \A c \in Clients :
       pc[c] \in Deciding =>
         /\ summaryApproval[run[c]] = "pending_approval"
         /\ approval[run[c]] # "absent"

ReadIsCurrent == \A c \in Clients : pc[c] = "spending" => used[c] = Spent

RejectedIsClosed ==
  \A r \in Runs :
    summaryApproval[r] = "rejected" => approval[r] # "approved" /\ ~export[r]

\* The part of TypeOK that is about requests.
RequestTyped ==
  /\ pc \in [Clients -> {"idle", "deciding", "rereading", "saving", "exporting"}
                        \cup Deciding]
  /\ run \in [Clients -> Runs \cup {None}]
  /\ viaJob \in [Clients -> BOOLEAN]
  /\ want \in [Clients -> BOOLEAN]
  /\ used \in [Clients -> Nat]
  /\ reply \in [Clients -> Replies]
  /\ seenApproval \in [Clients -> Approvals]
  /\ seenExport \in [Clients -> BOOLEAN]

ApprovalInv ==
  /\ TypeOK
  /\ InRequest
  /\ RowFollowsJob
  /\ ChargedFirst
  /\ OneDecision
  /\ ReadIsCurrent
  /\ RejectedIsClosed
  /\ BudgetKept

-----------------------------------------------------------------------------
(* The ledger.                                                             *)

LEMMA SpentTyped == /\ Spent \in Nat /\ IsFiniteSet(Units)
                    /\ Spent' \in Nat
<1>1. IsFiniteSet(1 .. Budget + 1)
  BY ConstantsAssumption, FS_Interval
<1>2. IsFiniteSet(Runs \X (1 .. Budget + 1))
  BY <1>1, ConstantsAssumption, FS_Product
<1>3. /\ Units \in SUBSET (Runs \X (1 .. Budget + 1))
      /\ Units' \in SUBSET (Runs \X (1 .. Budget + 1))
  BY Zenon DEF Units
<1> QED
  BY <1>2, <1>3, FS_Subset, FS_CardinalityType DEF Spent

\* Without a new charge the sum is the same.
LEMMA SameCharges == ASSUME charges' = charges PROVE Spent' = Spent
  BY DEF Spent, Units

LEMMA UnionBound ==
  ASSUME NEW A, NEW B, NEW S, IsFiniteSet(A), IsFiniteSet(B),
         S \in SUBSET (A \cup B)
  PROVE  Cardinality(S) <= Cardinality(A) + Cardinality(B)
<1>1. /\ IsFiniteSet(A \cup B)
      /\ Cardinality(A \cup B)
           = Cardinality(A) + Cardinality(B) - Cardinality(A \cap B)
  BY FS_Union
<1>2. /\ IsFiniteSet(S) /\ IsFiniteSet(A \cap B)
      /\ Cardinality(S) <= Cardinality(A \cup B)
  BY <1>1, FS_Subset, FS_Intersection
<1>3. /\ Cardinality(S) \in Nat /\ Cardinality(A \cap B) \in Nat
      /\ Cardinality(A) \in Nat /\ Cardinality(B) \in Nat
      /\ Cardinality(A \cup B) \in Nat
  BY <1>1, <1>2, FS_CardinalityType
<1> QED
  BY <1>1, <1>2, <1>3

\* A charge adds at most the epsilon of its run to the sum.
LEMMA ChargeBound ==
  ASSUME TypeOK, NEW r \in Runs, charges' = [charges EXCEPT ![r] = @ + 1]
  PROVE  Spent' <= Spent + Epsilon[r]
<1> DEFINE low == charges[r] * Epsilon[r]
           high == low + Epsilon[r]
           Own == {r} \X (low + 1 .. high)
<1>1. Epsilon[r] \in Nat \ {0} /\ charges[r] \in Nat
  BY ConstantsAssumption DEF TypeOK
<1>2. low \in Nat /\ high \in Nat
  BY <1>1
<1>3. (charges[r] + 1) * Epsilon[r] = high
  BY <1>1
<1>4. \A q \in Runs :
        charges'[q] * Epsilon[q] =
          IF q = r THEN high ELSE charges[q] * Epsilon[q]
  BY <1>3 DEF TypeOK
<1> HIDE DEF low, high
<1>5. Units' \in SUBSET (Units \cup Own)
  <2> SUFFICES ASSUME NEW u \in Units' PROVE u \in Units \cup Own
    OBVIOUS
  <2>1. /\ u \in Runs \X (1 .. Budget + 1)
        /\ u[2] <= charges'[u[1]] * Epsilon[u[1]]
    BY DEF Units
  <2>2. u = <<u[1], u[2]>> /\ u[1] \in Runs /\ u[2] \in 1 .. Budget + 1
    BY <2>1
  <2>3. CASE u[1] # r
    BY <1>4, <2>1, <2>2, <2>3 DEF Units
  <2>4. CASE u[1] = r
    <3>1. u[2] <= high /\ u[2] \in Nat
      BY <1>4, <2>1, <2>2, <2>4, ConstantsAssumption
    <3>2. CASE u[2] <= low
      BY <2>1, <2>4, <3>2 DEF Units, low
    <3>3. CASE ~(u[2] <= low)
      <4>1. u[2] \in low + 1 .. high
        BY <1>2, <3>1, <3>3
      <4> QED
        BY <2>2, <2>4, <4>1
    <3> QED
      BY <3>2, <3>3
  <2> QED
    BY <2>3, <2>4
<1>6. IsFiniteSet(Own) /\ Cardinality(Own) = Epsilon[r]
  <2>1. /\ low + 1 \in Int /\ high \in Int /\ low + 1 <= high
        /\ high - (low + 1) + 1 = Epsilon[r]
    BY <1>1, <1>2 DEF high
  <2>2. /\ IsFiniteSet(low + 1 .. high)
        /\ Cardinality(low + 1 .. high) = Epsilon[r]
    BY <2>1, FS_Interval
  <2>3. IsFiniteSet({r}) /\ Cardinality({r}) = 1
    BY FS_Singleton
  <2>4. /\ IsFiniteSet(Own)
        /\ Cardinality(Own) = 1 * Cardinality(low + 1 .. high)
    BY <2>2, <2>3, FS_Product
  <2> QED
    BY <1>1, <2>2, <2>4
<1> HIDE DEF Own
<1>7. Cardinality(Units') <= Cardinality(Units) + Cardinality(Own)
  BY <1>5, <1>6, SpentTyped, UnionBound
<1> QED
  BY <1>6, <1>7 DEF Spent

-----------------------------------------------------------------------------
\* What a request returns to, and what a decision leaves, have their types.
LEMMA ReturnTyped ==
  ASSUME TypeOK, NEW c \in Clients, Return(c)
  PROVE  /\ RequestTyped' /\ pc'[c] = "idle"
         /\ \A d \in Clients \ {c} : pc'[d] = pc[d] /\ run'[d] = run[d]
BY ConstantsAssumption
DEF TypeOK, RequestTyped, Return, Approvals, Replies

LEMMA DecidedTyped ==
  ASSUME TypeOK, NEW c \in Clients, NEW a \in Replies, Decided(c, a)
  PROVE  /\ RequestTyped' /\ pc'[c] \in {"idle", "rereading"}
         /\ \A d \in Clients \ {c} : pc'[d] = pc[d] /\ run'[d] = run[d]
<1>1. CASE viaJob[c]
  BY <1>1 DEF Decided, Goto, TypeOK, RequestTyped
<1>2. CASE ~viaJob[c]
  BY <1>2, ReturnTyped DEF Decided
<1> QED
  BY <1>1, <1>2

LEMMA InitInv == Init => ApprovalInv
<1> SUFFICES ASSUME Init PROVE ApprovalInv
  OBVIOUS
<1> USE ConstantsAssumption
<1>1. TypeOK
  BY DEF Init, TypeOK, Made, Blocked, Approvals, Replies
<1>2. InRequest /\ RowFollowsJob /\ ChargedFirst
  BY DEF Init, InRequest, RowFollowsJob, ChargedFirst
<1>3. OneDecision /\ ReadIsCurrent /\ RejectedIsClosed
  BY DEF Init, OneDecision, ReadIsCurrent, RejectedIsClosed, Deciding
<1>4. BudgetKept
  <2>1. \A r \in Runs : charges[r] * Epsilon[r] = 0
    BY DEF Init
  <2>2. Units = {}
    BY <2>1 DEF Units
  <2> QED
    BY <2>2, FS_EmptySet DEF BudgetKept, Spent
<1> QED
  BY <1>1, <1>2, <1>3, <1>4 DEF ApprovalInv

LEMMA StepInv == ApprovalInv /\ [Next]_vars => ApprovalInv'
<1> SUFFICES ASSUME ApprovalInv, [Next]_vars PROVE ApprovalInv'
  OBVIOUS
<1> USE ConstantsAssumption
    DEF ApprovalInv, record, task, columns, summary, history, ledger, request
<1>1. ASSUME NEW r \in Runs, CreateJob(r)
      PROVE  ApprovalInv'
  <2>1. TypeOK'
    BY <1>1
    DEF CreateJob, TypeOK, Made, Blocked, Approvals
  <2>2. RowFollowsJob'
    BY <1>1
    DEF CreateJob, TypeOK, RowFollowsJob, Made
  <2>3. InRequest' /\ ChargedFirst' /\ OneDecision' /\ ReadIsCurrent' /\
        RejectedIsClosed' /\ BudgetKept'
    BY <1>1, SameCharges
    DEF CreateJob, InRequest, ChargedFirst, OneDecision, ReadIsCurrent,
        RejectedIsClosed, BudgetKept
  <2> QED
    BY <2>1, <2>2, <2>3
<1>2. ASSUME NEW r \in Runs, StartJob(r)
      PROVE  ApprovalInv'
  <2>1. TypeOK'
    BY <1>2
    DEF StartJob, TypeOK, Made, Blocked, Approvals
  <2>2. RowFollowsJob'
    BY <1>2
    DEF StartJob, TypeOK, RowFollowsJob, Made
  <2>3. InRequest' /\ ChargedFirst' /\ OneDecision' /\ ReadIsCurrent' /\
        RejectedIsClosed' /\ BudgetKept'
    BY <1>2, SameCharges
    DEF StartJob, InRequest, ChargedFirst, OneDecision, ReadIsCurrent,
        RejectedIsClosed, BudgetKept
  <2> QED
    BY <2>1, <2>2, <2>3
<1>3. ASSUME NEW r \in Runs, RunAgent(r)
      PROVE  ApprovalInv'
  <2>1. TypeOK'
    BY <1>3
    DEF RunAgent, TypeOK, Made, Blocked, Approvals
  <2>2. RowFollowsJob'
    BY <1>3
    DEF RunAgent, TypeOK, RowFollowsJob, Made
  <2>3. InRequest' /\ ChargedFirst' /\ OneDecision' /\ ReadIsCurrent' /\
        RejectedIsClosed' /\ BudgetKept'
    BY <1>3, SameCharges
    DEF RunAgent, InRequest, ChargedFirst, OneDecision, ReadIsCurrent,
        RejectedIsClosed, BudgetKept
  <2> QED
    BY <2>1, <2>2, <2>3
<1>4. ASSUME NEW r \in Runs, PersistRun(r)
      PROVE  ApprovalInv'
  <2>1. TypeOK'
    BY <1>4
    DEF PersistRun, TypeOK, Made, Blocked, Approvals
  <2>2. RowFollowsJob'
    BY <1>4
    DEF PersistRun, TypeOK, RowFollowsJob, Made
  <2>3. ChargedFirst'
    BY <1>4
    DEF PersistRun, TypeOK, ChargedFirst, Made
  <2>4. OneDecision'
    BY <1>4
    DEF PersistRun, Free, TypeOK, OneDecision, Deciding
  <2>5. RejectedIsClosed'
    BY <1>4
    DEF PersistRun, TypeOK, RejectedIsClosed, Made
  <2>6. InRequest' /\ ReadIsCurrent' /\ BudgetKept'
    BY <1>4, SameCharges
    DEF PersistRun, InRequest, ReadIsCurrent, BudgetKept
  <2> QED
    BY <2>1, <2>2, <2>3, <2>4, <2>5, <2>6
<1>5. ASSUME NEW r \in Runs, CompleteJob(r)
      PROVE  ApprovalInv'
  <2>1. TypeOK'
    BY <1>5
    DEF CompleteJob, TypeOK, Made, Blocked, Approvals
  <2>2. RowFollowsJob'
    BY <1>5
    DEF CompleteJob, TypeOK, RowFollowsJob, Made
  <2>3. ChargedFirst'
    BY <1>5
    DEF CompleteJob, TypeOK, ChargedFirst, Made
  <2>4. InRequest' /\ OneDecision' /\ ReadIsCurrent' /\ RejectedIsClosed' /\
        BudgetKept'
    BY <1>5, SameCharges
    DEF CompleteJob, InRequest, OneDecision, ReadIsCurrent, RejectedIsClosed,
        BudgetKept
  <2> QED
    BY <2>1, <2>2, <2>3, <2>4
<1>6. ASSUME NEW r \in Runs, JobRaises(r)
      PROVE  ApprovalInv'
  <2>1. TypeOK'
    BY <1>6
    DEF JobRaises, TypeOK, Made, Blocked, Approvals
  <2>2. RowFollowsJob'
    BY <1>6
    DEF JobRaises, TypeOK, RowFollowsJob, Made
  <2>3. InRequest' /\ ChargedFirst' /\ OneDecision' /\ ReadIsCurrent' /\
        RejectedIsClosed' /\ BudgetKept'
    BY <1>6, SameCharges
    DEF JobRaises, InRequest, ChargedFirst, OneDecision, ReadIsCurrent,
        RejectedIsClosed, BudgetKept
  <2> QED
    BY <2>1, <2>2, <2>3
<1>7. ASSUME NEW r \in Runs, FailJob(r)
      PROVE  ApprovalInv'
  <2>1. TypeOK'
    BY <1>7
    DEF FailJob, TypeOK, Made, Blocked, Approvals
  <2>2. RowFollowsJob'
    BY <1>7
    DEF FailJob, TypeOK, RowFollowsJob, Made
  <2>3. InRequest' /\ ChargedFirst' /\ OneDecision' /\ ReadIsCurrent' /\
        RejectedIsClosed' /\ BudgetKept'
    BY <1>7, SameCharges
    DEF FailJob, InRequest, ChargedFirst, OneDecision, ReadIsCurrent,
        RejectedIsClosed, BudgetKept
  <2> QED
    BY <2>1, <2>2, <2>3
<1>8. ASSUME NEW r \in Runs, JobDies(r)
      PROVE  ApprovalInv'
  <2>1. TypeOK'
    BY <1>8
    DEF JobDies, TypeOK, Made, Blocked, Approvals
  <2>2. RowFollowsJob'
    BY <1>8
    DEF JobDies, TypeOK, RowFollowsJob, Made
  <2>3. InRequest' /\ ChargedFirst' /\ OneDecision' /\ ReadIsCurrent' /\
        RejectedIsClosed' /\ BudgetKept'
    BY <1>8, SameCharges
    DEF JobDies, InRequest, ChargedFirst, OneDecision, ReadIsCurrent,
        RejectedIsClosed, BudgetKept
  <2> QED
    BY <2>1, <2>2, <2>3
<1>9. ASSUME NEW c \in Clients, Decline(c)
      PROVE  ApprovalInv'
  <2>1. TypeOK'
    <3>1. PICK a \in Replies : Return(c) \/ Decided(c, a)
      BY <1>9 DEF Decline, Replies
    <3>2. RequestTyped'
      BY <3>1, ReturnTyped, DecidedTyped
    <3>3. run[c] \in Runs
      BY <1>9 DEF Decline, InRequest
    <3>4. approval' \in [Runs -> Approvals] /\ export' \in [Runs -> BOOLEAN]
      BY <1>9, <3>3 DEF Decline, TypeOK, Approvals, Blocked
    <3> QED
      BY <1>9, <3>2, <3>4 DEF Decline, TypeOK, RequestTyped
  <2>2. InRequest'
    BY <1>9
    DEF Decline, Free, HasBlockers, Decided, Return, Goto, TypeOK, InRequest,
        Deciding
  <2>3. RowFollowsJob'
    BY <1>9
    DEF Decline, Free, HasBlockers, Decided, Return, Goto, TypeOK,
        RowFollowsJob, OneDecision, InRequest, Made, Deciding
  <2>4. ChargedFirst'
    BY <1>9
    DEF Decline, Free, HasBlockers, Decided, Return, Goto, TypeOK,
        ChargedFirst, InRequest, Made
  <2>5. OneDecision'
    BY <1>9
    DEF Decline, Free, HasBlockers, Decided, Return, Goto, TypeOK,
        OneDecision, InRequest, Blocked, Deciding
  <2>6. ReadIsCurrent'
    <3>1. Spent' = Spent
      BY <1>9, SameCharges DEF Decline
    <3> QED
      BY <1>9, <3>1 DEF Decline, Free, HasBlockers, Decided, Return, Goto,
                        TypeOK, ReadIsCurrent, OneDecision, Deciding
  <2>7. RejectedIsClosed'
    BY <1>9
    DEF Decline, Free, HasBlockers, Decided, Return, Goto, TypeOK,
        RejectedIsClosed, Made
  <2>8. BudgetKept'
    BY <1>9, SameCharges
    DEF Decline, BudgetKept
  <2> QED
    BY <2>1, <2>2, <2>3, <2>4, <2>5, <2>6, <2>7, <2>8
<1>10. ASSUME NEW c \in Clients, BeginCharge(c)
      PROVE  ApprovalInv'
  <2>1. TypeOK'
    BY <1>10
    DEF BeginCharge, Goto, TypeOK, InRequest, Made, Blocked, Approvals,
        Replies, Deciding
  <2>2. InRequest'
    BY <1>10
    DEF BeginCharge, Free, HasBlockers, Goto, TypeOK, InRequest, Deciding
  <2>3. ChargedFirst'
    BY <1>10
    DEF BeginCharge, Free, HasBlockers, Goto, TypeOK, ChargedFirst, InRequest,
        Made
  <2>4. OneDecision'
    BY <1>10
    DEF BeginCharge, Free, HasBlockers, Goto, TypeOK, OneDecision, InRequest,
        Blocked, Deciding
  <2>5. ReadIsCurrent'
    <3>1. Spent' = Spent
      BY <1>10, SameCharges DEF BeginCharge
    <3> QED
      BY <1>10, <3>1 DEF BeginCharge, Free, HasBlockers, Goto, TypeOK,
                         ReadIsCurrent, OneDecision, Deciding
  <2>6. RowFollowsJob' /\ RejectedIsClosed' /\ BudgetKept'
    BY <1>10, SameCharges
    DEF BeginCharge, RowFollowsJob, RejectedIsClosed, BudgetKept
  <2> QED
    BY <2>1, <2>2, <2>3, <2>4, <2>5, <2>6
<1>11. ASSUME NEW c \in Clients, ReadLedger(c)
      PROVE  ApprovalInv'
  <2>1. TypeOK'
    BY <1>11, SpentTyped
    DEF ReadLedger, Free, Goto, TypeOK, Deciding
  <2>2. InRequest'
    BY <1>11
    DEF ReadLedger, Free, Goto, TypeOK, InRequest, Deciding
  <2>3. ChargedFirst'
    BY <1>11
    DEF ReadLedger, Free, Goto, TypeOK, ChargedFirst, InRequest, Made
  <2>4. OneDecision'
    BY <1>11
    DEF ReadLedger, Free, Goto, TypeOK, OneDecision, InRequest, Blocked,
        Deciding
  <2>5. ReadIsCurrent'
    <3>1. Spent' = Spent
      BY <1>11, SameCharges DEF ReadLedger
    <3> QED
      BY <1>11, <3>1 DEF ReadLedger, Free, Goto, TypeOK, ReadIsCurrent,
                         OneDecision, Deciding
  <2>6. RowFollowsJob' /\ RejectedIsClosed' /\ BudgetKept'
    BY <1>11, SameCharges
    DEF ReadLedger, RowFollowsJob, RejectedIsClosed, BudgetKept
  <2> QED
    BY <2>1, <2>2, <2>3, <2>4, <2>5, <2>6
<1>12. ASSUME NEW c \in Clients, WriteLedger(c)
      PROVE  ApprovalInv'
  <2>1. TypeOK'
    BY <1>12
    DEF WriteLedger, Goto, TypeOK, InRequest, Made, Blocked, Approvals,
        Replies, Deciding
  <2>2. InRequest'
    BY <1>12
    DEF WriteLedger, Goto, TypeOK, InRequest, Deciding
  <2>3. ChargedFirst'
    <3>1. /\ run[c] \in Runs /\ pc[c] = "spending"
          /\ UNCHANGED <<approval, jobApproval, exported, run, seenApproval>>
      BY <1>12 DEF WriteLedger, InRequest
    <3>2. \/ /\ charges' = [charges EXCEPT ![run[c]] = @ + 1]
             /\ pc' = [pc EXCEPT ![c] = "approving"]
          \/ /\ charges' = charges
             /\ pc' = [pc EXCEPT ![c] = "refusing"]
      BY <1>12 DEF WriteLedger, Goto
    <3>3. /\ charges \in [Runs -> Nat]
          /\ charges' \in [Runs -> Nat]
          /\ \A r \in Runs : charges[r] > 0 => charges'[r] > 0
      BY <3>1, <3>2 DEF TypeOK
    <3>4. pc'[c] = "approving" => charges'[run[c]] > 0
      BY <3>1, <3>2, <3>3 DEF TypeOK
    <3>5. \A r \in Runs :
            approval'[r] = "approved" \/ jobApproval'[r] = "approved"
              \/ exported'[r] => charges'[r] > 0
      BY <3>1, <3>3 DEF ChargedFirst
    <3>6. ASSUME NEW d \in Clients, d # c
          PROVE  /\ pc'[d] \in {"approving", "exporting"} =>
                      charges'[run'[d]] > 0
                 /\ seenApproval'[d] = "approved" =>
                      pc'[d] = "saving" /\ charges'[run'[d]] > 0
      <4>1. pc'[d] = pc[d] /\ (pc[d] # "idle" => run[d] \in Runs)
        BY <3>2, <3>6 DEF InRequest, TypeOK
      <4> QED
        BY <3>1, <3>3, <4>1 DEF ChargedFirst
    <3>7. /\ pc'[c] # "exporting" /\ seenApproval'[c] # "approved"
          /\ run'[c] = run[c]
      BY <3>1, <3>2 DEF ChargedFirst, TypeOK
    <3> QED
      BY <3>4, <3>5, <3>6, <3>7 DEF ChargedFirst
  <2>4. OneDecision'
    BY <1>12
    DEF WriteLedger, Goto, TypeOK, OneDecision, InRequest, Blocked, Deciding
  <2>5. ReadIsCurrent'
    <3>1. pc[c] \in Deciding /\ pc'[c] # "spending"
      BY <1>12 DEF WriteLedger, Goto, Deciding, TypeOK
    <3>2. \A d \in Clients : d # c => pc'[d] = pc[d]
      BY <1>12 DEF WriteLedger, Goto, TypeOK
    <3> QED
      BY <3>1, <3>2 DEF OneDecision, Deciding, ReadIsCurrent
  <2>6. BudgetKept'
    <3>1. CASE WithinBudget(c)
      <4>1. /\ run[c] \in Runs
            /\ charges' = [charges EXCEPT ![run[c]] = @ + 1]
        BY <1>12, <3>1 DEF WriteLedger, InRequest
      <4>2. Spent + Epsilon[run[c]] <= Budget
        BY <1>12, <3>1 DEF WriteLedger, WithinBudget, ReadIsCurrent
      <4>3. Spent' <= Spent + Epsilon[run[c]]
        BY <4>1, ChargeBound
      <4>4. Spent \in Nat /\ Spent' \in Nat /\ Epsilon[run[c]] \in Nat
        BY <4>1, SpentTyped, ConstantsAssumption
      <4> QED
        BY <4>2, <4>3, <4>4 DEF BudgetKept
    <3>2. CASE ~WithinBudget(c)
      BY <1>12, <3>2, SameCharges DEF WriteLedger, BudgetKept
    <3> QED
      BY <3>1, <3>2
  <2>7. RowFollowsJob' /\ RejectedIsClosed'
    BY <1>12
    DEF WriteLedger, RowFollowsJob, RejectedIsClosed
  <2> QED
    BY <2>1, <2>2, <2>3, <2>4, <2>5, <2>6, <2>7
<1>13. ASSUME NEW c \in Clients, RecordDecision(c)
      PROVE  ApprovalInv'
  <2>1. TypeOK'
    <3>1. PICK a \in Replies : Decided(c, a)
      BY <1>13 DEF RecordDecision, Replies
    <3>2. RequestTyped'
      BY <3>1, DecidedTyped
    <3>3. run[c] \in Runs /\ want[c] \in BOOLEAN
      BY <1>13 DEF RecordDecision, InRequest, TypeOK
    <3>4. /\ approval' \in [Runs -> Approvals]
          /\ export' \in [Runs -> BOOLEAN]
          /\ summaryApproval' \in
               [Runs -> Made \cup {"absent", "approved", "rejected"}]
          /\ summaryExport' \in [Runs -> BOOLEAN]
      <4>1. CASE pc[c] = "approving"
        BY <1>13, <3>3, <4>1 DEF RecordDecision, TypeOK, Approvals
      <4>2. CASE pc[c] = "refusing"
        BY <1>13, <3>3, <4>2 DEF RecordDecision, TypeOK, Approvals, Blocked
      <4> QED
        BY <1>13, <4>1, <4>2 DEF RecordDecision
    <3>5. UNCHANGED <<record, task, ledger, faults>>
      BY <1>13 DEF RecordDecision
    <3> QED
      BY <3>2, <3>4, <3>5 DEF TypeOK, RequestTyped
  <2>2. InRequest'
    BY <1>13
    DEF RecordDecision, Decided, Return, Goto, TypeOK, InRequest, Deciding
  <2>3. RowFollowsJob'
    BY <1>13
    DEF RecordDecision, Decided, Return, Goto, TypeOK, RowFollowsJob,
        OneDecision, InRequest, Made, Deciding
  <2>4. ChargedFirst'
    BY <1>13
    DEF RecordDecision, Decided, Return, Goto, TypeOK, ChargedFirst,
        InRequest, Made
  <2>5. OneDecision'
    <3>1. PICK a \in Replies : Decided(c, a)
      BY <1>13 DEF RecordDecision, Replies
    <3>2. /\ pc'[c] \notin Deciding
          /\ \A d \in Clients \ {c} : pc'[d] = pc[d] /\ run'[d] = run[d]
      BY <3>1, DecidedTyped DEF Deciding
    <3>3. pc[c] \in Deciding
      BY <1>13 DEF RecordDecision, Deciding
    <3>4. \A d \in Clients : pc'[d] \notin Deciding
      BY <3>2, <3>3 DEF OneDecision
    <3> QED
      BY <3>4 DEF OneDecision
  <2>6. ReadIsCurrent'
    <3>1. Spent' = Spent
      BY <1>13, SameCharges DEF RecordDecision
    <3> QED
      BY <1>13, <3>1 DEF RecordDecision, Decided, Return, Goto, TypeOK,
                         ReadIsCurrent, OneDecision, Deciding
  <2>7. RejectedIsClosed'
    BY <1>13
    DEF RecordDecision, Decided, Return, Goto, TypeOK, RejectedIsClosed, Made
  <2>8. BudgetKept'
    BY <1>13, SameCharges
    DEF RecordDecision, BudgetKept
  <2> QED
    BY <2>1, <2>2, <2>3, <2>4, <2>5, <2>6, <2>7, <2>8
<1>14. ASSUME NEW c \in Clients, Reread(c)
      PROVE  ApprovalInv'
  <2>1. TypeOK'
    BY <1>14
    DEF Reread, Goto, TypeOK, InRequest, Made, Blocked, Approvals, Replies,
        Deciding
  <2>2. InRequest'
    BY <1>14
    DEF Reread, Free, Goto, TypeOK, InRequest, Deciding
  <2>3. ChargedFirst'
    BY <1>14
    DEF Reread, Free, Goto, TypeOK, ChargedFirst, InRequest, Made
  <2>4. OneDecision'
    BY <1>14
    DEF Reread, Free, Goto, TypeOK, OneDecision, InRequest, Blocked, Deciding
  <2>5. ReadIsCurrent'
    <3>1. Spent' = Spent
      BY <1>14, SameCharges DEF Reread
    <3> QED
      BY <1>14, <3>1 DEF Reread, Free, Goto, TypeOK, ReadIsCurrent,
                         OneDecision, Deciding
  <2>6. RowFollowsJob' /\ RejectedIsClosed' /\ BudgetKept'
    BY <1>14, SameCharges
    DEF Reread, RowFollowsJob, RejectedIsClosed, BudgetKept
  <2> QED
    BY <2>1, <2>2, <2>3, <2>4, <2>5, <2>6
<1>15. ASSUME NEW c \in Clients, SaveJob(c)
      PROVE  ApprovalInv'
  <2>1. TypeOK'
    BY <1>15
    DEF SaveJob, Return, TypeOK, InRequest, Made, Blocked, Approvals, Replies,
        Deciding
  <2>2. InRequest'
    BY <1>15
    DEF SaveJob, Return, TypeOK, InRequest, Deciding
  <2>3. ChargedFirst'
    BY <1>15
    DEF SaveJob, Return, TypeOK, ChargedFirst, InRequest, Made
  <2>4. OneDecision'
    BY <1>15
    DEF SaveJob, Return, TypeOK, OneDecision, InRequest, Blocked, Deciding
  <2>5. ReadIsCurrent'
    <3>1. Spent' = Spent
      BY <1>15, SameCharges DEF SaveJob
    <3> QED
      BY <1>15, <3>1 DEF SaveJob, Return, TypeOK, ReadIsCurrent, OneDecision,
                         Deciding
  <2>6. RowFollowsJob' /\ RejectedIsClosed' /\ BudgetKept'
    BY <1>15, SameCharges
    DEF SaveJob, RowFollowsJob, RejectedIsClosed, BudgetKept
  <2> QED
    BY <2>1, <2>2, <2>3, <2>4, <2>5, <2>6
<1>16. ASSUME NEW c \in Clients, RecordExport(c)
      PROVE  ApprovalInv'
  <2>1. TypeOK'
    BY <1>16
    DEF RecordExport, Return, TypeOK, InRequest, Made, Blocked, Approvals,
        Replies, Deciding
  <2>2. InRequest'
    BY <1>16
    DEF RecordExport, Free, Return, TypeOK, InRequest, Deciding
  <2>3. ChargedFirst'
    BY <1>16
    DEF RecordExport, Free, Return, TypeOK, ChargedFirst, InRequest, Made
  <2>4. OneDecision'
    BY <1>16
    DEF RecordExport, Free, Return, TypeOK, OneDecision, InRequest, Blocked,
        Deciding
  <2>5. ReadIsCurrent'
    <3>1. Spent' = Spent
      BY <1>16, SameCharges DEF RecordExport
    <3> QED
      BY <1>16, <3>1 DEF RecordExport, Free, Return, TypeOK, ReadIsCurrent,
                         OneDecision, Deciding
  <2>6. RowFollowsJob' /\ RejectedIsClosed' /\ BudgetKept'
    BY <1>16, SameCharges
    DEF RecordExport, RowFollowsJob, RejectedIsClosed, BudgetKept
  <2> QED
    BY <2>1, <2>2, <2>3, <2>4, <2>5, <2>6
<1>17. ASSUME NEW c \in Clients, RequestDies(c)
      PROVE  ApprovalInv'
  <2>1. TypeOK'
    BY <1>17
    DEF RequestDies, Return, TypeOK, InRequest, Made, Blocked, Approvals,
        Replies, Deciding
  <2>2. InRequest'
    BY <1>17
    DEF RequestDies, Return, TypeOK, InRequest, Deciding
  <2>3. ChargedFirst'
    BY <1>17
    DEF RequestDies, Return, TypeOK, ChargedFirst, InRequest, Made
  <2>4. OneDecision'
    BY <1>17
    DEF RequestDies, Return, TypeOK, OneDecision, InRequest, Blocked, Deciding
  <2>5. ReadIsCurrent'
    <3>1. Spent' = Spent
      BY <1>17, SameCharges DEF RequestDies
    <3> QED
      BY <1>17, <3>1 DEF RequestDies, Return, TypeOK, ReadIsCurrent,
                         OneDecision, Deciding
  <2>6. RowFollowsJob' /\ RejectedIsClosed' /\ BudgetKept'
    BY <1>17, SameCharges
    DEF RequestDies, RowFollowsJob, RejectedIsClosed, BudgetKept
  <2> QED
    BY <2>1, <2>2, <2>3, <2>4, <2>5, <2>6
<1>18. ASSUME NEW c \in Clients, NEW r \in Runs, ApproveJob(c, r)
      PROVE  ApprovalInv'
  <2>1. TypeOK'
    BY <1>18
    DEF ApproveJob, Request, Goto, TypeOK, InRequest, Made, Blocked,
        Approvals, Replies, Deciding
  <2>2. InRequest'
    BY <1>18
    DEF ApproveJob, Request, Goto, TypeOK, InRequest, Deciding
  <2>3. ChargedFirst'
    BY <1>18
    DEF ApproveJob, Request, Goto, TypeOK, ChargedFirst, InRequest, Made
  <2>4. OneDecision'
    BY <1>18
    DEF ApproveJob, Request, Goto, TypeOK, OneDecision, InRequest, Blocked,
        Deciding
  <2>5. ReadIsCurrent'
    <3>1. Spent' = Spent
      BY <1>18, SameCharges DEF ApproveJob, Request
    <3> QED
      BY <1>18, <3>1 DEF ApproveJob, Request, Goto, TypeOK, ReadIsCurrent,
                         OneDecision, Deciding
  <2>6. RowFollowsJob' /\ RejectedIsClosed' /\ BudgetKept'
    BY <1>18, SameCharges
    DEF ApproveJob, Request, RowFollowsJob, RejectedIsClosed, BudgetKept
  <2> QED
    BY <2>1, <2>2, <2>3, <2>4, <2>5, <2>6
<1>19. ASSUME NEW c \in Clients, NEW r \in Runs, ApproveRun(c, r)
      PROVE  ApprovalInv'
  <2>1. TypeOK'
    BY <1>19
    DEF ApproveRun, Request, Goto, TypeOK, InRequest, Made, Blocked,
        Approvals, Replies, Deciding
  <2>2. InRequest'
    BY <1>19
    DEF ApproveRun, Request, Goto, TypeOK, InRequest, Deciding
  <2>3. ChargedFirst'
    BY <1>19
    DEF ApproveRun, Request, Goto, TypeOK, ChargedFirst, InRequest, Made
  <2>4. OneDecision'
    BY <1>19
    DEF ApproveRun, Request, Goto, TypeOK, OneDecision, InRequest, Blocked,
        Deciding
  <2>5. ReadIsCurrent'
    <3>1. Spent' = Spent
      BY <1>19, SameCharges DEF ApproveRun, Request
    <3> QED
      BY <1>19, <3>1 DEF ApproveRun, Request, Goto, TypeOK, ReadIsCurrent,
                         OneDecision, Deciding
  <2>6. RowFollowsJob' /\ RejectedIsClosed' /\ BudgetKept'
    BY <1>19, SameCharges
    DEF ApproveRun, Request, RowFollowsJob, RejectedIsClosed, BudgetKept
  <2> QED
    BY <2>1, <2>2, <2>3, <2>4, <2>5, <2>6
<1>20. ASSUME NEW c \in Clients, NEW r \in Runs, RejectRun(c, r)
      PROVE  ApprovalInv'
  <2>1. TypeOK'
    BY <1>20
    DEF RejectRun, TypeOK, InRequest, Made, Blocked, Approvals, Replies,
        Deciding
  <2>2. RowFollowsJob'
    BY <1>20
    DEF RejectRun, Free, TypeOK, RowFollowsJob, OneDecision, InRequest, Made,
        Deciding
  <2>3. ChargedFirst'
    BY <1>20
    DEF RejectRun, Free, TypeOK, ChargedFirst, InRequest, Made
  <2>4. OneDecision'
    BY <1>20
    DEF RejectRun, Free, TypeOK, OneDecision, InRequest, Blocked, Deciding
  <2>5. RejectedIsClosed'
    BY <1>20
    DEF RejectRun, Free, TypeOK, RejectedIsClosed, Made
  <2>6. InRequest' /\ ReadIsCurrent' /\ BudgetKept'
    BY <1>20, SameCharges
    DEF RejectRun, InRequest, ReadIsCurrent, BudgetKept
  <2> QED
    BY <2>1, <2>2, <2>3, <2>4, <2>5, <2>6
<1>21. ASSUME NEW c \in Clients, NEW r \in Runs, ExportMeta(c, r)
      PROVE  ApprovalInv'
  <2>1. TypeOK'
    BY <1>21
    DEF ExportMeta, Goto, TypeOK, InRequest, Made, Blocked, Approvals,
        Replies, Deciding
  <2>2. InRequest'
    BY <1>21
    DEF ExportMeta, Free, MayExport, Goto, TypeOK, InRequest, Deciding
  <2>3. ChargedFirst'
    BY <1>21
    DEF ExportMeta, Free, MayExport, Goto, TypeOK, ChargedFirst, InRequest,
        Made
  <2>4. OneDecision'
    BY <1>21
    DEF ExportMeta, Free, MayExport, Goto, TypeOK, OneDecision, InRequest,
        Blocked, Deciding
  <2>5. ReadIsCurrent'
    <3>1. Spent' = Spent
      BY <1>21, SameCharges DEF ExportMeta
    <3> QED
      BY <1>21, <3>1 DEF ExportMeta, Free, MayExport, Goto, TypeOK,
                         ReadIsCurrent, OneDecision, Deciding
  <2>6. RowFollowsJob' /\ RejectedIsClosed' /\ BudgetKept'
    BY <1>21, SameCharges
    DEF ExportMeta, RowFollowsJob, RejectedIsClosed, BudgetKept
  <2> QED
    BY <2>1, <2>2, <2>3, <2>4, <2>5, <2>6
<1>22. CASE UNCHANGED vars
  <2>1. Spent' = Spent
    BY <1>22, SameCharges DEF vars
  <2> QED
    BY <1>22, <2>1
    DEF vars, TypeOK, InRequest, RowFollowsJob, ChargedFirst, OneDecision,
        ReadIsCurrent, RejectedIsClosed, BudgetKept
<1> QED
  BY <1>1, <1>2, <1>3, <1>4, <1>5, <1>6, <1>7, <1>8, <1>9, <1>10, <1>11,
     <1>12, <1>13, <1>14, <1>15, <1>16, <1>17, <1>18, <1>19, <1>20, <1>21,
     <1>22, SMTT(60)
  DEF Next, Background, Serve, Accept

LEMMA Invariant == Spec => []ApprovalInv
  BY InitInv, StepInv, PTL DEF Spec

-----------------------------------------------------------------------------
(* Theorems.                                                               *)

\* Every variable of the jobs, the run history, the ledger and the requests
\* keeps its type.
THEOREM TypeCorrect == Spec => []TypeOK
<1>1. ApprovalInv => TypeOK
  BY DEF ApprovalInv
<1> QED
  BY <1>1, Invariant, PTL

\* The approvals of one scope, whichever requests are served at once, never
\* spend more than its budget.
THEOREM BudgetIsKept == Spec => []BudgetKept
<1>1. ApprovalInv => BudgetKept
  BY DEF ApprovalInv
<1> QED
  BY <1>1, Invariant, PTL

\* A run recorded as approved, in its row or in its job, has been charged.
THEOREM ApprovalsAreCharged == Spec => []ApprovalIsCharged
<1>1. ApprovalInv => ApprovalIsCharged
  BY DEF ApprovalInv, ChargedFirst, ApprovalIsCharged
<1> QED
  BY <1>1, Invariant, PTL

\* A payload is generated only for a run that has been charged.
THEOREM ExportsAreCharged == Spec => []ExportedIsCharged
<1>1. ApprovalInv => ExportedIsCharged
  BY DEF ApprovalInv, ChargedFirst, ExportedIsCharged
<1> QED
  BY <1>1, Invariant, PTL

\* A completed job has a row in the run history.
THEOREM CompletedJobsHaveRuns == Spec => []CompletedJobHasRun
<1>1. ApprovalInv => CompletedJobHasRun
  BY DEF ApprovalInv, RowFollowsJob, CompletedJobHasRun
<1> QED
  BY <1>1, Invariant, PTL

\* A rejected run is never approved or enabled for export again.
THEOREM RejectionsStick == Spec => RejectionSticks
<1> DEFINE A == \A r \in Runs :
                  summaryApproval[r] = "rejected" =>
                    /\ summaryApproval'[r] = "rejected"
                    /\ approval'[r] # "approved"
                    /\ ~export'[r]
<1>1. ASSUME ApprovalInv, ApprovalInv', [Next]_vars PROVE [A]_vars
  <2> SUFFICES ASSUME NEW r \in Runs, summaryApproval[r] = "rejected"
               PROVE  summaryApproval'[r] = "rejected"
    BY <1>1 DEF ApprovalInv, RejectedIsClosed
  <2> USE <1>1 DEF record, task, columns, summary, history, ledger, request
  <2>1. CASE summaryApproval' = summaryApproval
    BY <2>1
  <2>2. ASSUME NEW q \in Runs, PersistRun(q)
        PROVE  summaryApproval'[r] = "rejected"
    BY <2>2 DEF PersistRun, ApprovalInv, RowFollowsJob, TypeOK
  <2>3. ASSUME NEW c \in Clients, RecordDecision(c)
        PROVE  summaryApproval'[r] = "rejected"
    BY <2>3
    DEF RecordDecision, ApprovalInv, InRequest, OneDecision, TypeOK, Deciding
  <2>4. ASSUME NEW c \in Clients, NEW q \in Runs, RejectRun(c, q)
        PROVE  summaryApproval'[r] = "rejected"
    BY <2>4 DEF RejectRun, ApprovalInv, TypeOK
  <2>5. \/ summaryApproval' = summaryApproval
        \/ \E q \in Runs : PersistRun(q)
        \/ \E c \in Clients : RecordDecision(c)
        \/ \E c \in Clients, q \in Runs : RejectRun(c, q)
    BY DEF Next, Background, Serve, Accept, CreateJob, StartJob, RunAgent,
           CompleteJob, JobRaises, FailJob, JobDies, Decline, BeginCharge,
           ReadLedger, WriteLedger, Reread, SaveJob, RecordExport,
           RequestDies, ApproveJob, ApproveRun, Request, ExportMeta, vars
  <2> QED
    BY <2>1, <2>2, <2>3, <2>4, <2>5
<1> QED
  BY <1>1, Invariant, PTL DEF Spec, RejectionSticks
=============================================================================
