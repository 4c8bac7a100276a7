------------------------- MODULE PrivacyWindowProofs -------------------------
(***************************************************************************)
(* The safety properties of PrivacyWindow, for any deliveries, partitions, *)
(* corrections and data-rights requests.                                   *)
(***************************************************************************)
EXTENDS PrivacyWindow, TLAPS

\* The advisory lock is held by one transaction at a time.
LockExclusive == \A f, g \in Deliveries : Holds(f) /\ Holds(g) => f = g

\* A partition has one current delivery.
OneCurrent ==
  \A f, g \in Deliveries :
    Current(f) /\ Current(g) /\ PartitionOf[f] = PartitionOf[g] => f = g

\* What the rows of a delivery say follows from where its invocation is.
RowsFollowPc ==
  \A f \in Deliveries :
    /\ pc[f] \in {"new", "registering"} => partition[f] = "none"
    /\ pc[f] \in {"running", "marking", "committing", "sealing",
                  "activating", "done"} => partition[f] # "none"
    /\ pc[f] \in {"marking", "committing"} =>
         partition[f] # "ready" /\ canonical[f] = "none"
    /\ pc[f] = "committing" =>
         partition[f] = IF matched[f] THEN "registered" ELSE "superseded"
    /\ partition[f] \in {"none", "registered"} => canonical[f] = "none"

\* A window that does not exist has no partitions.
NoneIsEmpty == window = "none" => \A f \in Deliveries : partition[f] = "none"

\* The lock keeps what register_partition has read valid until it writes,
\* except that the window may be revoked.
ReadStillHolds ==
  \A f \in Deliveries :
    pc[f] = "registering" =>
      /\ seen[f] # "revoked"
      /\ window \in {seen[f], "revoked"}
      /\ seen[f] = "none" => window = "none"
      /\ old[f] = None =>
           \A g \in Deliveries :
             Current(g) => PartitionOf[g] # PartitionOf[f]
      /\ old[f] # None =>
           /\ old[f] \in Deliveries
           /\ Current(old[f])
           /\ PartitionOf[old[f]] = PartitionOf[f]

\* ... and the check of seal_window valid until it seals.
CheckStillHolds ==
  \A f \in Deliveries :
    pc[f] = "activating" => AllReady /\ window \in {"open", "revoked"}

SealedReady == window = "sealed" => AllReady

\* The output of a ready partition can be served until the window is revoked.
ReadyHasOutput ==
  \A f \in Deliveries :
    partition[f] = "ready" /\ window # "revoked" =>
      canonical[f] \in {"candidate", "active"}

\* No candidate of a current delivery is left in a sealed window.
SealedActive ==
  window = "sealed" =>
    \A f \in Deliveries : partition[f] = "ready" => canonical[f] = "active"

WindowInv == /\ TypeOK
             /\ LockExclusive
             /\ OneCurrent
             /\ RowsFollowPc
             /\ NoneIsEmpty
             /\ ReadStillHolds
             /\ CheckStillHolds
             /\ SealedReady
             /\ OpenServesNothing
             /\ ReadyHasOutput
             /\ SealedActive

----------------------------------------------------------------------------
LEMMA InitInv == Init => WindowInv
BY ConstantsAssumption
DEF Init, WindowInv, TypeOK, PcValues, LockExclusive, Holds, OneCurrent,
    Current, RowsFollowPc, NoneIsEmpty, ReadStillHolds, CheckStillHolds,
    SealedReady, OpenServesNothing, ReadyHasOutput, SealedActive

\* What register_partition reads as the current delivery of its partition.
LEMMA CurrentOfIsCurrent ==
  ASSUME TypeOK, NEW f \in Deliveries
  PROVE  /\ CurrentOf(f) = None =>
              \A g \in Deliveries :
                Current(g) => PartitionOf[g] # PartitionOf[f]
         /\ CurrentOf(f) # None =>
              /\ CurrentOf(f) \in Deliveries
              /\ Current(CurrentOf(f))
              /\ PartitionOf[CurrentOf(f)] = PartitionOf[f]
<1> DEFINE now == {g \in Deliveries :
                     Current(g) /\ PartitionOf[g] = PartitionOf[f]}
<1>1. CASE now = {}
  BY <1>1 DEF CurrentOf
<1>2. CASE now # {}
  <2>1. CurrentOf(f) = CHOOSE g \in now : TRUE
    BY <1>2 DEF CurrentOf
  <2>2. CurrentOf(f) \in now
    BY <1>2, <2>1
  <2> QED
    BY <2>2, ConstantsAssumption
<1> QED
  BY <1>1, <1>2

\* What only speaks of rows survives a step that writes none.
LEMMA RowsUntouched ==
  ASSUME WindowInv, UNCHANGED rows
  PROVE  OneCurrent' /\ NoneIsEmpty' /\ SealedReady' /\ OpenServesNothing'
         /\ ReadyHasOutput' /\ SealedActive'
BY DEF WindowInv, rows, OneCurrent, Current, NoneIsEmpty, SealedReady,
       AllReady, OpenServesNothing, ReadyHasOutput, SealedActive

LEMMA StepInv == WindowInv /\ [Next]_vars => WindowInv'
<1> SUFFICES ASSUME WindowInv, [Next]_vars PROVE WindowInv'
  OBVIOUS
<1> USE ConstantsAssumption DEF WindowInv, rows, control, Goto, NoFault
<1>1. ASSUME NEW f \in Deliveries, RegisterRead(f)
      PROVE  WindowInv'
  <2>1. TypeOK'
    BY <1>1, CurrentOfIsCurrent DEF RegisterRead, TypeOK, PcValues
  <2>2. LockExclusive'
    BY <1>1
    DEF RegisterRead, TypeOK, PcValues, LockExclusive, LockIsFree, Holds
  <2>3. RowsFollowPc'
    BY <1>1 DEF RegisterRead, TypeOK, PcValues, RowsFollowPc
  <2>4. ReadStillHolds'
    BY <1>1, CurrentOfIsCurrent
    DEF RegisterRead, TypeOK, PcValues, ReadStillHolds, MayRegister, Current
  <2>5. CheckStillHolds'
    BY <1>1
    DEF RegisterRead, TypeOK, PcValues, CheckStillHolds, AllReady,
        LockExclusive, LockIsFree, Holds
  <2>6. UNCHANGED rows
    BY <1>1 DEF RegisterRead
  <2> QED
    BY <2>1, <2>2, <2>3, <2>4, <2>5, <2>6, RowsUntouched
<1>2. ASSUME NEW f \in Deliveries, RegisterWrite(f)
      PROVE  WindowInv'
  <2>1. TypeOK'
    BY <1>2
    DEF RegisterWrite, CanonicalAfterCorrection, Reopens, RowIsLocked, TypeOK,
        PcValues
  <2>2. LockExclusive'
    BY <1>2
    DEF RegisterWrite, CanonicalAfterCorrection, Reopens, RowIsLocked, TypeOK,
        PcValues, LockExclusive, LockIsFree, Holds
  <2>3. OneCurrent'
    BY <1>2
    DEF RegisterWrite, CanonicalAfterCorrection, Reopens, RowIsLocked, TypeOK,
        PcValues, OneCurrent, Current, ReadStillHolds, RowsFollowPc
  <2>4. RowsFollowPc'
    BY <1>2
    DEF RegisterWrite, CanonicalAfterCorrection, Reopens, RowIsLocked, TypeOK,
        PcValues, RowsFollowPc, ReadStillHolds, Current
  <2>5. NoneIsEmpty'
    BY <1>2
    DEF RegisterWrite, CanonicalAfterCorrection, Reopens, RowIsLocked, TypeOK,
        PcValues, NoneIsEmpty, ReadStillHolds
  <2>6. ReadStillHolds'
    BY <1>2
    DEF RegisterWrite, CanonicalAfterCorrection, Reopens, RowIsLocked, TypeOK,
        PcValues, ReadStillHolds, LockExclusive, Holds, LockIsFree, Current
  <2>7. CheckStillHolds'
    BY <1>2
    DEF RegisterWrite, CanonicalAfterCorrection, Reopens, RowIsLocked, TypeOK,
        PcValues, CheckStillHolds, AllReady, LockExclusive, LockIsFree, Holds
  <2>8. SealedReady'
    BY <1>2
    DEF RegisterWrite, CanonicalAfterCorrection, Reopens, RowIsLocked, TypeOK,
        PcValues, SealedReady, AllReady, ReadStillHolds, Current
  <2>9. OpenServesNothing'
    BY <1>2
    DEF RegisterWrite, CanonicalAfterCorrection, Reopens, RowIsLocked, TypeOK,
        PcValues, OpenServesNothing, SealedReady, AllReady, ReadStillHolds,
        Current
  <2>10. ReadyHasOutput'
    BY <1>2
    DEF RegisterWrite, CanonicalAfterCorrection, Reopens, RowIsLocked, TypeOK,
        PcValues, ReadyHasOutput, RowsFollowPc, ReadStillHolds, Current
  <2>11. SealedActive'
    BY <1>2
    DEF RegisterWrite, CanonicalAfterCorrection, Reopens, RowIsLocked, TypeOK,
        PcValues, SealedActive, ReadyHasOutput
  <2> QED
    BY <2>1, <2>2, <2>3, <2>4, <2>5, <2>6, <2>7, <2>8, <2>9, <2>10, <2>11
<1>3. ASSUME NEW f \in Deliveries, ReadyRead(f)
      PROVE  WindowInv'
  <2>1. TypeOK'
    BY <1>3 DEF ReadyRead, TypeOK, PcValues
  <2>2. LockExclusive'
    BY <1>3 DEF ReadyRead, TypeOK, PcValues, LockExclusive, LockIsFree, Holds
  <2>3. RowsFollowPc'
    BY <1>3 DEF ReadyRead, TypeOK, PcValues, RowsFollowPc
  <2>4. ReadStillHolds'
    BY <1>3
    DEF ReadyRead, TypeOK, PcValues, ReadStillHolds, LockExclusive, Holds,
        LockIsFree, Current
  <2>5. CheckStillHolds'
    BY <1>3
    DEF ReadyRead, TypeOK, PcValues, CheckStillHolds, AllReady, LockExclusive,
        LockIsFree, Holds
  <2>6. UNCHANGED rows
    BY <1>3 DEF ReadyRead
  <2> QED
    BY <2>1, <2>2, <2>3, <2>4, <2>5, <2>6, RowsUntouched
<1>4. ASSUME NEW f \in Deliveries, ReadyWrite(f)
      PROVE  WindowInv'
  <2>1. TypeOK'
    BY <1>4 DEF ReadyWrite, TypeOK, PcValues
  <2>2. LockExclusive'
    BY <1>4 DEF ReadyWrite, TypeOK, PcValues, LockExclusive, LockIsFree, Holds
  <2>3. RowsFollowPc'
    BY <1>4 DEF ReadyWrite, TypeOK, PcValues, RowsFollowPc
  <2>4. ReadStillHolds'
    BY <1>4
    DEF ReadyWrite, TypeOK, PcValues, ReadStillHolds, LockExclusive, Holds,
        LockIsFree, Current
  <2>5. CheckStillHolds'
    BY <1>4
    DEF ReadyWrite, TypeOK, PcValues, CheckStillHolds, AllReady,
        LockExclusive, LockIsFree, Holds
  <2>6. UNCHANGED rows
    BY <1>4 DEF ReadyWrite
  <2> QED
    BY <2>1, <2>2, <2>3, <2>4, <2>5, <2>6, RowsUntouched
<1>5. ASSUME NEW f \in Deliveries, ReadyCommit(f)
      PROVE  WindowInv'
  <2>1. TypeOK'
    BY <1>5 DEF ReadyCommit, TypeOK, PcValues
  <2>2. LockExclusive'
    BY <1>5
    DEF ReadyCommit, TypeOK, PcValues, LockExclusive, LockIsFree, Holds
  <2>3. OneCurrent'
    BY <1>5
    DEF ReadyCommit, TypeOK, PcValues, OneCurrent, Current, ReadStillHolds,
        RowsFollowPc
  <2>4. RowsFollowPc'
    BY <1>5 DEF ReadyCommit, TypeOK, PcValues, RowsFollowPc
  <2>5. NoneIsEmpty'
    BY <1>5 DEF ReadyCommit, TypeOK, PcValues, NoneIsEmpty, RowsFollowPc
  <2>6. ReadStillHolds'
    BY <1>5
    DEF ReadyCommit, TypeOK, PcValues, ReadStillHolds, RowsFollowPc, Current
  <2>7. CheckStillHolds'
    BY <1>5
    DEF ReadyCommit, TypeOK, PcValues, CheckStillHolds, AllReady,
        LockExclusive, LockIsFree, Holds
  <2>8. SealedReady'
    BY <1>5
    DEF ReadyCommit, TypeOK, PcValues, SealedReady, CheckStillHolds, AllReady,
        ReadStillHolds
  <2>9. OpenServesNothing'
    BY <1>5 DEF ReadyCommit, TypeOK, PcValues, OpenServesNothing
  <2>10. ReadyHasOutput'
    BY <1>5 DEF ReadyCommit, TypeOK, PcValues, ReadyHasOutput
  <2>11. SealedActive'
    BY <1>5
    DEF ReadyCommit, TypeOK, PcValues, SealedActive, SealedReady, AllReady,
        OneCurrent, Current, RowsFollowPc
  <2> QED
    BY <2>1, <2>2, <2>3, <2>4, <2>5, <2>6, <2>7, <2>8, <2>9, <2>10, <2>11
<1>6. ASSUME NEW f \in Deliveries, SealRead(f)
      PROVE  WindowInv'
  <2>1. TypeOK'
    BY <1>6 DEF SealRead, TypeOK, PcValues
  <2>2. LockExclusive'
    BY <1>6 DEF SealRead, TypeOK, PcValues, LockExclusive, LockIsFree, Holds
  <2>3. RowsFollowPc'
    BY <1>6 DEF SealRead, TypeOK, PcValues, RowsFollowPc
  <2>4. ReadStillHolds'
    BY <1>6
    DEF SealRead, TypeOK, PcValues, ReadStillHolds, LockExclusive, Holds,
        LockIsFree, Current
  <2>5. CheckStillHolds'
    BY <1>6
    DEF SealRead, TypeOK, PcValues, CheckStillHolds, AllReady, LockExclusive,
        LockIsFree, Holds
  <2>6. UNCHANGED rows
    BY <1>6 DEF SealRead
  <2> QED
    BY <2>1, <2>2, <2>3, <2>4, <2>5, <2>6, RowsUntouched
<1>7. ASSUME NEW f \in Deliveries, SealWrite(f)
      PROVE  WindowInv'
  <2>1. TypeOK'
    BY <1>7 DEF SealWrite, TypeOK, PcValues
  <2>2. LockExclusive'
    BY <1>7 DEF SealWrite, TypeOK, PcValues, LockExclusive, LockIsFree, Holds
  <2>3. OneCurrent'
    BY <1>7
    DEF SealWrite, TypeOK, PcValues, OneCurrent, Current, ReadStillHolds,
        RowsFollowPc
  <2>4. RowsFollowPc'
    BY <1>7 DEF SealWrite, TypeOK, PcValues, RowsFollowPc
  <2>5. NoneIsEmpty'
    BY <1>7 DEF SealWrite, TypeOK, PcValues, NoneIsEmpty, ReadStillHolds
  <2>6. ReadStillHolds'
    BY <1>7
    DEF SealWrite, TypeOK, PcValues, ReadStillHolds, LockExclusive, Holds,
        LockIsFree, Current
  <2>7. CheckStillHolds'
    BY <1>7
    DEF SealWrite, TypeOK, PcValues, CheckStillHolds, AllReady, LockExclusive,
        LockIsFree, Holds
  <2>8. SealedReady'
    BY <1>7
    DEF SealWrite, TypeOK, PcValues, SealedReady, CheckStillHolds, AllReady,
        ReadStillHolds
  <2>9. OpenServesNothing'
    BY <1>7
    DEF SealWrite, TypeOK, PcValues, OpenServesNothing, CheckStillHolds
  <2>10. ReadyHasOutput'
    BY <1>7 DEF SealWrite, TypeOK, PcValues, ReadyHasOutput
  <2>11. SealedActive'
    BY <1>7 DEF SealWrite, TypeOK, PcValues, SealedActive, ReadyHasOutput
  <2> QED
    BY <2>1, <2>2, <2>3, <2>4, <2>5, <2>6, <2>7, <2>8, <2>9, <2>10, <2>11
<1>8. ASSUME NEW f \in Deliveries, JobFails(f)
      PROVE  WindowInv'
  BY <1>8
  DEF JobFails, TypeOK, PcValues, LockExclusive, Holds, OneCurrent, Current,
      RowsFollowPc, NoneIsEmpty, ReadStillHolds, CheckStillHolds, AllReady,
      SealedReady, OpenServesNothing, ReadyHasOutput, SealedActive
<1>9. ASSUME NEW f \in Deliveries, InvocationDies(f)
      PROVE  WindowInv'
  <2>1. TypeOK'
    BY <1>9 DEF InvocationDies, TypeOK, PcValues
  <2>2. LockExclusive'
    BY <1>9
    DEF InvocationDies, TypeOK, PcValues, LockExclusive, LockIsFree, Holds
  <2>3. RowsFollowPc'
    BY <1>9 DEF InvocationDies, TypeOK, PcValues, RowsFollowPc
  <2>4. ReadStillHolds'
    BY <1>9
    DEF InvocationDies, TypeOK, PcValues, ReadStillHolds, LockExclusive,
        Holds, LockIsFree, Current
  <2>5. CheckStillHolds'
    BY <1>9
    DEF InvocationDies, TypeOK, PcValues, CheckStillHolds, AllReady,
        LockExclusive, LockIsFree, Holds
  <2>6. UNCHANGED rows
    BY <1>9 DEF InvocationDies
  <2> QED
    BY <2>1, <2>2, <2>3, <2>4, <2>5, <2>6, RowsUntouched
<1>10. ASSUME NEW q \in Requests, Revoke(q)
      PROVE  WindowInv'
  <2>1. TypeOK'
    BY <1>10 DEF Revoke, TypeOK, PcValues
  <2>2. LockExclusive'
    BY <1>10 DEF Revoke, TypeOK, PcValues, LockExclusive, LockIsFree, Holds
  <2>3. OneCurrent'
    BY <1>10
    DEF Revoke, TypeOK, PcValues, OneCurrent, Current, ReadStillHolds,
        RowsFollowPc
  <2>4. RowsFollowPc'
    BY <1>10 DEF Revoke, TypeOK, PcValues, RowsFollowPc
  <2>5. NoneIsEmpty'
    BY <1>10 DEF Revoke, TypeOK, PcValues, NoneIsEmpty, ReadStillHolds
  <2>6. ReadStillHolds'
    BY <1>10
    DEF Revoke, TypeOK, PcValues, ReadStillHolds, LockExclusive, Holds,
        LockIsFree, Current
  <2>7. CheckStillHolds'
    BY <1>10
    DEF Revoke, TypeOK, PcValues, CheckStillHolds, AllReady, LockExclusive,
        LockIsFree, Holds
  <2>8. SealedReady'
    BY <1>10
    DEF Revoke, TypeOK, PcValues, SealedReady, CheckStillHolds, AllReady,
        ReadStillHolds
  <2>9. OpenServesNothing'
    BY <1>10 DEF Revoke, TypeOK, PcValues, OpenServesNothing
  <2>10. ReadyHasOutput'
    BY <1>10 DEF Revoke, TypeOK, PcValues, ReadyHasOutput
  <2>11. SealedActive'
    BY <1>10 DEF Revoke, TypeOK, PcValues, SealedActive, ReadyHasOutput
  <2> QED
    BY <2>1, <2>2, <2>3, <2>4, <2>5, <2>6, <2>7, <2>8, <2>9, <2>10, <2>11
<1>11. ASSUME NEW q \in Requests, MarkApplied(q)
      PROVE  WindowInv'
  BY <1>11
  DEF MarkApplied, TypeOK, PcValues, LockExclusive, Holds, OneCurrent,
      Current, RowsFollowPc, NoneIsEmpty, ReadStillHolds, CheckStillHolds,
      AllReady, SealedReady, OpenServesNothing, ReadyHasOutput, SealedActive
<1>12. ASSUME NEW q \in Requests, ApplyDies(q)
      PROVE  WindowInv'
  BY <1>12
  DEF ApplyDies, TypeOK, PcValues, LockExclusive, Holds, OneCurrent, Current,
      RowsFollowPc, NoneIsEmpty, ReadStillHolds, CheckStillHolds, AllReady,
      SealedReady, OpenServesNothing, ReadyHasOutput, SealedActive
<1>13. CASE UNCHANGED vars
  BY <1>13
  DEF vars, TypeOK, LockExclusive, Holds, OneCurrent, Current, RowsFollowPc,
      NoneIsEmpty, ReadStillHolds, CheckStillHolds, AllReady, SealedReady,
      OpenServesNothing, ReadyHasOutput, SealedActive
<1> QED
  BY <1>1, <1>2, <1>3, <1>4, <1>5, <1>6, <1>7, <1>8, <1>9, <1>10, <1>11,
     <1>12, <1>13
  DEF Next, Prepare, Finalize

LEMMA Invariant == Spec => []WindowInv
BY InitInv, StepInv, PTL DEF Spec

----------------------------------------------------------------------------
\* Every variable keeps its type, for any deliveries, partitions and requests.
THEOREM TypeCorrect == Spec => []TypeOK
<1>1. WindowInv => TypeOK
  BY DEF WindowInv
<1> QED
  BY <1>1, Invariant, PTL

\* A sealed window is complete and no partition ever has two current
\* deliveries: what the advisory lock of register_partition and seal_window is
\* for, though mark_partition_ready does not take it.
THEOREM SealedWindowsAreComplete == Spec => []SealedIsComplete
<1>1. WindowInv => SealedIsComplete
  BY ConstantsAssumption
  DEF WindowInv, SealedReady, OneCurrent, SealedIsComplete, AllReady, Current
<1> QED
  BY <1>1, Invariant, PTL

\* Nothing of an open window is served, also while it is corrected.
THEOREM OpenWindowsServeNothing == Spec => []OpenServesNothing
<1>1. WindowInv => OpenServesNothing
  BY DEF WindowInv
<1> QED
  BY <1>1, Invariant, PTL

\* A sealed window serves the output of every current delivery.
THEOREM SealedWindowsServe == Spec => []SealedServesCurrent
<1>1. WindowInv => SealedServesCurrent
  BY ConstantsAssumption
  DEF WindowInv, TypeOK, SealedReady, SealedActive, OneCurrent, AllReady,
      Current, SealedServesCurrent
<1> QED
  BY <1>1, Invariant, PTL

\* No step brings a revoked window or a revoked output back.
LEMMA RevokedStep ==
  WindowInv /\ [Next]_vars =>
    [/\ window = "revoked" => window' = "revoked"
     /\ \A f \in Deliveries :
          canonical[f] = "revoked" => canonical'[f] = "revoked"]_vars
<1> SUFFICES ASSUME WindowInv, Next
             PROVE  /\ window = "revoked" => window' = "revoked"
                    /\ \A g \in Deliveries :
                         canonical[g] = "revoked" => canonical'[g] = "revoked"
  OBVIOUS
<1> USE DEF WindowInv, rows, TypeOK
<1>1. ASSUME NEW f \in Deliveries, RegisterWrite(f)
      PROVE  /\ window = "revoked" => window' = "revoked"
             /\ \A g \in Deliveries :
                  canonical[g] = "revoked" => canonical'[g] = "revoked"
  BY <1>1 DEF RegisterWrite, CanonicalAfterCorrection, Reopens, ReadStillHolds
<1>2. ASSUME NEW f \in Deliveries, ReadyCommit(f)
      PROVE  /\ window = "revoked" => window' = "revoked"
             /\ \A g \in Deliveries :
                  canonical[g] = "revoked" => canonical'[g] = "revoked"
  BY <1>2 DEF ReadyCommit, RowsFollowPc
<1>3. ASSUME NEW f \in Deliveries, SealWrite(f)
      PROVE  /\ window = "revoked" => window' = "revoked"
             /\ \A g \in Deliveries :
                  canonical[g] = "revoked" => canonical'[g] = "revoked"
  BY <1>3 DEF SealWrite
<1>4. ASSUME NEW q \in Requests, Revoke(q)
      PROVE  /\ window = "revoked" => window' = "revoked"
             /\ \A g \in Deliveries :
                  canonical[g] = "revoked" => canonical'[g] = "revoked"
  BY <1>4 DEF Revoke
<1>5. ASSUME NEW f \in Deliveries,
             \/ RegisterRead(f) \/ ReadyRead(f) \/ ReadyWrite(f)
             \/ SealRead(f) \/ JobFails(f) \/ InvocationDies(f)
      PROVE  UNCHANGED <<window, canonical>>
  BY <1>5
  DEF RegisterRead, ReadyRead, ReadyWrite, SealRead, JobFails, InvocationDies
<1>6. ASSUME NEW q \in Requests, MarkApplied(q) \/ ApplyDies(q)
      PROVE  UNCHANGED <<window, canonical>>
  BY <1>6 DEF MarkApplied, ApplyDies
<1> QED
  BY <1>1, <1>2, <1>3, <1>4, <1>5, <1>6 DEF Next, Prepare, Finalize

\* A revoked window and a revoked output stay revoked.
THEOREM RevocationsAreFinal == Spec => RevocationIsFinal
<1>1. WindowInv /\ [Next]_vars =>
        [/\ window = "revoked" => window' = "revoked"
         /\ \A f \in Deliveries :
              canonical[f] = "revoked" => canonical'[f] = "revoked"]_vars
  BY RevokedStep
<1> QED
  BY <1>1, Invariant, PTL DEF Spec, RevocationIsFinal
=============================================================================
