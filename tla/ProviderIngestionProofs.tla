----------------------- MODULE ProviderIngestionProofs -----------------------
(***************************************************************************)
(* Proofs about ProviderIngestion, for any workers, objects, messages and  *)
(* bounds.                                                                 *)
(***************************************************************************)
EXTENDS ProviderIngestion, TLAPS

\* The type of the worker variables alone: most gateway steps change only it.
WorkerTypeOK ==
  /\ pc \in [Workers -> PcValues]
  /\ held \in [Workers -> Messages \cup {None}]
  /\ handle \in [Workers -> Nat]
  /\ target \in [Workers -> Statuses \cup {"none"}]
  /\ after \in [Workers -> PcValues]
  /\ action \in [Workers -> {"none", "ack", "retry", "dead_letter"}]

\* A worker that is on a message holds one, and one that is in a transition()
\* call has a status to write and a place to go on at.
Busy(w) == pc[w] \notin {"idle", "polling"}

WorkersCoherent ==
  \A w \in Workers :
    /\ Busy(w) <=> held[w] # None
    /\ pc[w] \in {"selecting", "updating"} =>
         target[w] \in Statuses /\ after[w] \in {"loading", "privacy", "settling"}

LEMMA ObjectAtTyped ==
  ASSUME TypeOK, WorkersCoherent, NEW w \in Workers, Busy(w)
  PROVE  held[w] \in Messages /\ ObjectAt(w) \in Objects
BY ConstantsAssumption DEF TypeOK, WorkersCoherent, ObjectAt

----------------------------------------------------------------------------
\* Type correctness.

Inv1 == TypeOK /\ WorkersCoherent

LEMMA InitInv1 == Init => Inv1
<1> SUFFICES ASSUME Init PROVE Inv1
  OBVIOUS
<1>1. TypeOK
  BY ConstantsAssumption
  DEF Init, TypeOK, Places, PcValues, ReplayStages, Messages
<1>2. WorkersCoherent
  BY DEF Init, WorkersCoherent, Busy
<1> QED
  BY <1>1, <1>2 DEF Inv1

\* What a step of each worker does to its own variables keeps them coherent.
LEMMA MoveCoherent ==
  ASSUME Inv1, NEW w \in Workers,
         \/ /\ Busy(w)
            /\ \E label \in PcValues \ {"idle", "polling", "selecting", "updating"} :
                 Goto(w, label)
         \/ pc[w] = "selecting" /\ Goto(w, "updating")
         \/ pc[w] = "idle" /\ Goto(w, "polling")
         \/ pc[w] = "polling" /\ Goto(w, "idle")
         \/ /\ Busy(w)
            /\ \E to \in Statuses, then \in {"loading", "privacy", "settling"} :
                 Transition(w, to, then)
         \/ /\ Busy(w)
            /\ \E decision \in {"ack", "retry", "dead_letter"} :
                 SettleWith(w, decision)
         \/ Finish(w)
  PROVE  WorkerTypeOK' /\ WorkersCoherent'
<1> USE DEF Inv1, TypeOK, WorkerTypeOK, WorkersCoherent, Busy
<1>1. CASE /\ Busy(w)
           /\ \E label \in PcValues \ {"idle", "polling", "selecting", "updating"} :
                Goto(w, label)
  BY <1>1 DEF Goto
<1>2. CASE pc[w] = "selecting" /\ Goto(w, "updating")
  BY <1>2 DEF Goto, PcValues
<1>3. CASE pc[w] = "idle" /\ Goto(w, "polling")
  BY <1>3 DEF Goto, PcValues
<1>4. CASE pc[w] = "polling" /\ Goto(w, "idle")
  BY <1>4 DEF Goto, PcValues
<1>5. CASE /\ Busy(w)
           /\ \E to \in Statuses, then \in {"loading", "privacy", "settling"} :
                 Transition(w, to, then)
  BY <1>5 DEF Transition, PcValues
<1>6. CASE /\ Busy(w)
           /\ \E decision \in {"ack", "retry", "dead_letter"} :
                SettleWith(w, decision)
  BY <1>6 DEF SettleWith, PcValues
<1>7. CASE Finish(w)
  BY <1>7, ConstantsAssumption DEF Finish, PcValues
<1> QED
  BY <1>1, <1>2, <1>3, <1>4, <1>5, <1>6, <1>7

LEMMA StepInv1 == Inv1 /\ [Next]_vars => Inv1'
<1> SUFFICES ASSUME Inv1, [Next]_vars PROVE Inv1'
  OBVIOUS
<1> USE ConstantsAssumption DEF Inv1, Messages
<1> DEFINE Objs == /\ status' \in [Objects -> Statuses \cup {"absent"}]
                   /\ stale' \in [Objects -> BOOLEAN]
                   /\ canonical' \in [Objects -> BOOLEAN]
                   /\ author' \in [Objects -> Messages \cup {None}]
           Msgs == /\ place' \in [Messages -> Places]
                   /\ receives' \in [Messages -> Nat]
                   /\ deadLetters' \in [Messages -> Nat]
           Rest == /\ replay' \in [Replays -> ReplayStages]
                   /\ faults' \in 0 .. MaxFaults
                   /\ delays' \in 0 .. MaxDelays
           Work == WorkerTypeOK' /\ WorkersCoherent'
<1>0. SUFFICES Objs /\ Msgs /\ Rest /\ Work
  BY DEF TypeOK, WorkerTypeOK
<1>a. ASSUME UNCHANGED objects PROVE Objs
  BY <1>a DEF objects, TypeOK
<1>b. ASSUME UNCHANGED queue PROVE Msgs
  BY <1>b DEF queue, TypeOK
<1>c. ASSUME UNCHANGED replay, NoFault PROVE Rest
  BY <1>c DEF NoFault, TypeOK
<1>d. ASSUME UNCHANGED replay, Fault, UNCHANGED delays PROVE Rest
  BY <1>d DEF Fault, TypeOK
<1>e. ASSUME UNCHANGED worker PROVE Work
  BY <1>e DEF worker, TypeOK, WorkerTypeOK, WorkersCoherent, Busy
<1>f. ASSUME NEW o \in Objects, NEW s \in Statuses, WriteRow(o, s)
      PROVE  /\ status' \in [Objects -> Statuses \cup {"absent"}]
             /\ stale' \in [Objects -> BOOLEAN]
  BY <1>f DEF WriteRow, TypeOK
<1>1. ASSUME NEW w \in Workers, RecoverStaleInProgress(w) PROVE Objs /\ Msgs /\ Rest /\ Work
  <2>1. Objs
    BY <1>1 DEF RecoverStaleInProgress, TypeOK, RecoveredStatus, Statuses
  <2>2. Work
    BY <1>1, MoveCoherent DEF RecoverStaleInProgress
  <2> QED
    BY <1>1, <1>b, <1>c, <2>1, <2>2 DEF RecoverStaleInProgress
<1>2. ASSUME NEW w \in Workers, ReceiveMessage(w) PROVE Objs /\ Msgs /\ Rest /\ Work
  <2>1. Msgs
    BY <1>2 DEF ReceiveMessage, TypeOK, Places
  <2>2. Work
    BY <1>2 DEF ReceiveMessage, TypeOK, WorkerTypeOK, WorkersCoherent, Busy,
                PcValues
  <2> QED
    BY <1>2, <1>a, <1>c, <2>1, <2>2 DEF ReceiveMessage
<1>3. ASSUME NEW w \in Workers, ReceiveNothing(w) PROVE Objs /\ Msgs /\ Rest /\ Work
  BY <1>3, <1>a, <1>b, <1>c, MoveCoherent DEF ReceiveNothing
<1>4. ASSUME NEW w \in Workers, ResolveMessage(w) PROVE Objs /\ Msgs /\ Rest /\ Work
  <2>1. Work
    BY <1>4, MoveCoherent DEF ResolveMessage, Busy, PcValues
  <2> QED
    BY <1>4, <1>a, <1>b, <1>c, <1>d, <2>1 DEF ResolveMessage, NoFault
<1>5. ASSUME NEW w \in Workers, ClaimNewObject(w) PROVE Objs /\ Msgs /\ Rest /\ Work
  <2>1. Objs
    BY <1>5, <1>f, ObjectAtTyped DEF ClaimNewObject, TypeOK, Busy, Statuses
  <2>2. Work
    BY <1>5, MoveCoherent DEF ClaimNewObject, Busy, Statuses
  <2> QED
    BY <1>5, <1>b, <1>c, <2>1, <2>2 DEF ClaimNewObject
<1>6. ASSUME NEW w \in Workers, ClaimDuplicate(w) PROVE Objs /\ Msgs /\ Rest /\ Work
  <2>1. Work
    BY <1>6, MoveCoherent DEF ClaimDuplicate, Busy, Statuses, QueueActionFor
  <2> QED
    BY <1>6, <1>a, <1>b, <1>c, <2>1 DEF ClaimDuplicate
<1>7. ASSUME NEW w \in Workers, SelectRow(w) PROVE Objs /\ Msgs /\ Rest /\ Work
  <2>1. Work
    BY <1>7, MoveCoherent DEF SelectRow, Busy
  <2> QED
    BY <1>7, <1>a, <1>b, <1>c, <2>1 DEF SelectRow
<1>8. ASSUME NEW w \in Workers, UpdateRow(w) PROVE Objs /\ Msgs /\ Rest /\ Work
  <2>1. Objs
    BY <1>8, <1>f, ObjectAtTyped
    DEF UpdateRow, TypeOK, Busy, WorkersCoherent
  <2>2. Work
    BY <1>8, MoveCoherent
    DEF UpdateRow, Busy, WorkersCoherent, QueueActionFor, PcValues
  <2> QED
    BY <1>8, <1>b, <1>c, <2>1, <2>2 DEF UpdateRow
<1>9. ASSUME NEW w \in Workers, LoadObject(w) PROVE Objs /\ Msgs /\ Rest /\ Work
  <2>1. Work
    BY <1>9, MoveCoherent DEF LoadObject, Busy, Statuses
  <2> QED
    BY <1>9, <1>a, <1>b, <1>c, <2>1 DEF LoadObject
<1>10. ASSUME NEW w \in Workers, RunPrivacyPipeline(w) PROVE Objs /\ Msgs /\ Rest /\ Work
  <2>1. Work
    BY <1>10, MoveCoherent DEF RunPrivacyPipeline, Busy, Statuses, PcValues
  <2> QED
    BY <1>10, <1>a, <1>b, <1>c, <2>1 DEF RunPrivacyPipeline
<1>11. ASSUME NEW w \in Workers, WriteCanonical(w) PROVE Objs /\ Msgs /\ Rest /\ Work
  <2>1. Work
    BY <1>11, MoveCoherent DEF WriteCanonical, Busy, Statuses
  <2>2. canonical[ObjectAt(w)] \in BOOLEAN
    BY <1>11, ObjectAtTyped DEF TypeOK, WriteCanonical, Busy
  <2>3. Objs
    BY <1>11, <2>2 DEF WriteCanonical, TypeOK
  <2> QED
    BY <1>11, <1>b, <1>c, <2>1, <2>3 DEF WriteCanonical
<1>12. ASSUME NEW w \in Workers, Acknowledge(w) PROVE Objs /\ Msgs /\ Rest /\ Work
  <2>1. Msgs
    BY <1>12 DEF Acknowledge, Deleted, TypeOK, Places
  <2> QED
    BY <1>12, <1>a, <1>c, <2>1, MoveCoherent DEF Acknowledge
<1>13. ASSUME NEW w \in Workers, ScheduleRetry(w) PROVE Objs /\ Msgs /\ Rest /\ Work
  BY <1>13, <1>a, <1>b, <1>c, MoveCoherent DEF ScheduleRetry
<1>14. ASSUME NEW w \in Workers, SendToDlq(w) PROVE Objs /\ Msgs /\ Rest /\ Work
  <2>1. Msgs
    BY <1>14, ObjectAtTyped DEF SendToDlq, TypeOK, Busy
  <2>2. Work
    BY <1>14, MoveCoherent DEF SendToDlq, Busy, PcValues
  <2> QED
    BY <1>14, <1>a, <1>c, <2>1, <2>2 DEF SendToDlq
<1>15. ASSUME NEW w \in Workers, DeleteDeadLettered(w) PROVE Objs /\ Msgs /\ Rest /\ Work
  <2>1. Msgs
    BY <1>15 DEF DeleteDeadLettered, Deleted, TypeOK, Places
  <2> QED
    BY <1>15, <1>a, <1>c, <2>1, MoveCoherent DEF DeleteDeadLettered
<1>16. ASSUME NEW w \in Workers, DatabaseUnavailable(w) PROVE Objs /\ Msgs /\ Rest /\ Work
  <2>1. Work
    BY <1>16, MoveCoherent DEF DatabaseUnavailable, Busy
  <2> QED
    BY <1>16, <1>a, <1>b, <1>d, <2>1 DEF DatabaseUnavailable
<1>17. ASSUME NEW w \in Workers, AbandonMessage(w) PROVE Objs /\ Msgs /\ Rest /\ Work
  BY <1>17, <1>a, <1>b, <1>d, MoveCoherent DEF AbandonMessage
<1>18. ASSUME NEW m \in Messages, VisibilityTimeout(m) PROVE Objs /\ Msgs /\ Rest /\ Work
  <2>1. Msgs /\ Rest
    BY <1>18 DEF VisibilityTimeout, Delayed, TypeOK, Places
  <2> QED
    BY <1>18, <1>a, <1>e, <2>1 DEF VisibilityTimeout
<1>19. ASSUME NEW o \in Objects, RowAges(o) PROVE Objs /\ Msgs /\ Rest /\ Work
  <2>1. Objs /\ Rest
    BY <1>19 DEF RowAges, Delayed, TypeOK
  <2> QED
    BY <1>19, <1>b, <1>e, <2>1 DEF RowAges
<1>20. ASSUME NEW r \in Replays, ReplayStep(r) PROVE Objs /\ Msgs /\ Rest /\ Work
  <2> USE DEF TypeOK
  <2>1. CASE ReplayRead(r)
    BY <2>1, <1>a, <1>b, <1>e DEF ReplayRead, ReplayStages, NoFault
  <2>2. CASE ReplayPrepared(r)
    <3>1. Objs
      BY <2>2, <1>f DEF ReplayPrepared, Statuses
    <3> QED
      BY <2>2, <3>1, <1>b, <1>e DEF ReplayPrepared, ReplayStages, NoFault
  <2>3. CASE ReplaySend(r)
    BY <2>3, <1>a, <1>e DEF ReplaySend, ReplayStages, NoFault, Places
  <2>4. CASE MarkReplayEnqueued(r)
    BY <2>4, <1>a, <1>b, <1>e DEF MarkReplayEnqueued, ReplayStages, NoFault
  <2> QED
    BY <1>20, <2>1, <2>2, <2>3, <2>4 DEF ReplayStep
<1>21. CASE UNCHANGED vars
  BY <1>21, <1>a, <1>b, <1>c, <1>e DEF vars, NoFault
<1> QED
  BY <1>1, <1>2, <1>3, <1>4, <1>5, <1>6, <1>7, <1>8, <1>9, <1>10, <1>11,
     <1>12, <1>13, <1>14, <1>15, <1>16, <1>17, <1>18, <1>19, <1>20, <1>21
  DEF Next, WorkerStep, WorkerFault, Poll, Gateway, Settle

\* Every variable stays in its type, and every worker in a coherent state.
THEOREM TypeCorrect == Spec => []TypeOK
<1>1. Spec => []Inv1
  BY InitInv1, StepInv1, PTL DEF Spec
<1> QED
  BY <1>1, PTL DEF Inv1

----------------------------------------------------------------------------
\* A completed row has its output: the canonical object is there from the
\* moment a worker sets out to write "completed", and nothing removes it.

CompletionBacked ==
  \A w \in Workers :
    pc[w] \in {"selecting", "updating"} /\ target[w] = "completed"
      => canonical[ObjectAt(w)]

Inv2 == Inv1 /\ CompletedHasOutput /\ CompletionBacked

LEMMA StepInv2 == Inv2 /\ [Next]_vars => Inv2'
<1> SUFFICES ASSUME Inv2, [Next]_vars
    PROVE  CompletedHasOutput' /\ CompletionBacked'
  BY StepInv1 DEF Inv2
<1> USE DEF Inv2, Inv1, TypeOK, WorkersCoherent, Busy, CompletedHasOutput,
            CompletionBacked, ObjectAt
<1>1. ASSUME NEW w \in Workers, RecoverStaleInProgress(w)
      PROVE  CompletedHasOutput' /\ CompletionBacked'
  BY <1>1 DEF RecoverStaleInProgress, RecoveredStatus, Goto
<1>2. ASSUME NEW w \in Workers, ReceiveMessage(w)
      PROVE  CompletedHasOutput' /\ CompletionBacked'
  BY <1>2 DEF ReceiveMessage, objects
<1>3. ASSUME NEW w \in Workers, ReceiveNothing(w)
      PROVE  CompletedHasOutput' /\ CompletionBacked'
  BY <1>3 DEF ReceiveNothing, objects, Goto
<1>4. ASSUME NEW w \in Workers, ResolveMessage(w)
      PROVE  CompletedHasOutput' /\ CompletionBacked'
  BY <1>4 DEF ResolveMessage, objects, Goto, SettleWith
<1>5. ASSUME NEW w \in Workers, ClaimNewObject(w)
      PROVE  CompletedHasOutput' /\ CompletionBacked'
  BY <1>5 DEF ClaimNewObject, WriteRow, Transition
<1>6. ASSUME NEW w \in Workers, ClaimDuplicate(w)
      PROVE  CompletedHasOutput' /\ CompletionBacked'
  BY <1>6 DEF ClaimDuplicate, objects, Transition, SettleWith
<1>7. ASSUME NEW w \in Workers, SelectRow(w)
      PROVE  CompletedHasOutput' /\ CompletionBacked'
  BY <1>7 DEF SelectRow, objects, Goto, SettleWith
<1>8. ASSUME NEW w \in Workers, UpdateRow(w)
      PROVE  CompletedHasOutput' /\ CompletionBacked'
  <2>1. CompletedHasOutput'
    BY <1>8 DEF UpdateRow, WriteRow
  <2>2. CompletionBacked'
    BY <1>8 DEF UpdateRow, Goto, SettleWith
  <2> QED
    BY <2>1, <2>2
<1>9. ASSUME NEW w \in Workers, LoadObject(w)
      PROVE  CompletedHasOutput' /\ CompletionBacked'
  BY <1>9 DEF LoadObject, objects, Transition
<1>10. ASSUME NEW w \in Workers, RunPrivacyPipeline(w)
       PROVE  CompletedHasOutput' /\ CompletionBacked'
  BY <1>10 DEF RunPrivacyPipeline, objects, Transition, Goto
<1>11. ASSUME NEW w \in Workers, WriteCanonical(w)
       PROVE  CompletedHasOutput' /\ CompletionBacked'
  <2>1. ObjectAt(w) \in Objects
    BY <1>11, ObjectAtTyped DEF WriteCanonical
  <2>2. \A o \in Objects : canonical[o] => canonical'[o]
    BY <1>11, <2>1 DEF WriteCanonical
  <2>3. CompletedHasOutput'
    BY <1>11, <2>2 DEF WriteCanonical
  <2>4. target'[w] = "completed" => canonical'[ObjectAt(w)]
    BY <1>11, <2>1 DEF WriteCanonical, Transition
  <2>5. CompletionBacked'
    <3> SUFFICES ASSUME NEW v \in Workers,
                        pc'[v] \in {"selecting", "updating"},
                        target'[v] = "completed"
                 PROVE  canonical'[ObjectAt(v)']
      OBVIOUS
    <3>1. ObjectAt(v)' = ObjectAt(v)
      BY <1>11 DEF WriteCanonical, Transition
    <3>2. CASE v = w
      BY <3>1, <3>2, <2>4
    <3>3. CASE v # w
      <4>1. canonical[ObjectAt(v)] /\ Busy(v)
        BY <1>11, <3>3 DEF WriteCanonical, Transition
      <4> QED
        BY <4>1, <2>2, <3>1, ObjectAtTyped
    <3> QED
      BY <3>2, <3>3
  <2> QED
    BY <2>3, <2>5
<1>12. ASSUME NEW w \in Workers,
              \/ Acknowledge(w) \/ ScheduleRetry(w)
              \/ DeleteDeadLettered(w) \/ AbandonMessage(w)
       PROVE  CompletedHasOutput' /\ CompletionBacked'
  BY <1>12 DEF Acknowledge, ScheduleRetry, DeleteDeadLettered, AbandonMessage,
               objects, Finish
<1>13. ASSUME NEW w \in Workers, SendToDlq(w)
       PROVE  CompletedHasOutput' /\ CompletionBacked'
  BY <1>13 DEF SendToDlq, objects, Goto
<1>14. ASSUME NEW w \in Workers, DatabaseUnavailable(w)
       PROVE  CompletedHasOutput' /\ CompletionBacked'
  BY <1>14 DEF DatabaseUnavailable, objects, SettleWith
<1>15. ASSUME NEW m \in Messages, VisibilityTimeout(m)
       PROVE  CompletedHasOutput' /\ CompletionBacked'
  BY <1>15 DEF VisibilityTimeout, objects, worker
<1>16. ASSUME NEW o \in Objects, RowAges(o)
       PROVE  CompletedHasOutput' /\ CompletionBacked'
  BY <1>16 DEF RowAges, worker
<1>17. ASSUME NEW r \in Replays, ReplayStep(r)
       PROVE  CompletedHasOutput' /\ CompletionBacked'
  BY <1>17 DEF ReplayStep, ReplayRead, ReplayPrepared, ReplaySend,
               MarkReplayEnqueued, WriteRow, objects, worker
<1>18. CASE UNCHANGED vars
  BY <1>18 DEF vars, objects, worker
<1> QED
  BY <1>1, <1>2, <1>3, <1>4, <1>5, <1>6, <1>7, <1>8, <1>9, <1>10, <1>11,
     <1>12, <1>13, <1>14, <1>15, <1>16, <1>17, <1>18
  DEF Next, WorkerStep, WorkerFault, Poll, Gateway, Settle

\* A completed row has its canonical output, however many workers, retries,
\* crashes and replays were at work on the object.
THEOREM CompletedRowsHaveOutput == Spec => []CompletedHasOutput
<1>1. Init => Inv2
  BY InitInv1 DEF Init, Inv2, CompletedHasOutput, CompletionBacked
<1>2. Spec => []Inv2
  BY <1>1, StepInv2, PTL DEF Spec
<1> QED
  BY <1>2, PTL DEF Inv2

----------------------------------------------------------------------------
\* No object is left behind.  The witness is the message whose handling wrote
\* the row last (author): while the row is not final that message is pursued,
\* because a worker acknowledges a message only for a final status that it read
\* or wrote itself, and then a row that is no longer final has another author.

\* Without a premature timeout a message is in the hands of one worker, who
\* got it out of the queue.
OneHolder ==
  /\ \A w \in Workers : Busy(w) => place[held[w]] = "inflight"
  /\ \A v, w \in Workers : v # w /\ Busy(v) /\ Busy(w) => held[v] # held[w]

AuthorPursued ==
  \A o \in Objects :
    Claimed(o) /\ ~Final(status[o]) =>
      /\ author[o] \in Messages
      /\ ObjectOf[author[o]] = o
      /\ Pursued(author[o])

AckOnlyFinal ==
  \A w \in Workers :
    pc[w] = "settling" /\ action[w] = "ack" /\ author[ObjectAt(w)] = held[w]
      => Final(status[ObjectAt(w)])

DeadLetteredFirst ==
  \A w \in Workers : pc[w] = "deleting" => deadLetters[held[w]] > 0

UnsentUntilPrepared ==
  \A r \in Replays :
    replay[r] \in {"none", "resetting", "verifying", "pending"}
      => place[r] = "unsent"

HeldWasSent == \A w \in Workers : Busy(w) => place[held[w]] # "unsent"

Inv3 == /\ Inv1
        /\ DeadLetteredFirst
        /\ UnsentUntilPrepared
        /\ HeldWasSent
        /\ delays = 0 => OneHolder /\ AuthorPursued /\ AckOnlyFinal

LEMMA StepDeadLettered == Inv1 /\ DeadLetteredFirst /\ [Next]_vars => DeadLetteredFirst'
<1> SUFFICES ASSUME Inv1, DeadLetteredFirst, [Next]_vars PROVE DeadLetteredFirst'
  OBVIOUS
<1> USE DEF Inv1, TypeOK, DeadLetteredFirst
<1>1. ASSUME NEW w \in Workers, Poll(w) PROVE DeadLetteredFirst'
  BY <1>1 DEF Poll, RecoverStaleInProgress, ReceiveMessage, ReceiveNothing,
              Goto, queue
<1>2. ASSUME NEW w \in Workers, ResolveMessage(w) \/ WorkerFault(w)
      PROVE  DeadLetteredFirst'
  BY <1>2 DEF ResolveMessage, WorkerFault, DatabaseUnavailable, AbandonMessage,
              Goto, SettleWith, Finish, queue
<1>3. ASSUME NEW w \in Workers, Gateway(w) PROVE DeadLetteredFirst'
  BY <1>3 DEF Gateway, ClaimNewObject, ClaimDuplicate, SelectRow, UpdateRow,
              LoadObject, RunPrivacyPipeline, WriteCanonical, Goto, SettleWith,
              Transition, queue, WorkersCoherent
<1>4. ASSUME NEW w \in Workers, SendToDlq(w) PROVE DeadLetteredFirst'
  <2>1. held[w] \in Messages
    BY <1>4, ObjectAtTyped DEF SendToDlq, Busy
  <2> QED
    BY <1>4, <2>1 DEF SendToDlq, Goto
<1>5. ASSUME NEW w \in Workers,
             Acknowledge(w) \/ ScheduleRetry(w) \/ DeleteDeadLettered(w)
      PROVE  DeadLetteredFirst'
  BY <1>5 DEF Acknowledge, ScheduleRetry, DeleteDeadLettered, Finish, queue
<1>6. ASSUME NEW m \in Messages, VisibilityTimeout(m) PROVE DeadLetteredFirst'
  BY <1>6 DEF VisibilityTimeout, worker
<1>7. ASSUME NEW o \in Objects, RowAges(o) PROVE DeadLetteredFirst'
  BY <1>7 DEF RowAges, worker, queue
<1>8. ASSUME NEW r \in Replays, ReplayStep(r) PROVE DeadLetteredFirst'
  BY <1>8 DEF ReplayStep, ReplayRead, ReplayPrepared, ReplaySend,
              MarkReplayEnqueued, worker, queue
<1>9. CASE UNCHANGED vars
  BY <1>9 DEF vars, worker, queue
<1> QED
  BY <1>1, <1>2, <1>3, <1>4, <1>5, <1>6, <1>7, <1>8, <1>9
  DEF Next, WorkerStep, Settle

LEMMA StepUnsent ==
  ASSUME Inv1, UnsentUntilPrepared, HeldWasSent, [Next]_vars
  PROVE  UnsentUntilPrepared' /\ HeldWasSent'
<1> DEFINE Goal == UnsentUntilPrepared' /\ HeldWasSent'
<1> USE DEF Inv1, TypeOK, UnsentUntilPrepared, HeldWasSent, Busy, Messages
<1>1. ASSUME NEW w \in Workers, Poll(w) PROVE Goal
  <2>1. CASE ReceiveMessage(w)
    BY <2>1 DEF ReceiveMessage
  <2>2. CASE RecoverStaleInProgress(w) \/ ReceiveNothing(w)
    <3>1. /\ UNCHANGED <<held, place, replay>>
          /\ \A v \in Workers : pc'[v] \in {"idle", "polling", pc[v]}
      BY <2>2 DEF RecoverStaleInProgress, ReceiveNothing, Goto, queue
    <3> QED
      BY <3>1
  <2> QED
    BY <1>1, <2>1, <2>2 DEF Poll
<1>2. ASSUME NEW w \in Workers, ResolveMessage(w) \/ WorkerFault(w)
      PROVE  Goal
  BY <1>2 DEF ResolveMessage, WorkerFault, DatabaseUnavailable, AbandonMessage,
              Goto, SettleWith, Finish, queue
<1>3. ASSUME NEW w \in Workers, Gateway(w) PROVE Goal
  BY <1>3 DEF Gateway, ClaimNewObject, ClaimDuplicate, SelectRow, UpdateRow,
              LoadObject, RunPrivacyPipeline, WriteCanonical, Goto, SettleWith,
              Transition, queue
<1>4. ASSUME NEW w \in Workers, Settle(w) PROVE Goal
  <2>1. ASSUME Deleted(w), pc[w] \in {"settling", "deleting"}, Finish(w),
               UNCHANGED replay
        PROVE  Goal
    <3>1. held[w] \in Messages /\ place[held[w]] # "unsent"
      BY <2>1, ObjectAtTyped
    <3>2. /\ \A m \in Messages : place'[m] = place[m] \/ (m = held[w] /\ place'[m] = "deleted")
          /\ \A v \in Workers : pc'[v] = "idle" \/ (pc'[v] = pc[v] /\ held'[v] = held[v])
      BY <2>1, <3>1 DEF Deleted, Finish
    <3>3. UnsentUntilPrepared'
      BY <2>1, <3>1, <3>2
    <3>4. HeldWasSent'
      BY <3>2, ObjectAtTyped
    <3> QED
      BY <3>3, <3>4
  <2>2. CASE Acknowledge(w) \/ DeleteDeadLettered(w)
    BY <2>1, <2>2 DEF Acknowledge, DeleteDeadLettered
  <2>3. CASE ScheduleRetry(w)
    BY <2>3 DEF ScheduleRetry, Finish, queue
  <2>4. CASE SendToDlq(w)
    BY <2>4 DEF SendToDlq, Goto
  <2> QED
    BY <1>4, <2>2, <2>3, <2>4 DEF Settle
<1>5. ASSUME NEW m \in Messages, VisibilityTimeout(m) PROVE Goal
  BY <1>5 DEF VisibilityTimeout, worker
<1>6. ASSUME NEW o \in Objects, RowAges(o) PROVE Goal
  BY <1>6 DEF RowAges, worker, queue
<1>7. ASSUME NEW r \in Replays, ReplayStep(r) PROVE Goal
  <2>1. UNCHANGED <<pc, held>>
    BY <1>7 DEF ReplayStep, ReplayRead, ReplayPrepared, ReplaySend,
                MarkReplayEnqueued, worker
  <2>2. \A m \in Messages : place'[m] = place[m] \/ (m = r /\ place'[m] = "queued")
    BY <1>7 DEF ReplayStep, ReplayRead, ReplayPrepared, ReplaySend,
                MarkReplayEnqueued, queue
  <2>3. HeldWasSent'
    BY <2>1, <2>2, ObjectAtTyped
  <2>4. UnsentUntilPrepared'
    BY <1>7 DEF ReplayStep, ReplayRead, ReplayPrepared, ReplaySend,
                MarkReplayEnqueued, queue
  <2> QED
    BY <2>3, <2>4
<1>8. CASE UNCHANGED vars
  BY <1>8 DEF vars, worker, queue
<1> QED
  BY <1>1, <1>2, <1>3, <1>4, <1>5, <1>6, <1>7, <1>8
  DEF Next, WorkerStep

LEMMA StepOneHolder ==
  ASSUME Inv3, delays' = 0, [Next]_vars
  PROVE  delays = 0 /\ OneHolder'
<1>0. delays = 0
  <2>1. \A w \in Workers : WorkerStep(w) \/ WorkerFault(w) => UNCHANGED delays
    BY DEF WorkerStep, WorkerFault, Poll, Gateway, Settle, NoFault,
           RecoverStaleInProgress, ReceiveMessage, ReceiveNothing,
           ResolveMessage, ClaimNewObject, ClaimDuplicate, SelectRow,
           UpdateRow, LoadObject, RunPrivacyPipeline, WriteCanonical,
           Acknowledge, ScheduleRetry, SendToDlq, DeleteDeadLettered,
           DatabaseUnavailable, AbandonMessage
  <2>2. \A r \in Replays : ReplayStep(r) => UNCHANGED delays
    BY DEF ReplayStep, ReplayRead, ReplayPrepared, ReplaySend,
           MarkReplayEnqueued, NoFault
  <2>3. \A busy \in BOOLEAN : Delayed(busy) => delays = 0
    BY DEF Inv3, Inv1, TypeOK, Delayed
  <2> QED
    BY <2>1, <2>2, <2>3 DEF Next, vars, VisibilityTimeout, RowAges
<1> USE <1>0 DEF Inv3, Inv1, TypeOK, OneHolder, Busy
<1>1. ASSUME NEW w \in Workers, Poll(w) PROVE OneHolder'
  <2>1. CASE ReceiveMessage(w)
    BY <2>1 DEF ReceiveMessage
  <2>2. CASE RecoverStaleInProgress(w) \/ ReceiveNothing(w)
    <3>1. /\ UNCHANGED <<held, place>>
          /\ \A v \in Workers : pc'[v] \in {"idle", "polling", pc[v]}
      BY <2>2 DEF RecoverStaleInProgress, ReceiveNothing, Goto, queue
    <3> QED
      BY <3>1
  <2> QED
    BY <1>1, <2>1, <2>2 DEF Poll
<1>2. ASSUME NEW w \in Workers, ResolveMessage(w) \/ WorkerFault(w)
      PROVE  OneHolder'
  BY <1>2 DEF ResolveMessage, WorkerFault, DatabaseUnavailable, AbandonMessage,
              Goto, SettleWith, Finish, queue
<1>3. ASSUME NEW w \in Workers, Gateway(w) PROVE OneHolder'
  BY <1>3 DEF Gateway, ClaimNewObject, ClaimDuplicate, SelectRow, UpdateRow,
              LoadObject, RunPrivacyPipeline, WriteCanonical, Goto, SettleWith,
              Transition, queue
<1>4. ASSUME NEW w \in Workers, Settle(w) PROVE OneHolder'
  <2>1. ASSUME Deleted(w), pc[w] \in {"settling", "deleting"}, Finish(w)
        PROVE  OneHolder'
    <3>1. held[w] \in Messages
      BY <2>1, ObjectAtTyped
    <3>2. /\ \A m \in Messages : m # held[w] => place'[m] = place[m]
          /\ \A v \in Workers :
               \/ pc'[v] = "idle"
               \/ v # w /\ pc'[v] = pc[v] /\ held'[v] = held[v]
      BY <2>1, <3>1 DEF Deleted, Finish
    <3> QED
      BY <2>1, <3>2, ObjectAtTyped
  <2>2. CASE Acknowledge(w) \/ DeleteDeadLettered(w)
    BY <2>1, <2>2 DEF Acknowledge, DeleteDeadLettered
  <2>3. CASE ScheduleRetry(w)
    BY <2>3 DEF ScheduleRetry, Finish, queue
  <2>4. CASE SendToDlq(w)
    BY <2>4 DEF SendToDlq, Goto
  <2> QED
    BY <1>4, <2>2, <2>3, <2>4 DEF Settle
<1>5. ASSUME NEW m \in Messages, VisibilityTimeout(m) PROVE OneHolder'
  <2>1. \A w \in Workers : held[w] # m
    BY <1>5 DEF VisibilityTimeout, Delayed
  <2> QED
    BY <1>5, <2>1 DEF VisibilityTimeout, worker
<1>6. ASSUME NEW o \in Objects, RowAges(o) PROVE OneHolder'
  BY <1>6 DEF RowAges, worker, queue
<1>7. ASSUME NEW r \in Replays, ReplayStep(r) PROVE OneHolder'
  <2>1. UNCHANGED <<pc, held>>
    BY <1>7 DEF ReplayStep, ReplayRead, ReplayPrepared, ReplaySend,
                MarkReplayEnqueued, worker
  <2>2. /\ \A m \in Messages : m # r => place'[m] = place[m]
        /\ place'[r] # place[r] => place[r] = "unsent"
    BY <1>7 DEF ReplayStep, ReplayRead, ReplayPrepared, ReplaySend,
                MarkReplayEnqueued, queue, UnsentUntilPrepared, Messages
  <2> QED
    BY <2>1, <2>2, ObjectAtTyped DEF Messages
<1>8. CASE UNCHANGED vars
  BY <1>8 DEF vars, worker, queue
<1> QED
  BY <1>0, <1>1, <1>2, <1>3, <1>4, <1>5, <1>6, <1>7, <1>8
  DEF Next, WorkerStep

\* A step that writes no row and deletes no message keeps every author pursued.
LEMMA QuietStep ==
  ASSUME TypeOK, AuthorPursued, UNCHANGED <<status, author>>,
         \A m \in Messages : Pursued(m) => Pursued(m)'
  PROVE  AuthorPursued'
BY DEF TypeOK, AuthorPursued, Claimed, Final

\* Nor do acknowledgements become wrong while no worker turns to "ack".
LEMMA QuietAck ==
  ASSUME AckOnlyFinal, UNCHANGED <<status, author>>,
         \A v \in Workers :
           pc'[v] = "settling" /\ action'[v] = "ack" =>
             \/ pc[v] = "settling" /\ action[v] = "ack" /\ held'[v] = held[v]
             \/ Final(status[ObjectAt(v)]) /\ held'[v] = held[v]
  PROVE  AckOnlyFinal'
BY DEF AckOnlyFinal, ObjectAt, Final

LEMMA StepAuthor ==
  ASSUME Inv3, delays = 0, [Next]_vars
  PROVE  AuthorPursued' /\ AckOnlyFinal'
<1> DEFINE Goal == AuthorPursued' /\ AckOnlyFinal'
<1> USE DEF Inv3, Inv1, TypeOK
<1>1. ASSUME NEW w \in Workers, RecoverStaleInProgress(w) PROVE Goal
  <2>1. \A o \in Objects :
          \/ status'[o] = status[o]
          \/ Claimed(o) /\ ~Final(status[o]) /\ status'[o] = "failed"
    BY <1>1 DEF RecoverStaleInProgress, StaleRow, RecoveredStatus, Recoverable,
                Claimed, Final, AckStatuses
  <2>2. UNCHANGED <<author, place, deadLetters, replay, held, action>>
    BY <1>1 DEF RecoverStaleInProgress, queue, Goto
  <2>3. AuthorPursued'
    BY <2>1, <2>2 DEF AuthorPursued, Claimed, Pursued
  <2>4. \A v \in Workers : pc'[v] = "settling" => pc[v] = "settling"
    BY <1>1 DEF RecoverStaleInProgress, Goto
  <2>5. AckOnlyFinal'
    <3> SUFFICES ASSUME NEW v \in Workers, pc[v] = "settling",
                        action[v] = "ack", author[ObjectAt(v)] = held[v]
                 PROVE  Final(status'[ObjectAt(v)])
      BY <2>2, <2>4 DEF AckOnlyFinal, ObjectAt
    <3>1. Final(status[ObjectAt(v)]) /\ ObjectAt(v) \in Objects
      BY ObjectAtTyped DEF AckOnlyFinal, Busy
    <3> QED
      BY <3>1, <2>1
  <2> QED
    BY <2>3, <2>5
<1>2. ASSUME NEW w \in Workers, ReceiveMessage(w) PROVE Goal
  <2>1. \A m \in Messages : Pursued(m) => Pursued(m)'
    BY <1>2 DEF ReceiveMessage, Pursued
  <2>2. AckOnlyFinal'
    BY <1>2, QuietAck DEF ReceiveMessage, objects
  <2> QED
    BY <1>2, <2>1, <2>2, QuietStep DEF ReceiveMessage, objects
<1>3. ASSUME NEW w \in Workers, ReceiveNothing(w) PROVE Goal
  BY <1>3, QuietStep, QuietAck DEF ReceiveNothing, objects, queue, Goto, Pursued
<1>4. ASSUME NEW w \in Workers,
             ResolveMessage(w) \/ DatabaseUnavailable(w) \/ SelectRow(w)
      PROVE  Goal
  <2>1. /\ UNCHANGED <<status, author, place, deadLetters, replay, held>>
        /\ \A v \in Workers :
             pc'[v] = "settling" /\ action'[v] = "ack" =>
               pc[v] = "settling" /\ action[v] = "ack"
    BY <1>4 DEF ResolveMessage, DatabaseUnavailable, SelectRow, objects, queue,
                Goto, SettleWith
  <2> QED
    BY <2>1, QuietStep, QuietAck DEF Pursued
<1>5. ASSUME NEW w \in Workers,
             LoadObject(w) \/ RunPrivacyPipeline(w) \/ WriteCanonical(w)
      PROVE  Goal
  <2>1. /\ UNCHANGED <<status, author, place, deadLetters, replay, held>>
        /\ \A v \in Workers :
             pc'[v] = "settling" /\ action'[v] = "ack" =>
               pc[v] = "settling" /\ action[v] = "ack"
    BY <1>5 DEF LoadObject, RunPrivacyPipeline, WriteCanonical, objects, queue,
                Goto, Transition
  <2> QED
    BY <2>1, QuietStep, QuietAck DEF Pursued
<1>6. ASSUME NEW w \in Workers, ClaimDuplicate(w) PROVE Goal
  <2>1. /\ UNCHANGED <<status, author, place, deadLetters, replay, held>>
        /\ \A v \in Workers :
             pc'[v] = "settling" /\ action'[v] = "ack" =>
               \/ pc[v] = "settling" /\ action[v] = "ack"
               \/ Final(status[ObjectAt(v)])
    BY <1>6 DEF ClaimDuplicate, objects, queue, Transition, SettleWith,
                QueueActionFor, Final
  <2> QED
    BY <2>1, QuietStep, QuietAck DEF Pursued
\* A row is written for the message in hand: it becomes the author, and every
\* other worker holds another message.
<1>7. ASSUME NEW w \in Workers, Busy(w), NEW s \in Statuses,
             status' = [status EXCEPT ![ObjectAt(w)] = s],
             author' = [author EXCEPT ![ObjectAt(w)] = held[w]],
             UNCHANGED <<place, deadLetters, replay, held>>,
             \A v \in Workers :
               pc'[v] = "settling" /\ action'[v] = "ack" =>
                 IF v = w THEN Final(s)
                          ELSE pc[v] = "settling" /\ action[v] = "ack"
      PROVE  Goal
  <2>1. held[w] \in Messages /\ ObjectAt(w) \in Objects
    BY <1>7, ObjectAtTyped
  <2>2. Pursued(held[w])'
    BY <1>7, <2>1 DEF OneHolder, Pursued
  <2>3. AuthorPursued'
    <3>1. ASSUME NEW o \in Objects, o # ObjectAt(w),
                 status'[o] # "absent", ~Final(status'[o])
          PROVE  /\ author'[o] \in Messages
                 /\ ObjectOf[author'[o]] = o
                 /\ Pursued(author[o])'
      <4>1. status[o] = status'[o] /\ author[o] = author'[o]
        BY <1>7, <3>1
      <4> QED
        BY <1>7, <3>1, <4>1 DEF AuthorPursued, Claimed, Pursued
    <3>2. author'[ObjectAt(w)] = held[w] /\ ObjectOf[held[w]] = ObjectAt(w)
      BY <1>7, <2>1 DEF ObjectAt
    <3> QED
      BY <2>1, <2>2, <3>1, <3>2, <1>7 DEF AuthorPursued, Claimed, Final, Pursued
  <2>4. AckOnlyFinal'
    <3> SUFFICES ASSUME NEW v \in Workers, pc'[v] = "settling",
                        action'[v] = "ack", author'[ObjectAt(v)] = held[v]
                 PROVE  Final(status'[ObjectAt(v)])
      BY <1>7 DEF AckOnlyFinal, ObjectAt, Final
    <3>1. CASE v = w
      BY <1>7, <2>1, <3>1
    <3>2. CASE v # w
      <4>1. Busy(v) /\ pc[v] = "settling" /\ action[v] = "ack"
        BY <1>7, <3>2 DEF Busy
      <4>2. held[v] # held[w]
        BY <1>7, <3>2, <4>1 DEF OneHolder
      <4>3. ObjectAt(v) # ObjectAt(w) /\ author[ObjectAt(v)] = held[v]
        BY <1>7, <2>1, <4>2
      <4> QED
        BY <1>7, <4>1, <4>3 DEF AckOnlyFinal
    <3> QED
      BY <3>1, <3>2
  <2> QED
    BY <2>3, <2>4
<1>8. ASSUME NEW w \in Workers, ClaimNewObject(w) PROVE Goal
  <2>1. \A v \in Workers :
          pc'[v] = "settling" /\ action'[v] = "ack" =>
            IF v = w THEN Final("received")
                     ELSE pc[v] = "settling" /\ action[v] = "ack"
    BY <1>8 DEF ClaimNewObject, Transition
  <2>2. UNCHANGED <<place, deadLetters, replay, held>>
    BY <1>8 DEF ClaimNewObject, Transition, queue
  <2>3. "received" \in Statuses /\ Busy(w)
    BY <1>8 DEF ClaimNewObject, Busy, Statuses
  <2> QED
    BY <1>8, <2>1, <2>2, <2>3, <1>7 DEF ClaimNewObject, WriteRow
<1>9. ASSUME NEW w \in Workers, UpdateRow(w) PROVE Goal
  <2>1. target[w] \in Statuses /\ Busy(w)
    BY <1>9 DEF UpdateRow, WorkersCoherent, Busy
  <2>2. \A v \in Workers :
          pc'[v] = "settling" /\ action'[v] = "ack" =>
            IF v = w THEN Final(target[w])
                     ELSE pc[v] = "settling" /\ action[v] = "ack"
    BY <1>9 DEF UpdateRow, WorkersCoherent, Goto, SettleWith, QueueActionFor, Final
  <2>3. UNCHANGED <<place, deadLetters, replay, held>>
    BY <1>9 DEF UpdateRow, Goto, SettleWith, queue
  <2> QED
    BY <1>9, <2>1, <2>2, <2>3, <1>7 DEF UpdateRow, WriteRow
<1>10. ASSUME NEW w \in Workers, Acknowledge(w) PROVE Goal
  <2>1. held[w] \in Messages /\ ObjectAt(w) \in Objects
    BY <1>10, ObjectAtTyped DEF Acknowledge, Busy
  <2>2. author[ObjectAt(w)] = held[w] => Final(status[ObjectAt(w)])
    BY <1>10 DEF Acknowledge, AckOnlyFinal
  <2>3. \A m \in Messages : m # held[w] /\ Pursued(m) => Pursued(m)'
    BY <1>10, <2>1 DEF Acknowledge, Deleted, Pursued
  <2>4. AuthorPursued'
    BY <1>10, <2>1, <2>2, <2>3
    DEF Acknowledge, objects, AuthorPursued, Claimed, Final, ObjectAt
  <2>5. AckOnlyFinal'
    BY <1>10, QuietAck DEF Acknowledge, objects, Finish
  <2> QED
    BY <2>4, <2>5
<1>11. ASSUME NEW w \in Workers,
              ScheduleRetry(w) \/ SendToDlq(w) \/ AbandonMessage(w)
       PROVE  Goal
  <2>1. \A m \in Messages : Pursued(m) => Pursued(m)'
    BY <1>11 DEF ScheduleRetry, SendToDlq, AbandonMessage, Pursued, queue
  <2>2. \A v \in Workers :
          pc'[v] = "settling" =>
            pc[v] = "settling" /\ held'[v] = held[v] /\ action'[v] = action[v]
    BY <1>11 DEF ScheduleRetry, SendToDlq, AbandonMessage, Finish, Goto
  <2>3. UNCHANGED <<status, author>>
    BY <1>11 DEF ScheduleRetry, SendToDlq, AbandonMessage, objects
  <2> QED
    BY <2>1, <2>2, <2>3, QuietStep, QuietAck
<1>12. ASSUME NEW w \in Workers, DeleteDeadLettered(w) PROVE Goal
  <2>1. \A m \in Messages : Pursued(m) => Pursued(m)'
    BY <1>12, ObjectAtTyped
    DEF DeleteDeadLettered, Deleted, Pursued, DeadLetteredFirst, Busy
  <2>2. \A v \in Workers :
          pc'[v] = "settling" =>
            pc[v] = "settling" /\ held'[v] = held[v] /\ action'[v] = action[v]
    BY <1>12 DEF DeleteDeadLettered, Finish
  <2>3. UNCHANGED <<status, author>>
    BY <1>12 DEF DeleteDeadLettered, objects
  <2> QED
    BY <2>1, <2>2, <2>3, QuietStep, QuietAck
<1>13. ASSUME NEW m \in Messages, VisibilityTimeout(m) PROVE Goal
  BY <1>13, QuietStep, QuietAck DEF VisibilityTimeout, objects, worker, Pursued
<1>14. ASSUME NEW o \in Objects, RowAges(o) PROVE Goal
  BY <1>14, QuietStep, QuietAck DEF RowAges, queue, worker, Pursued
<1>15. ASSUME NEW r \in Replays, ReplayPrepared(r) PROVE Goal
  <2>1. place[r] = "unsent" /\ r \in Messages /\ ObjectOf[r] \in Objects
    BY <1>15, ConstantsAssumption DEF ReplayPrepared, UnsentUntilPrepared, Messages
  <2>2. \A m \in Messages : Pursued(m) => Pursued(m)'
    BY <1>15 DEF ReplayPrepared, queue, Pursued
  <2>3. Pursued(r)'
    BY <1>15 DEF ReplayPrepared, Pursued
  <2>4. AuthorPursued'
    <3>1. CASE replay[r] = "resetting"
      BY <1>15, <3>1, <2>1, <2>2, <2>3
      DEF ReplayPrepared, WriteRow, AuthorPursued, Claimed, Final
    <3>2. CASE replay[r] # "resetting"
      BY <1>15, <3>2, <2>2, QuietStep DEF ReplayPrepared
    <3> QED
      BY <3>1, <3>2
  <2>5. AckOnlyFinal'
    <3> SUFFICES ASSUME NEW v \in Workers, pc[v] = "settling",
                        action[v] = "ack", author'[ObjectAt(v)] = held[v]
                 PROVE  Final(status'[ObjectAt(v)])
      BY <1>15 DEF ReplayPrepared, worker, AckOnlyFinal, ObjectAt, Final
    <3>1. held[v] # r /\ ObjectAt(v) \in Objects
      BY <2>1, ObjectAtTyped DEF HeldWasSent, Busy
    <3>2. CASE replay[r] = "resetting" /\ ObjectAt(v) = ObjectOf[r]
      BY <1>15, <2>1, <3>1, <3>2 DEF ReplayPrepared
    <3>3. CASE ~(replay[r] = "resetting" /\ ObjectAt(v) = ObjectOf[r])
      BY <1>15, <3>1, <3>3 DEF ReplayPrepared, WriteRow, AckOnlyFinal
    <3> QED
      BY <3>2, <3>3
  <2> QED
    BY <2>4, <2>5
<1>16. ASSUME NEW r \in Replays,
              ReplayRead(r) \/ ReplaySend(r) \/ MarkReplayEnqueued(r)
       PROVE  Goal
  <2>1. \A m \in Messages : Pursued(m) => Pursued(m)'
    BY <1>16, ConstantsAssumption
    DEF ReplayRead, ReplaySend, MarkReplayEnqueued, queue, Pursued, Messages
  <2>2. UNCHANGED <<status, author, pc, action, held>>
    BY <1>16 DEF ReplayRead, ReplaySend, MarkReplayEnqueued, objects, worker
  <2> QED
    BY <2>1, <2>2, QuietStep, QuietAck
<1>17. CASE UNCHANGED vars
  BY <1>17, QuietStep, QuietAck DEF vars, objects, queue, worker, Pursued
<1> QED
  BY <1>1, <1>2, <1>3, <1>4, <1>5, <1>6, <1>8, <1>9, <1>10, <1>11, <1>12,
     <1>13, <1>14, <1>15, <1>16, <1>17
  DEF Next, WorkerStep, WorkerFault, Poll, Gateway, Settle, ReplayStep

\* An object whose row is not final always has a message that is still
\* pursued, as long as no visibility timeout has expired under a live worker.
THEOREM NothingLeftBehind == Spec => []NoObjectLeftBehind
<1>1. Init => Inv3
  <2> SUFFICES ASSUME Init PROVE Inv3
    OBVIOUS
  <2> QED
    BY InitInv1, ConstantsAssumption
    DEF Init, Inv3, DeadLetteredFirst, UnsentUntilPrepared, HeldWasSent,
        OneHolder, AuthorPursued, AckOnlyFinal, Busy, Claimed, Messages
<1>2. Inv3 /\ [Next]_vars => Inv3'
  <2> SUFFICES ASSUME Inv3, [Next]_vars PROVE Inv3'
    OBVIOUS
  <2>1. Inv1' /\ DeadLetteredFirst' /\ UnsentUntilPrepared' /\ HeldWasSent'
    BY StepInv1, StepDeadLettered, StepUnsent DEF Inv3
  <2>2. delays' = 0 => delays = 0 /\ OneHolder'
    BY StepOneHolder
  <2>3. delays' = 0 => AuthorPursued' /\ AckOnlyFinal'
    BY <2>2, StepAuthor
  <2> QED
    BY <2>1, <2>2, <2>3 DEF Inv3
<1>3. Inv3 => NoObjectLeftBehind
  BY DEF Inv3, AuthorPursued, NoObjectLeftBehind
<1> QED
  BY <1>1, <1>2, <1>3, PTL DEF Spec

=============================================================================
