----------------------- MODULE FreshDataWorkflowProofs -----------------------
(***************************************************************************)
(* The safety properties of FreshDataWorkflow and its refinement of        *)
(* FreshDataOutcome, for any workers, invalid inputs, crashes, exceptions  *)
(* and lease expiries; and those of FreshDataTrigger, which starts the     *)
(* workflows, for any deliveries and any length of its polls.              *)
(***************************************************************************)
EXTENDS FreshDataWorkflow, FreshDataTrigger, TLAPS

\* Where a worker is tells which stage it is about.
StageFollowsPc ==
  \A w \in Workers :
    /\ pc[w] = "work" => target[w] \in Stages
    /\ pc[w] \in InBuild \cup {"snapshot"} => target[w] = "building_features"

\* A worker that turns to Module 3 has seen the build completed, and one that
\* completes the build has stored the feature set.
BuiltBefore ==
  \A w \in Workers :
    /\ pc[w] \in {"advance", "work"} /\ target[w] \in Module3
         => build = "completed"
    /\ pc[w] = "snapshot" => build = "completed"
    /\ pc[w] = "complete" => published

WorkflowInv ==
  /\ TypeOK
  /\ StageFollowsPc
  /\ BuiltBefore
  /\ PipelineIsExclusive
  /\ ReviewIsBacked
  /\ HolderIsCurrent

-----------------------------------------------------------------------------
(* What the tables say.                                                    *)

\* A transition leaves a status that is not terminal, leads to a status that
\* exists, and never to an earlier stage.
LEMMA AllowedFacts ==
  ASSUME NEW s \in DOMAIN Allowed, NEW to \in Allowed[s]
  PROVE  /\ s \notin Terminal \cup {"absent"}
         /\ to \in DOMAIN Allowed \ {"absent"}
         /\ to \in DOMAIN Rank => Rank[to] >= Rank[s]
BY DEF Allowed, Verdicts, Terminal, Rank

\* A build leaves a status that is not final, and is completed only from
\* publishing.
LEMMA BuildAllowedFacts ==
  ASSUME NEW s \in DOMAIN BuildAllowed, NEW to \in BuildAllowed[s]
  PROVE  /\ s \notin {"absent", "completed"}
         /\ to \in DOMAIN BuildAllowed \ {"absent"}
         /\ to = "completed" => s = "publishing"
BY DEF BuildAllowed, Verdicts

\* A phase of the build writes the status the next phase starts from.
LEMMA PhaseFacts ==
  ASSUME NEW p \in DOMAIN BuildPhase
  PROVE  /\ p \in InBuild \ {"publish"}
         /\ BuildPhase[p].to \in DOMAIN BuildAllowed
         /\ BuildPhase[p].to \in BuildAllowed[RowBefore[p]]
         /\ BuildPhase[p].then \in InBuild \cup {"snapshot"}
         /\ BuildPhase[p].then \in InBuild =>
              BuildPhase[p].to = RowBefore[BuildPhase[p].then]
         /\ BuildPhase[p].then # "complete"
         /\ BuildPhase[p].to = "completed" <=> p = "complete"
         /\ BuildPhase[p].then = "snapshot" <=> p = "complete"
BY DEF BuildPhase, BuildAllowed, RowBefore, InBuild, Verdicts

\* A non-terminal row is a status execute() can resume from.
LEMMA ResumableFacts ==
  ASSUME NEW s \in DOMAIN Allowed, s \notin Terminal \cup {"absent"}
  PROVE  s \in {"claimed"} \cup Stages
BY DEF Allowed, Terminal, Stages

LEMMA AfterFacts ==
  ASSUME NEW s \in Stages
  PROVE  /\ After[s] \in Stages \cup {"awaiting_review"}
         /\ After[s] \in Module3 => s = "building_features" \/ s \in Module3
BY DEF Stages, After, Module3

LEMMA InBuildFacts ==
  /\ InBuild = {"validate", "approve", "embed", "complete", "publish"}
  /\ \A p \in InBuild : RowBefore[p] \in
       {"claimed", "validating", "embedding", "publishing"}
  /\ RowBefore["validate"] = "claimed"
  /\ RowBefore["complete"] = RowBefore["publish"]
BY DEF InBuild, BuildPhase, RowBefore

LEMMA DomainFacts ==
  /\ DOMAIN Allowed = {"absent", "claimed"} \cup Stages \cup Terminal
  /\ DOMAIN BuildAllowed =
       {"absent", "claimed", "validating", "embedding", "publishing",
        "completed"} \cup Verdicts
BY DEF Allowed, BuildAllowed, Stages, Terminal, Verdicts

-----------------------------------------------------------------------------
LEMMA InitInv == Init => WorkflowInv
<1> SUFFICES ASSUME Init PROVE WorkflowInv
  OBVIOUS
<1> USE ConstantsAssumption, InBuildFacts
<1>1. TypeOK
  <2>1. status \in DOMAIN Allowed /\ build \in DOMAIN BuildAllowed
    BY DomainFacts DEF Init
  <2>2. /\ pc \in [Workers -> {"idle", "advance", "work", "snapshot",
                             "giving_up"} \cup InBuild]
        /\ target \in [Workers -> Stages \cup {"awaiting_review"}]
        /\ known \in [Workers -> {"claimed"} \cup Stages]
        /\ verdict \in [Workers -> Verdicts]
    BY DEF Init, Stages, Verdicts
  <2>3. /\ owner \in Workers \cup {None}
        /\ expired \in BOOLEAN /\ published \in BOOLEAN
    BY DEF Init
  <2>4. broken \subseteq MayBreak
    BY Zenon DEF Init
  <2>5. /\ crashes \in 0 .. MaxCrashes /\ errors \in 0 .. MaxErrors
        /\ delays \in 0 .. MaxDelays
    BY DEF Init
  <2> QED
    BY <2>1, <2>2, <2>3, <2>4, <2>5 DEF TypeOK
<1>2. StageFollowsPc /\ BuiltBefore /\ PipelineIsExclusive /\ HolderIsCurrent
  BY DEF Init, StageFollowsPc, BuiltBefore, PipelineIsExclusive,
         HolderIsCurrent
<1>3. ReviewIsBacked
  BY DEF Init, ReviewIsBacked, Module3
<1> QED
  BY <1>1, <1>2, <1>3 DEF WorkflowInv

LEMMA StepInv == WorkflowInv /\ [Next]_vars => WorkflowInv'
<1> SUFFICES ASSUME WorkflowInv, [Next]_vars PROVE WorkflowInv'
  OBVIOUS
<1> USE ConstantsAssumption, InBuildFacts
    DEF WorkflowInv, row, local, bounds, Goto, Raise
<1>1. ASSUME NEW w \in Workers, ClaimNew(w)
      PROVE  WorkflowInv'
  <2>1. TypeOK'
    BY <1>1, DomainFacts
    DEF ClaimNew, Started, TypeOK, Stages, Verdicts
  <2>2. StageFollowsPc'
    BY <1>1
    DEF ClaimNew, Started, TypeOK, StageFollowsPc, Stages
  <2>3. BuiltBefore'
    BY <1>1
    DEF ClaimNew, Started, TypeOK, BuiltBefore, Module3,
        PipelineIsExclusive
  <2>4. PipelineIsExclusive'
    BY <1>1
    DEF ClaimNew, Started, TypeOK, PipelineIsExclusive
  <2>5. ReviewIsBacked'
    BY <1>1
    DEF ClaimNew, Started, TypeOK, ReviewIsBacked, Module3, Verdicts,
        BuiltBefore, PipelineIsExclusive
  <2>6. HolderIsCurrent'
    BY <1>1
    DEF ClaimNew, Started, TypeOK, HolderIsCurrent, Terminal, Verdicts,
        Stages
  <2> QED
    BY <2>1, <2>2, <2>3, <2>4, <2>5, <2>6
<1>2. ASSUME NEW w \in Workers, Reacquire(w)
      PROVE  WorkflowInv'
  <2>1. TypeOK'
    BY <1>2, ResumableFacts, DomainFacts
    DEF Reacquire, Started, LeaseIsFree, TypeOK, Stages, Verdicts
  <2>2. StageFollowsPc'
    BY <1>2, ResumableFacts
    DEF Reacquire, Started, LeaseIsFree, TypeOK, StageFollowsPc, Stages
  <2>3. BuiltBefore'
    BY <1>2, ResumableFacts
    DEF Reacquire, Started, LeaseIsFree, TypeOK, BuiltBefore, Module3,
        PipelineIsExclusive
  <2>4. PipelineIsExclusive'
    BY <1>2, ResumableFacts
    DEF Reacquire, Started, LeaseIsFree, TypeOK, PipelineIsExclusive
  <2>5. ReviewIsBacked'
    BY <1>2, ResumableFacts
    DEF Reacquire, Started, LeaseIsFree, TypeOK, ReviewIsBacked, Module3,
        Verdicts, BuiltBefore, PipelineIsExclusive
  <2>6. HolderIsCurrent'
    BY <1>2, ResumableFacts
    DEF Reacquire, Started, LeaseIsFree, TypeOK, HolderIsCurrent,
        Terminal, Verdicts, Stages
  <2> QED
    BY <2>1, <2>2, <2>3, <2>4, <2>5, <2>6
<1>3. ASSUME NEW w \in Workers, Skip(w)
      PROVE  WorkflowInv'
  <2>1. TypeOK'
    BY <1>3, DomainFacts
    DEF Skip, TypeOK, StageFollowsPc, Stages, Verdicts
  <2>2. StageFollowsPc'
    BY <1>3
    DEF Skip, TypeOK, StageFollowsPc, Stages
  <2>3. BuiltBefore'
    BY <1>3
    DEF Skip, TypeOK, BuiltBefore, StageFollowsPc, Module3,
        PipelineIsExclusive
  <2>4. PipelineIsExclusive'
    BY <1>3
    DEF Skip, TypeOK, PipelineIsExclusive
  <2>5. ReviewIsBacked'
    BY <1>3
    DEF Skip, TypeOK, ReviewIsBacked, Module3, Verdicts, BuiltBefore,
        PipelineIsExclusive
  <2>6. HolderIsCurrent'
    BY <1>3
    DEF Skip, TypeOK, HolderIsCurrent, Terminal, Verdicts, Stages
  <2> QED
    BY <2>1, <2>2, <2>3, <2>4, <2>5, <2>6
<1>4. ASSUME NEW w \in Workers, Advance(w)
      PROVE  WorkflowInv'
  <2>1. TypeOK'
    <3>1. status' \in DOMAIN Allowed
      BY <1>4, AllowedFacts DEF Advance, MayTransition, Record, TypeOK
    <3>2. /\ pc' \in [Workers -> {"idle", "advance", "work", "snapshot",
                                "giving_up"} \cup InBuild]
          /\ verdict' \in [Workers -> Verdicts]
          /\ known' \in [Workers -> {"claimed"} \cup Stages]
      BY <1>4 DEF Advance, MayTransition, Record, TypeOK, Stages, Verdicts
    <3>3. owner' \in Workers \cup {None} /\ expired' \in BOOLEAN
      BY <1>4 DEF Advance, MayTransition, Record, TypeOK
    <3> QED
      BY <1>4, <3>1, <3>2, <3>3 DEF Advance, TypeOK
  <2>2. StageFollowsPc'
    BY <1>4, AllowedFacts
    DEF Advance, MayTransition, Record, TypeOK, StageFollowsPc, Stages
  <2>3. BuiltBefore'
    BY <1>4, AllowedFacts
    DEF Advance, MayTransition, Record, TypeOK, BuiltBefore,
        StageFollowsPc, Module3, PipelineIsExclusive
  <2>4. PipelineIsExclusive'
    BY <1>4, AllowedFacts
    DEF Advance, MayTransition, Record, TypeOK, PipelineIsExclusive
  <2>5. ReviewIsBacked'
    BY <1>4, AllowedFacts
    DEF Advance, MayTransition, Record, TypeOK, ReviewIsBacked, Module3,
        Verdicts, BuiltBefore, PipelineIsExclusive
  <2>6. HolderIsCurrent'
    BY <1>4, AllowedFacts
    DEF Advance, MayTransition, Record, TypeOK, HolderIsCurrent, Terminal,
        Verdicts, Stages
  <2> QED
    BY <2>1, <2>2, <2>3, <2>4, <2>5, <2>6
<1>5. ASSUME NEW w \in Workers, Finish(w)
      PROVE  WorkflowInv'
  <2>1. TypeOK'
    <3>1. status' \in DOMAIN Allowed
      BY <1>5, AllowedFacts DEF Finish, MayTransition, Record, TypeOK
    <3>2. /\ pc' \in [Workers -> {"idle", "advance", "work", "snapshot",
                                "giving_up"} \cup InBuild]
          /\ verdict' \in [Workers -> Verdicts]
          /\ known' \in [Workers -> {"claimed"} \cup Stages]
      BY <1>5 DEF Finish, MayTransition, Record, TypeOK, Stages, Verdicts
    <3>3. owner' \in Workers \cup {None} /\ expired' \in BOOLEAN
      BY <1>5 DEF Finish, MayTransition, Record, TypeOK
    <3> QED
      BY <1>5, <3>1, <3>2, <3>3 DEF Finish, TypeOK
  <2>2. StageFollowsPc'
    BY <1>5, AllowedFacts
    DEF Finish, MayTransition, Record, TypeOK, StageFollowsPc, Stages
  <2>3. BuiltBefore'
    BY <1>5, AllowedFacts
    DEF Finish, MayTransition, Record, TypeOK, BuiltBefore, Module3,
        PipelineIsExclusive
  <2>4. PipelineIsExclusive'
    BY <1>5, AllowedFacts
    DEF Finish, MayTransition, Record, TypeOK, PipelineIsExclusive
  <2>5. ReviewIsBacked'
    BY <1>5, AllowedFacts
    DEF Finish, MayTransition, Record, TypeOK, ReviewIsBacked, Module3,
        Verdicts, BuiltBefore, PipelineIsExclusive
  <2>6. HolderIsCurrent'
    BY <1>5, AllowedFacts
    DEF Finish, MayTransition, Record, TypeOK, HolderIsCurrent, Terminal,
        Verdicts, Stages
  <2> QED
    BY <2>1, <2>2, <2>3, <2>4, <2>5, <2>6
<1>6. ASSUME NEW w \in Workers, GiveUp(w)
      PROVE  WorkflowInv'
  <2>1. TypeOK'
    <3>1. status' \in DOMAIN Allowed
      BY <1>6, AllowedFacts DEF GiveUp, MayTransition, Record, TypeOK
    <3>2. /\ pc' \in [Workers -> {"idle", "advance", "work", "snapshot",
                                "giving_up"} \cup InBuild]
          /\ verdict' \in [Workers -> Verdicts]
          /\ known' \in [Workers -> {"claimed"} \cup Stages]
      BY <1>6 DEF GiveUp, MayTransition, Record, TypeOK, Stages, Verdicts
    <3>3. owner' \in Workers \cup {None} /\ expired' \in BOOLEAN
      BY <1>6 DEF GiveUp, MayTransition, Record, TypeOK
    <3> QED
      BY <1>6, <3>1, <3>2, <3>3 DEF GiveUp, TypeOK
  <2>2. StageFollowsPc'
    BY <1>6, AllowedFacts
    DEF GiveUp, MayTransition, Record, TypeOK, StageFollowsPc, Stages
  <2>3. BuiltBefore'
    BY <1>6, AllowedFacts
    DEF GiveUp, MayTransition, Record, TypeOK, BuiltBefore, Module3,
        PipelineIsExclusive
  <2>4. PipelineIsExclusive'
    BY <1>6, AllowedFacts
    DEF GiveUp, MayTransition, Record, TypeOK, PipelineIsExclusive
  <2>5. ReviewIsBacked'
    BY <1>6, AllowedFacts
    DEF GiveUp, MayTransition, Record, TypeOK, ReviewIsBacked, Module3,
        Verdicts, BuiltBefore, PipelineIsExclusive
  <2>6. HolderIsCurrent'
    BY <1>6, AllowedFacts
    DEF GiveUp, MayTransition, Record, TypeOK, HolderIsCurrent, Terminal,
        Verdicts, Stages
  <2> QED
    BY <2>1, <2>2, <2>3, <2>4, <2>5, <2>6
<1>7. ASSUME NEW w \in Workers, Work(w)
      PROVE  WorkflowInv'
  <2>1. TypeOK'
    BY <1>7, AfterFacts, DomainFacts
    DEF Work, StageDone, TypeOK, StageFollowsPc, Stages, Verdicts
  <2>2. StageFollowsPc'
    BY <1>7, AfterFacts
    DEF Work, StageDone, TypeOK, StageFollowsPc, Stages
  <2>3. BuiltBefore'
    BY <1>7, AfterFacts
    DEF Work, StageDone, TypeOK, BuiltBefore, StageFollowsPc, Module3,
        PipelineIsExclusive
  <2>4. PipelineIsExclusive'
    BY <1>7, AfterFacts
    DEF Work, StageDone, TypeOK, PipelineIsExclusive
  <2>5. ReviewIsBacked'
    BY <1>7, AfterFacts
    DEF Work, StageDone, TypeOK, ReviewIsBacked, Module3, Verdicts,
        BuiltBefore, PipelineIsExclusive
  <2>6. HolderIsCurrent'
    BY <1>7, AfterFacts
    DEF Work, StageDone, TypeOK, HolderIsCurrent, Terminal, Verdicts,
        Stages
  <2> QED
    BY <2>1, <2>2, <2>3, <2>4, <2>5, <2>6
<1>8. ASSUME NEW w \in Workers, WorkFails(w)
      PROVE  WorkflowInv'
  <2>1. TypeOK'
    BY <1>8, DomainFacts
    DEF WorkFails, TypeOK, Stages, Verdicts
  <2>2. StageFollowsPc'
    BY <1>8
    DEF WorkFails, TypeOK, StageFollowsPc, Stages
  <2>3. BuiltBefore'
    BY <1>8
    DEF WorkFails, TypeOK, BuiltBefore, Module3, PipelineIsExclusive
  <2>4. PipelineIsExclusive'
    BY <1>8
    DEF WorkFails, TypeOK, PipelineIsExclusive
  <2>5. ReviewIsBacked'
    BY <1>8
    DEF WorkFails, TypeOK, ReviewIsBacked, Module3, Verdicts, BuiltBefore,
        PipelineIsExclusive
  <2>6. HolderIsCurrent'
    BY <1>8
    DEF WorkFails, TypeOK, HolderIsCurrent, Terminal, Verdicts, Stages
  <2> QED
    BY <2>1, <2>2, <2>3, <2>4, <2>5, <2>6
<1>9. ASSUME NEW w \in Workers, ClaimBuild(w)
      PROVE  WorkflowInv'
  <2>1. TypeOK'
    BY <1>9, DomainFacts
    DEF ClaimBuild, TypeOK, Stages, Verdicts
  <2>2. StageFollowsPc'
    BY <1>9
    DEF ClaimBuild, TypeOK, StageFollowsPc, Stages
  <2>3. BuiltBefore'
    BY <1>9
    DEF ClaimBuild, TypeOK, BuiltBefore, Module3, PipelineIsExclusive
  <2>4. PipelineIsExclusive'
    BY <1>9
    DEF ClaimBuild, TypeOK, PipelineIsExclusive
  <2>5. ReviewIsBacked'
    BY <1>9
    DEF ClaimBuild, TypeOK, ReviewIsBacked, Module3, Verdicts,
        BuiltBefore, PipelineIsExclusive
  <2>6. HolderIsCurrent'
    BY <1>9
    DEF ClaimBuild, TypeOK, HolderIsCurrent, Terminal, Verdicts, Stages
  <2> QED
    BY <2>1, <2>2, <2>3, <2>4, <2>5, <2>6
<1>10. ASSUME NEW w \in Workers, BuildStep(w)
      PROVE  WorkflowInv'
  <2>1. TypeOK'
    BY <1>10, PhaseFacts, BuildAllowedFacts, DomainFacts
    DEF BuildStep, TypeOK, Stages, Verdicts
  <2>2. StageFollowsPc'
    BY <1>10, PhaseFacts, BuildAllowedFacts
    DEF BuildStep, TypeOK, StageFollowsPc, Stages
  <2>3. BuiltBefore'
    BY <1>10, PhaseFacts, BuildAllowedFacts
    DEF BuildStep, TypeOK, BuiltBefore, Module3, PipelineIsExclusive
  <2>4. PipelineIsExclusive'
    BY <1>10, PhaseFacts, BuildAllowedFacts
    DEF BuildStep, TypeOK, PipelineIsExclusive
  <2>5. ReviewIsBacked'
    BY <1>10, PhaseFacts, BuildAllowedFacts
    DEF BuildStep, TypeOK, ReviewIsBacked, Module3, Verdicts, BuiltBefore,
        PipelineIsExclusive
  <2>6. HolderIsCurrent'
    BY <1>10, PhaseFacts, BuildAllowedFacts
    DEF BuildStep, TypeOK, HolderIsCurrent, Terminal, Verdicts, Stages
  <2> QED
    BY <2>1, <2>2, <2>3, <2>4, <2>5, <2>6
<1>11. ASSUME NEW w \in Workers, Publish(w)
      PROVE  WorkflowInv'
  <2>1. TypeOK'
    BY <1>11, DomainFacts
    DEF Publish, TypeOK, Stages, Verdicts
  <2>2. StageFollowsPc'
    BY <1>11
    DEF Publish, TypeOK, StageFollowsPc, Stages
  <2>3. BuiltBefore'
    BY <1>11
    DEF Publish, TypeOK, BuiltBefore, Module3, PipelineIsExclusive
  <2>4. PipelineIsExclusive'
    BY <1>11
    DEF Publish, TypeOK, PipelineIsExclusive
  <2>5. ReviewIsBacked'
    BY <1>11
    DEF Publish, TypeOK, ReviewIsBacked, Module3, Verdicts, BuiltBefore,
        PipelineIsExclusive
  <2>6. HolderIsCurrent'
    BY <1>11
    DEF Publish, TypeOK, HolderIsCurrent, Terminal, Verdicts, Stages
  <2> QED
    BY <2>1, <2>2, <2>3, <2>4, <2>5, <2>6
<1>12. ASSUME NEW w \in Workers, BuildRejects(w)
      PROVE  WorkflowInv'
  <2>1. TypeOK'
    BY <1>12, BuildAllowedFacts, DomainFacts
    DEF BuildRejects, BuildRaises, TypeOK, Stages, Verdicts
  <2>2. StageFollowsPc'
    BY <1>12, BuildAllowedFacts
    DEF BuildRejects, BuildRaises, TypeOK, StageFollowsPc, Stages
  <2>3. BuiltBefore'
    BY <1>12, BuildAllowedFacts
    DEF BuildRejects, BuildRaises, TypeOK, BuiltBefore, Module3,
        PipelineIsExclusive
  <2>4. PipelineIsExclusive'
    BY <1>12, BuildAllowedFacts
    DEF BuildRejects, BuildRaises, TypeOK, PipelineIsExclusive
  <2>5. ReviewIsBacked'
    BY <1>12, BuildAllowedFacts
    DEF BuildRejects, BuildRaises, TypeOK, ReviewIsBacked, Module3,
        Verdicts, BuiltBefore, PipelineIsExclusive
  <2>6. HolderIsCurrent'
    BY <1>12, BuildAllowedFacts
    DEF BuildRejects, BuildRaises, TypeOK, HolderIsCurrent, Terminal,
        Verdicts, Stages
  <2> QED
    BY <2>1, <2>2, <2>3, <2>4, <2>5, <2>6
<1>13. ASSUME NEW w \in Workers, BuildFails(w)
      PROVE  WorkflowInv'
  <2>1. TypeOK'
    <3>1. build' \in DOMAIN BuildAllowed
      BY <1>13, BuildAllowedFacts DEF BuildFails, BuildRaises, TypeOK
    <3>2. /\ pc' \in [Workers -> {"idle", "advance", "work", "snapshot",
                                "giving_up"} \cup InBuild]
          /\ verdict' \in [Workers -> Verdicts]
          /\ known' \in [Workers -> {"claimed"} \cup Stages]
      BY <1>13 DEF BuildFails, BuildRaises, TypeOK, Stages, Verdicts
    <3> QED
      BY <1>13, <3>1, <3>2 DEF BuildFails, BuildRaises, TypeOK
  <2>2. StageFollowsPc'
    BY <1>13, BuildAllowedFacts
    DEF BuildFails, BuildRaises, TypeOK, StageFollowsPc, Stages
  <2>3. BuiltBefore'
    BY <1>13, BuildAllowedFacts
    DEF BuildFails, BuildRaises, TypeOK, BuiltBefore, Module3,
        PipelineIsExclusive
  <2>4. PipelineIsExclusive'
    BY <1>13, BuildAllowedFacts
    DEF BuildFails, BuildRaises, TypeOK, PipelineIsExclusive
  <2>5. ReviewIsBacked'
    BY <1>13, BuildAllowedFacts
    DEF BuildFails, BuildRaises, TypeOK, ReviewIsBacked, Module3,
        Verdicts, BuiltBefore, PipelineIsExclusive
  <2>6. HolderIsCurrent'
    BY <1>13, BuildAllowedFacts
    DEF BuildFails, BuildRaises, TypeOK, HolderIsCurrent, Terminal,
        Verdicts, Stages
  <2> QED
    BY <2>1, <2>2, <2>3, <2>4, <2>5, <2>6
<1>14. ASSUME NEW w \in Workers, ReadSnapshot(w)
      PROVE  WorkflowInv'
  <2>1. TypeOK'
    BY <1>14, AfterFacts, DomainFacts
    DEF ReadSnapshot, StageDone, TypeOK, StageFollowsPc, Stages, Verdicts
  <2>2. StageFollowsPc'
    BY <1>14, AfterFacts
    DEF ReadSnapshot, StageDone, TypeOK, StageFollowsPc, Stages
  <2>3. BuiltBefore'
    BY <1>14, AfterFacts
    DEF ReadSnapshot, StageDone, TypeOK, BuiltBefore, StageFollowsPc,
        Module3, PipelineIsExclusive
  <2>4. PipelineIsExclusive'
    BY <1>14, AfterFacts
    DEF ReadSnapshot, StageDone, TypeOK, PipelineIsExclusive
  <2>5. ReviewIsBacked'
    BY <1>14, AfterFacts
    DEF ReadSnapshot, StageDone, TypeOK, ReviewIsBacked, Module3,
        Verdicts, BuiltBefore, PipelineIsExclusive
  <2>6. HolderIsCurrent'
    BY <1>14, AfterFacts
    DEF ReadSnapshot, StageDone, TypeOK, HolderIsCurrent, Terminal,
        Verdicts, Stages
  <2> QED
    BY <2>1, <2>2, <2>3, <2>4, <2>5, <2>6
<1>15. ASSUME NEW w \in Workers, SnapshotFails(w)
      PROVE  WorkflowInv'
  <2>1. TypeOK'
    BY <1>15, DomainFacts
    DEF SnapshotFails, TypeOK, Stages, Verdicts
  <2>2. StageFollowsPc'
    BY <1>15
    DEF SnapshotFails, TypeOK, StageFollowsPc, Stages
  <2>3. BuiltBefore'
    BY <1>15
    DEF SnapshotFails, TypeOK, BuiltBefore, Module3, PipelineIsExclusive
  <2>4. PipelineIsExclusive'
    BY <1>15
    DEF SnapshotFails, TypeOK, PipelineIsExclusive
  <2>5. ReviewIsBacked'
    BY <1>15
    DEF SnapshotFails, TypeOK, ReviewIsBacked, Module3, Verdicts,
        BuiltBefore, PipelineIsExclusive
  <2>6. HolderIsCurrent'
    BY <1>15
    DEF SnapshotFails, TypeOK, HolderIsCurrent, Terminal, Verdicts, Stages
  <2> QED
    BY <2>1, <2>2, <2>3, <2>4, <2>5, <2>6
<1>16. ASSUME NEW w \in Workers, Crash(w)
      PROVE  WorkflowInv'
  <2>1. TypeOK'
    BY <1>16, DomainFacts
    DEF Crash, TypeOK, Stages, Verdicts
  <2>2. StageFollowsPc'
    BY <1>16
    DEF Crash, TypeOK, StageFollowsPc, Stages
  <2>3. BuiltBefore'
    BY <1>16
    DEF Crash, TypeOK, BuiltBefore, Module3, PipelineIsExclusive
  <2>4. PipelineIsExclusive'
    BY <1>16
    DEF Crash, TypeOK, PipelineIsExclusive
  <2>5. ReviewIsBacked'
    BY <1>16
    DEF Crash, TypeOK, ReviewIsBacked, Module3, Verdicts, BuiltBefore,
        PipelineIsExclusive
  <2>6. HolderIsCurrent'
    BY <1>16
    DEF Crash, TypeOK, HolderIsCurrent, Terminal, Verdicts, Stages
  <2> QED
    BY <2>1, <2>2, <2>3, <2>4, <2>5, <2>6
<1>17. CASE LeaseExpires
  BY <1>17
  DEF LeaseExpires, TypeOK, StageFollowsPc, BuiltBefore, PipelineIsExclusive,
      ReviewIsBacked, HolderIsCurrent
<1>18. CASE LeaseIsOutrun
  BY <1>18
  DEF LeaseIsOutrun, TypeOK, StageFollowsPc, BuiltBefore, PipelineIsExclusive,
      ReviewIsBacked, HolderIsCurrent
<1>19. CASE UNCHANGED vars
  BY <1>19
  DEF vars, TypeOK, StageFollowsPc, BuiltBefore, PipelineIsExclusive,
      ReviewIsBacked, HolderIsCurrent
<1> QED
  BY <1>1, <1>2, <1>3, <1>4, <1>5, <1>6, <1>7, <1>8, <1>9, <1>10, <1>11,
     <1>12, <1>13, <1>14, <1>15, <1>16, <1>17, <1>18, <1>19
  DEF Next, Claim, Execute, Disturb

LEMMA Invariant == Spec => []WorkflowInv
<1>1. Init => WorkflowInv
  BY InitInv
<1>2. WorkflowInv /\ [Next]_vars => WorkflowInv'
  BY StepInv
<1> QED
  BY <1>1, <1>2, PTL DEF Spec

-----------------------------------------------------------------------------
\* Every variable keeps its type.
THEOREM TypeCorrect == Spec => []TypeOK
BY Invariant, PTL DEF WorkflowInv

\* The embedding pipeline of a request is never inside two workers, and no
\* transition of its build row is refused: the build row needs no lease.
THEOREM BuildNeedsNoLease == Spec => []PipelineIsExclusive
BY Invariant, PTL DEF WorkflowInv

\* A workflow past the feature stage rests on a completed, published build,
\* whoever built it.
THEOREM ReviewsAreBacked == Spec => []ReviewIsBacked
BY Invariant, PTL DEF WorkflowInv

\* The local status of the lease holder is never stale.
THEOREM HoldersAreCurrent == Spec => []HolderIsCurrent
BY Invariant, PTL DEF WorkflowInv

-----------------------------------------------------------------------------
\* Every step either leaves the status alone, inserts the row, or is a
\* transition the table allows.
LEMMA StatusSteps ==
  ASSUME WorkflowInv, [Next]_vars
  PROVE  \/ status' = status
         \/ status = "absent" /\ status' = "claimed"
         \/ status' \in Allowed[status]
<1> USE DEF row, local, bounds
<1>1. ASSUME NEW w \in Workers, Claim(w)
      PROVE  status' = status \/ (status = "absent" /\ status' = "claimed")
  BY <1>1 DEF Claim, ClaimNew, Reacquire
<1>2. ASSUME NEW w \in Workers, Execute(w)
      PROVE  status' = status \/ status' \in Allowed[status]
  BY <1>2
  DEF Execute, Skip, Advance, Finish, GiveUp, Work, ClaimBuild, BuildStep,
      Publish, BuildRejects, BuildRaises, ReadSnapshot, MayTransition, Record
<1>3. ASSUME NEW w \in Workers, Disturb(w)
      PROVE  status' = status
  BY <1>3
  DEF Disturb, WorkFails, BuildFails, BuildRaises, SnapshotFails, Crash
<1>4. CASE LeaseExpires \/ LeaseIsOutrun \/ UNCHANGED vars
  BY <1>4 DEF LeaseExpires, LeaseIsOutrun, vars
<1> QED
  BY <1>1, <1>2, <1>3, <1>4 DEF Next

\* A workflow never moves back and a terminal status is final.
THEOREM WorkflowMovesForward == Spec => NeverBackwards
<1>1. ASSUME WorkflowInv, [Next]_vars
      PROVE  [/\ status \in Terminal => status' = status
              /\ status \in DOMAIN Rank /\ status' \in DOMAIN Rank
                   => Rank[status'] >= Rank[status]]_status
  <2>1. status \in DOMAIN Allowed
    BY <1>1 DEF WorkflowInv, TypeOK
  <2>2. CASE status = "absent" /\ status' = "claimed"
    BY <2>2 DEF Terminal, Rank
  <2>3. CASE status' \in Allowed[status]
    BY <2>1, <2>3, AllowedFacts DEF Rank
  <2> QED
    BY <1>1, <2>2, <2>3, StatusSteps
<1> QED
  BY <1>1, Invariant, PTL DEF Spec, NeverBackwards

-----------------------------------------------------------------------------
\* Steps that store nothing in the feature store leave it alone, and the one
\* that stores leaves the workflow row alone.
LEMMA PublishedSteps ==
  ASSUME WorkflowInv, [Next]_vars
  PROVE  \/ published' = published
         \/ published' = TRUE /\ status' = status
<1> USE DEF row, local, bounds
<1>1. ASSUME NEW w \in Workers, Claim(w)
      PROVE  published' = published
  BY <1>1 DEF Claim, ClaimNew, Reacquire
<1>2. ASSUME NEW w \in Workers, Execute(w)
      PROVE  \/ published' = published
             \/ published' = TRUE /\ status' = status
  BY <1>2
  DEF Execute, Skip, Advance, Finish, GiveUp, Work, ClaimBuild, BuildStep,
      Publish, BuildRejects, BuildRaises, ReadSnapshot
<1>3. ASSUME NEW w \in Workers, Disturb(w)
      PROVE  published' = published
  BY <1>3
  DEF Disturb, WorkFails, BuildFails, BuildRaises, SnapshotFails, Crash
<1>4. CASE LeaseExpires \/ LeaseIsOutrun \/ UNCHANGED vars
  BY <1>4 DEF LeaseExpires, LeaseIsOutrun, vars
<1> QED
  BY <1>1, <1>2, <1>3, <1>4 DEF Next

\* The workflow implements FreshDataOutcome: a pending request gets one
\* verdict, and a review only of a published feature set.
THEOREM WorkflowKeepsItsPromises == Spec => KeepsItsPromises
<1> DEFINE f == IF published THEN "published" ELSE "none"
           o == CASE status = "awaiting_review" -> "review"
                  [] status \in Verdicts -> "stopped"
                  [] OTHER -> "pending"
<1>1. Init => Outcome!Init
  BY DEF Init, Outcome!Init, Verdicts
<1>2. ASSUME WorkflowInv, WorkflowInv', [Next]_vars
      PROVE  [Outcome!Next]_(Outcome!vars)
  <2> USE DEF WorkflowInv
  <2>1. status \in DOMAIN Allowed
    BY <1>2 DEF TypeOK
  <2>2. CASE published' # published
    <3>1. published' = TRUE /\ status' = status /\ published = FALSE
      BY <1>2, <2>2, PublishedSteps DEF TypeOK
    <3>2. Outcome!Publish
      BY <3>1 DEF Outcome!Publish
    <3> QED
      BY <3>2 DEF Outcome!Next
  <2>3. CASE published' = published /\ status' = status
    BY <2>3 DEF Outcome!vars
  <2>4. CASE published' = published /\ status = "absent" /\ status' = "claimed"
    BY <2>4 DEF Outcome!vars, Verdicts
  <2>5. CASE published' = published /\ status' \in Allowed[status]
    <3>1. status \notin Terminal
      BY <2>1, <2>5, AllowedFacts
    <3>2. o = "pending"
      BY <3>1 DEF Terminal, Verdicts
    <3>3. CASE status' = "awaiting_review"
      <4>1. published
        BY <1>2, <2>5, <3>3 DEF ReviewIsBacked, Module3
      <4>2. Outcome!Review
        BY <2>5, <3>2, <3>3, <4>1 DEF Outcome!Review, Verdicts
      <4> QED
        BY <4>2 DEF Outcome!Next
    <3>4. CASE status' \in Verdicts
      <4>1. Outcome!Stop
        BY <2>5, <3>2, <3>4 DEF Outcome!Stop, Verdicts
      <4> QED
        BY <4>1 DEF Outcome!Next
    <3>5. CASE status' \notin Verdicts \cup {"awaiting_review"}
      BY <2>5, <3>1, <3>5 DEF Outcome!vars, Verdicts, Terminal
    <3> QED
      BY <3>3, <3>4, <3>5
  <2> QED
    BY <1>2, <2>2, <2>3, <2>4, <2>5, StatusSteps
<1> QED
  BY <1>1, <1>2, Invariant, PTL DEF Spec, KeepsItsPromises, Outcome!Spec

-----------------------------------------------------------------------------
(* The poll that starts the workflows.                                     *)

\* While every completed row fits in a poll, the running one has still to walk
\* the rows from some m on, as far as they were completed when it was listed,
\* and has been through all those before.
Walked ==
  Len(completed) <= Limit /\ batch # << >> =>
    \E m \in DOMAIN completed :
      /\ m + Len(batch) - 1 <= Len(completed)
      /\ \A k \in DOMAIN batch : batch[k] = completed[m + k - 1]
      /\ \A i \in DOMAIN completed : i < m => completed[i] \in triggered \cup Bad

\* Only rows that have completed are listed, and only those are triggered.
TriggeredCompleted ==
  /\ \A k \in DOMAIN batch : \E i \in DOMAIN completed : completed[i] = batch[k]
  /\ \A d \in triggered : \E i \in DOMAIN completed : completed[i] = d

PollerInv ==
  /\ PollerTypeOK
  /\ TriggeredCompleted
  /\ Walked
  /\ InOrder

LEMMA PollerStarts ==
  ASSUME PollerInit
  PROVE  PollerInv
<1>1. completed = << >> /\ batch = << >> /\ triggered = {} /\ refused = {} /\ aborts = 0
  BY DEF PollerInit
<1>2. DOMAIN completed = {} /\ DOMAIN batch = {} /\ << >> \in Seq(Deliveries)
  BY <1>1
<1>3. PollerTypeOK
  BY <1>1, <1>2, TriggerAssumption DEF PollerTypeOK, IsInjective
<1>4. TriggeredCompleted /\ Walked /\ InOrder
  BY <1>1, <1>2 DEF TriggeredCompleted, Walked, InOrder
<1> QED
  BY <1>3, <1>4 DEF PollerInv

LEMMA CompletionKeepsInv ==
  ASSUME PollerInv, NEW d \in Deliveries, Complete(d)
  PROVE  PollerInv'
<1> DEFINE n == Len(completed)
<1>1. /\ completed' = Append(completed, d) /\ UNCHANGED <<batch, triggered, refused, aborts>>
      /\ \A i \in DOMAIN completed : completed[i] # d
  BY DEF Complete, ToSet
<1>2. /\ completed \in Seq(Deliveries) /\ batch \in Seq(Deliveries)
      /\ \A i, j \in DOMAIN completed : completed[i] = completed[j] => i = j
  BY DEF PollerInv, PollerTypeOK, IsInjective
<1>3. /\ n \in Nat /\ DOMAIN completed = 1 .. n /\ DOMAIN completed' = 1 .. n + 1
      /\ completed' \in Seq(Deliveries) /\ Len(completed') = n + 1
      /\ \A i \in 1 .. n : completed'[i] = completed[i]
      /\ completed'[n + 1] = d
      /\ Len(batch) \in Nat /\ DOMAIN batch = 1 .. Len(batch)
  BY <1>1, <1>2
<1> HIDE DEF n
<1>4. PollerTypeOK'
  <2>1. \A i, j \in DOMAIN completed' : completed'[i] = completed'[j] => i = j
    BY <1>1, <1>2, <1>3
  <2> QED
    BY <1>1, <1>3, <2>1 DEF PollerInv, PollerTypeOK, IsInjective
<1>5. TriggeredCompleted'
  <2>1. \A i \in DOMAIN completed : i \in DOMAIN completed' /\ completed'[i] = completed[i]
    BY <1>3
  <2> QED
    BY <1>1, <2>1 DEF PollerInv, TriggeredCompleted
<1>6. Walked'
  <2> SUFFICES ASSUME n + 1 <= Limit, batch # << >>
               PROVE  \E m \in DOMAIN completed' :
                        /\ m + Len(batch) - 1 <= n + 1
                        /\ \A k \in DOMAIN batch : batch[k] = completed'[m + k - 1]
                        /\ \A i \in DOMAIN completed' :
                             i < m => completed'[i] \in triggered \cup Bad
    BY <1>1, <1>3 DEF Walked
  <2>1. PICK m \in 1 .. n :
          /\ m + Len(batch) - 1 <= n
          /\ \A k \in DOMAIN batch : batch[k] = completed[m + k - 1]
          /\ \A i \in DOMAIN completed : i < m => completed[i] \in triggered \cup Bad
    <3>1. n <= Limit
      BY <1>3, TriggerAssumption
    <3> QED
      BY <1>3, <3>1 DEF PollerInv, Walked, n
  <2>2. \A k \in DOMAIN batch : m + k - 1 \in 1 .. n
    BY <1>3, <2>1
  <2>3. \A k \in DOMAIN batch : batch[k] = completed'[m + k - 1]
    BY <1>3, <2>1, <2>2
  <2>4. \A i \in DOMAIN completed' : i < m => i \in 1 .. n
    BY <1>3, <2>1
  <2>5. \A i \in DOMAIN completed' : i < m => completed'[i] \in triggered \cup Bad
    BY <1>3, <2>1, <2>4
  <2>6. m \in DOMAIN completed' /\ m + Len(batch) - 1 <= n + 1
    BY <1>3, <2>1
  <2> QED
    BY <2>3, <2>5, <2>6
<1>7. InOrder'
  <2>1. d \notin triggered
    BY <1>1 DEF PollerInv, TriggeredCompleted
  <2>2. n + 1 <= Limit => n <= Limit
    BY <1>3, TriggerAssumption
  <2> QED
    BY <1>1, <1>3, <2>1, <2>2 DEF PollerInv, InOrder, n
<1> QED
  BY <1>4, <1>5, <1>6, <1>7 DEF PollerInv

LEMMA PollKeepsInv ==
  ASSUME PollerInv, Poll
  PROVE  PollerInv'
<1> DEFINE n == Len(completed)
           first == IF n > Limit THEN n - Limit + 1 ELSE 1
<1>1. /\ batch' = SubSeq(completed, first, n)
      /\ UNCHANGED <<completed, triggered, refused, aborts>> /\ completed # << >>
  BY DEF Poll, Newest
<1>2. completed \in Seq(Deliveries) /\ n \in Nat /\ DOMAIN completed = 1 .. n /\ n # 0
  BY <1>1 DEF PollerInv, PollerTypeOK
<1>3. first \in 1 .. n
  BY <1>2, TriggerAssumption
<1> HIDE DEF first, n
<1>4. /\ batch' \in Seq(Deliveries) /\ Len(batch') = n - first + 1
      /\ DOMAIN batch' = 1 .. n - first + 1
      /\ \A k \in 1 .. n - first + 1 : batch'[k] = completed[first + k - 1]
  BY <1>1, <1>2, <1>3
<1>5. PollerTypeOK'
  BY <1>1, <1>4 DEF PollerInv, PollerTypeOK, IsInjective
<1>6. TriggeredCompleted'
  <2>1. \A k \in 1 .. n - first + 1 : first + k - 1 \in 1 .. n
    BY <1>2, <1>3
  <2> QED
    BY <1>1, <1>2, <1>4, <2>1 DEF PollerInv, TriggeredCompleted
<1>7. Walked'
  <2> SUFFICES ASSUME n <= Limit
               PROVE  \E m \in DOMAIN completed :
                        /\ m + Len(batch') - 1 <= n
                        /\ \A k \in DOMAIN batch' : batch'[k] = completed[m + k - 1]
                        /\ \A i \in DOMAIN completed :
                             i < m => completed[i] \in triggered \cup Bad
    BY <1>1 DEF Walked, n
  <2>1. first = 1
    BY <1>2, TriggerAssumption DEF first
  <2>2. 1 \in DOMAIN completed /\ 1 + Len(batch') - 1 <= n
    BY <1>2, <1>3, <1>4, <2>1
  <2>3. \A k \in DOMAIN batch' : batch'[k] = completed[1 + k - 1]
    BY <1>4, <2>1
  <2>4. \A i \in DOMAIN completed : ~(i < 1)
    BY <1>2
  <2> QED
    BY <2>2, <2>3, <2>4
<1>8. InOrder'
  BY <1>1 DEF PollerInv, InOrder
<1> QED
  BY <1>5, <1>6, <1>7, <1>8 DEF PollerInv

\* One row of the list: reported if it is bad, executed if it is not.
LEMMA WalkKeepsInv ==
  ASSUME PollerInv, Refuse \/ Trigger
  PROVE  PollerInv'
<1> DEFINE d == Head(batch)
<1>1. /\ batch # << >> /\ batch' = Tail(batch) /\ UNCHANGED <<completed, aborts>>
      /\ \/ d \in Bad /\ refused' = refused \cup {d} /\ triggered' = triggered
         \/ d \notin Bad /\ triggered' = triggered \cup {d} /\ refused' = refused
  BY DEF Refuse, Trigger
<1>2. /\ completed \in Seq(Deliveries) /\ batch \in Seq(Deliveries)
      /\ \A i, j \in DOMAIN completed : completed[i] = completed[j] => i = j
  BY DEF PollerInv, PollerTypeOK, IsInjective
<1>3. /\ Len(batch) \in Nat \ {0} /\ DOMAIN batch = 1 .. Len(batch)
      /\ d = batch[1] /\ d \in Deliveries
      /\ batch' \in Seq(Deliveries) /\ Len(batch') = Len(batch) - 1
      /\ DOMAIN batch' = 1 .. Len(batch) - 1
      /\ \A k \in 1 .. Len(batch) - 1 : batch'[k] = batch[k + 1]
      /\ Len(completed) \in Nat /\ DOMAIN completed = 1 .. Len(completed)
  BY <1>1, <1>2
<1> HIDE DEF d
<1>4. PollerTypeOK'
  BY <1>1, <1>3 DEF PollerInv, PollerTypeOK, IsInjective
<1>5. TriggeredCompleted'
  <2>1. \A k \in DOMAIN batch : \E i \in DOMAIN completed : completed[i] = batch[k]
    BY DEF PollerInv, TriggeredCompleted
  <2>2. \A k \in DOMAIN batch' : \E i \in DOMAIN completed : completed[i] = batch'[k]
    BY <1>3, <2>1
  <2>3. \A e \in triggered' : e \in triggered \/ e = batch[1]
    BY <1>1, <1>3
  <2>4. \A e \in triggered' : \E i \in DOMAIN completed : completed[i] = e
    BY <1>3, <2>1, <2>3 DEF PollerInv, TriggeredCompleted
  <2> QED
    BY <1>1, <2>2, <2>4 DEF TriggeredCompleted
<1>6. CASE Len(completed) <= Limit
  <2>1. PICK m \in 1 .. Len(completed) :
          /\ m + Len(batch) - 1 <= Len(completed)
          /\ \A k \in DOMAIN batch : batch[k] = completed[m + k - 1]
          /\ \A i \in DOMAIN completed : i < m => completed[i] \in triggered \cup Bad
    BY <1>1, <1>3, <1>6 DEF PollerInv, Walked
  <2>2. d = completed[m]
    BY <1>3, <2>1
  <2>3. \A i \in DOMAIN completed : i < m + 1 => completed[i] \in triggered' \cup Bad
    <3>1. triggered \subseteq triggered' /\ d \in triggered' \cup Bad
      BY <1>1
    <3> QED
      BY <1>3, <2>1, <2>2, <3>1
  <2>4. Walked'
    <3> SUFFICES ASSUME batch' # << >>
                 PROVE  \E l \in DOMAIN completed :
                          /\ l + Len(batch') - 1 <= Len(completed)
                          /\ \A k \in DOMAIN batch' : batch'[k] = completed[l + k - 1]
                          /\ \A i \in DOMAIN completed :
                               i < l => completed[i] \in triggered' \cup Bad
      BY <1>1 DEF Walked
    <3>1. Len(batch') # 0
      BY <1>3
    <3>2. m + 1 \in DOMAIN completed /\ (m + 1) + Len(batch') - 1 <= Len(completed)
      BY <1>3, <2>1, <3>1
    <3>3. \A k \in DOMAIN batch' : batch'[k] = completed[(m + 1) + k - 1]
      <4> SUFFICES ASSUME NEW k \in 1 .. Len(batch) - 1
                   PROVE  batch'[k] = completed[(m + 1) + k - 1]
        BY <1>3
      <4>1. k + 1 \in DOMAIN batch /\ m + (k + 1) - 1 = (m + 1) + k - 1
        BY <1>3
      <4>2. batch'[k] = batch[k + 1] /\ batch[k + 1] = completed[m + (k + 1) - 1]
        BY <1>3, <2>1, <4>1
      <4> QED
        BY <4>1, <4>2
    <3> QED
      BY <2>3, <3>2, <3>3
  <2>5. InOrder'
    <3> SUFFICES ASSUME NEW i \in DOMAIN completed, NEW j \in DOMAIN completed,
                        i < j, completed[j] \in triggered'
                 PROVE  completed[i] \in triggered' \cup Bad
      BY <1>1 DEF InOrder
    <3>1. triggered \subseteq triggered' /\ (completed[j] \in triggered \/ completed[j] = d)
      BY <1>1
    <3>2. CASE completed[j] \in triggered
      BY <1>6, <3>1, <3>2 DEF PollerInv, InOrder
    <3>3. CASE completed[j] = d
      <4>1. j = m
        BY <1>2, <1>3, <2>1, <2>2, <3>3
      <4> QED
        BY <1>3, <2>1, <2>3, <4>1
    <3> QED
      BY <3>1, <3>2, <3>3
  <2> QED
    BY <1>4, <1>5, <2>4, <2>5 DEF PollerInv
<1>7. CASE ~(Len(completed) <= Limit)
  BY <1>1, <1>4, <1>5, <1>7 DEF PollerInv, Walked, InOrder
<1> QED
  BY <1>6, <1>7

LEMMA PollerKeepsInv ==
  ASSUME PollerInv, [PollerNext]_poller
  PROVE  PollerInv'
<1>1. CASE \E d \in Deliveries : Complete(d)
  BY <1>1, CompletionKeepsInv
<1>2. CASE Poll
  BY <1>2, PollKeepsInv
<1>3. CASE Refuse \/ Trigger
  BY <1>3, WalkKeepsInv
<1>4. CASE Abort
  <2>1. /\ batch' = << >> /\ aborts' = aborts + 1 /\ aborts < MaxAborts
        /\ UNCHANGED <<completed, triggered, refused>>
    BY <1>4 DEF Abort
  <2>2. batch' \in Seq(Deliveries) /\ DOMAIN batch' = {}
    BY <2>1
  <2>3. PollerTypeOK'
    BY <2>1, <2>2, TriggerAssumption DEF PollerInv, PollerTypeOK, IsInjective
  <2>4. TriggeredCompleted' /\ Walked'
    BY <2>1, <2>2 DEF PollerInv, TriggeredCompleted, Walked
  <2> QED
    BY <2>1, <2>3, <2>4 DEF PollerInv, InOrder
<1>5. CASE UNCHANGED poller
  BY <1>5 DEF poller, PollerInv, PollerTypeOK, IsInjective,
     TriggeredCompleted, Walked, InOrder
<1> QED
  BY <1>1, <1>2, <1>3, <1>4, <1>5 DEF PollerNext

\* Rows complete once, a poll lists completed rows, and only good receipts are
\* triggered.
THEOREM PollerTypeCorrect == PollerSpec => []PollerTypeOK
<1>1. PollerInit => PollerInv
  BY PollerStarts
<1>2. PollerInv /\ [PollerNext]_poller => PollerInv'
  BY PollerKeepsInv
<1>3. PollerInv => PollerTypeOK
  BY DEF PollerInv
<1> QED
  BY <1>1, <1>2, <1>3, PTL DEF PollerSpec

\* As long as no more rows have completed than one poll lists, no delivery is
\* triggered before an older good one.
THEOREM TriggersOldestFirst == PollerSpec => []InOrder
<1>1. PollerInit => PollerInv
  BY PollerStarts
<1>2. PollerInv /\ [PollerNext]_poller => PollerInv'
  BY PollerKeepsInv
<1>3. PollerInv => InOrder
  BY DEF PollerInv
<1> QED
  BY <1>1, <1>2, <1>3, PTL DEF PollerSpec
=============================================================================
