-------------------------- MODULE FreshDataWorkflow --------------------------
(***************************************************************************)
(* One fresh-data workflow: the durable row that                           *)
(* ProductionFreshDataWorkflowStateService keeps under a worker lease, the *)
(* feature build row that DurableProductionFeatureBuildService keeps       *)
(* without one, and the workers that call                                  *)
(* ProductionFreshDataWorkflowService.execute() on the same request.       *)
(*                                                                         *)
(* Every database transaction is one action; between two of them a worker  *)
(* may crash, be outrun by its lease, or be overtaken by another worker.   *)
(* Time is abstracted to one bit: the lease has expired or not.  A worker  *)
(* identity belongs to one process at a time, so a worker that is          *)
(* executing does not claim.                                               *)
(***************************************************************************)
EXTENDS Naturals

CONSTANTS
  Workers,    \* worker identities
  None,       \* "no owner"
  MayBreak,   \* stages whose input may be invalid
  MaxCrashes, \* bound on worker crashes
  MaxErrors,  \* bound on transient exceptions
  MaxDelays   \* bound on leases that run out while their owner still works

Stages == {"validating_ingestion", "reading_canonical", "building_features",
           "generating_candidates", "analyzing_overlap"}

ASSUME ConstantsAssumption ==
  /\ None \notin Workers
  /\ MayBreak \subseteq Stages
  /\ MaxCrashes \in Nat /\ MaxErrors \in Nat /\ MaxDelays \in Nat

VARIABLES
  broken,    \* the stages that reject this request's input with a ValueError
  status,    \* workflow row: its status, or "absent"
  owner,     \* workflow row: lease_owner
  expired,   \* workflow row: lease_expires_at has passed
  build,     \* feature build row: its status, or "absent"
  published, \* the feature set is in the feature store
  pc,        \* per worker: where execute() is
  target,    \* per worker: the stage it advances to or works on
  known,     \* per worker: execute()'s local current_status
  verdict,   \* per worker: the terminal status it is about to record
  crashes, errors, delays

row == <<status, owner, expired>>
local == <<pc, target, known, verdict>>
bounds == <<crashes, errors, delays>>
vars == <<broken, row, build, published, local, bounds>>

-----------------------------------------------------------------------------
(* The two transition tables.                                              *)

Terminal == {"awaiting_review", "blocked", "quarantined", "failed"}
Verdicts == {"blocked", "quarantined", "failed"}

Allowed ==
  [absent                |-> {},
   claimed               |-> {"validating_ingestion", "blocked", "failed"},
   validating_ingestion  |-> {"reading_canonical"} \cup Verdicts,
   reading_canonical     |-> {"building_features", "quarantined", "failed"},
   building_features     |-> {"generating_candidates"} \cup Verdicts,
   generating_candidates |-> {"analyzing_overlap", "blocked", "failed"},
   analyzing_overlap     |-> {"awaiting_review", "blocked", "failed"},
   awaiting_review       |-> {},
   blocked               |-> {},
   quarantined           |-> {},
   failed                |-> {}]

BuildAllowed ==
  [absent      |-> {},
   claimed     |-> {"validating"} \cup Verdicts,
   validating  |-> {"embedding"} \cup Verdicts,
   embedding   |-> {"publishing"} \cup Verdicts,
   publishing  |-> {"completed"} \cup Verdicts,
   completed   |-> {},
   blocked     |-> {},
   quarantined |-> {},
   failed      |-> {}]

\* stage_order of _advance.
Rank ==
  [claimed |-> 0, validating_ingestion |-> 1, reading_canonical |-> 2,
   building_features |-> 3, generating_candidates |-> 4,
   analyzing_overlap |-> 5, awaiting_review |-> 6]

\* What execute() turns to once a stage's own work is done.
After ==
  [validating_ingestion  |-> "reading_canonical",
   reading_canonical     |-> "building_features",
   building_features     |-> "generating_candidates",
   generating_candidates |-> "analyzing_overlap",
   analyzing_overlap     |-> "awaiting_review"]

\* The observer calls of a build: the row status written, and what the
\* executor does next.
BuildPhase ==
  [validate |-> [to |-> "validating", then |-> "approve"],
   approve  |-> [to |-> "embedding",  then |-> "embed"],
   embed    |-> [to |-> "publishing", then |-> "publish"],
   complete |-> [to |-> "completed",  then |-> "snapshot"]]

InBuild == DOMAIN BuildPhase \cup {"publish"}

-----------------------------------------------------------------------------
Init ==
  /\ broken \in SUBSET MayBreak
  /\ status = "absent" /\ owner = None /\ expired = FALSE
  /\ build = "absent" /\ published = FALSE
  /\ pc = [w \in Workers |-> "idle"]
  /\ target = [w \in Workers |-> "validating_ingestion"]
  /\ known = [w \in Workers |-> "claimed"]
  /\ verdict = [w \in Workers |-> "failed"]
  /\ crashes = 0 /\ errors = 0 /\ delays = 0

Goto(w, place) == pc' = [pc EXCEPT ![w] = place]

\* An exception on its way to the matching except clause of execute().
Raise(w, v) ==
  /\ Goto(w, "giving_up")
  /\ verdict' = [verdict EXCEPT ![w] = v]

-----------------------------------------------------------------------------
(* claim(): insert the row, replay or report a terminal or leased one      *)
(* (neither changes anything), or take the lease over.                     *)

Started(w, from) ==
  /\ Goto(w, "advance")
  /\ target' = [target EXCEPT ![w] = "validating_ingestion"]
  /\ known' = [known EXCEPT ![w] = from]
  /\ UNCHANGED verdict

LeaseIsFree(w) == expired \/ owner = w

ClaimNew(w) ==
  /\ pc[w] = "idle"
  /\ status = "absent"
  /\ status' = "claimed" /\ owner' = w /\ expired' = FALSE
  /\ Started(w, "claimed")
  /\ UNCHANGED <<broken, build, published, bounds>>

\* Mutant for NeverBackwards: a takeover starts the row over.
ReacquireRestarts(w) ==
  /\ pc[w] = "idle"
  /\ status \notin Terminal \cup {"absent"}
  /\ LeaseIsFree(w)
  /\ status' = "claimed" /\ owner' = w /\ expired' = FALSE
  /\ Started(w, "claimed")
  /\ UNCHANGED <<broken, build, published, bounds>>

\* Mutant for WorkflowConcludes: the takeover does not renew the lease.
ReacquireKeepsExpiry(w) ==
  /\ pc[w] = "idle"
  /\ status \notin Terminal \cup {"absent"}
  /\ LeaseIsFree(w)
  /\ owner' = w /\ UNCHANGED expired
  /\ Started(w, status)
  /\ UNCHANGED <<broken, status, build, published, bounds>>

Reacquire(w) ==
  /\ pc[w] = "idle"
  /\ status \notin Terminal \cup {"absent"}
  /\ LeaseIsFree(w)
  /\ owner' = w /\ expired' = FALSE
  /\ Started(w, status)
  /\ UNCHANGED <<broken, status, build, published, bounds>>

Claim(w) == ClaimNew(w) \/ Reacquire(w)

-----------------------------------------------------------------------------
(* transition(): table, ownership and expiry are checked under FOR UPDATE; *)
(* a success renews the lease, or clears it with a terminal status.        *)

\* Mutant for HolderIsCurrent: transition() does not check who owns the lease.
MayTransitionUnowned(w, to) == to \in Allowed[status] /\ ~expired

MayTransition(w, to) == to \in Allowed[status] /\ owner = w /\ ~expired

Record(to) ==
  /\ status' = to
  /\ owner' = IF to \in Terminal THEN None ELSE owner
  /\ expired' = FALSE

\* _advance: skipped when the local status is already there.
Skip(w) ==
  /\ pc[w] = "advance"
  /\ target[w] # "awaiting_review"
  /\ Rank[known[w]] >= Rank[target[w]]
  /\ Goto(w, "work")
  /\ UNCHANGED <<broken, row, build, published, target, known, verdict, bounds>>

Advance(w) ==
  /\ pc[w] = "advance"
  /\ target[w] # "awaiting_review"
  /\ Rank[known[w]] < Rank[target[w]]
  /\ IF MayTransition(w, target[w])
     THEN /\ Record(target[w])
          /\ known' = [known EXCEPT ![w] = target[w]]
          /\ Goto(w, "work")
          /\ UNCHANGED verdict
     ELSE /\ Raise(w, "failed")
          /\ UNCHANGED <<row, known>>
  /\ UNCHANGED <<broken, build, published, target, bounds>>

\* The last transition is made by execute() itself.
Finish(w) ==
  /\ pc[w] = "advance"
  /\ target[w] = "awaiting_review"
  /\ IF MayTransition(w, "awaiting_review")
     THEN /\ Record("awaiting_review")
          /\ Goto(w, "idle")
          /\ UNCHANGED verdict
     ELSE /\ Raise(w, "failed")
          /\ UNCHANGED row
  /\ UNCHANGED <<broken, build, published, target, known, bounds>>

\* _terminal_failure: a refused transition is swallowed.
GiveUp(w) ==
  /\ pc[w] = "giving_up"
  /\ IF MayTransition(w, verdict[w]) THEN Record(verdict[w]) ELSE UNCHANGED row
  /\ Goto(w, "idle")
  /\ UNCHANGED <<broken, build, published, target, known, verdict, bounds>>

-----------------------------------------------------------------------------
(* The stages' own work.                                                   *)

StageDone(w) ==
  /\ Goto(w, "advance")
  /\ target' = [target EXCEPT ![w] = After[target[w]]]

\* Validation, canonical read, candidate generation and overlap analysis read
\* their input and write nothing.
Work(w) ==
  /\ pc[w] = "work"
  /\ target[w] # "building_features"
  /\ IF target[w] \in broken
     THEN Raise(w, "quarantined") /\ UNCHANGED target
     ELSE StageDone(w) /\ UNCHANGED verdict
  /\ UNCHANGED <<broken, row, build, published, known, bounds>>

\* A transient exception: a read of changed input quarantines, anything else
\* fails.  Generation and analysis are computed from what was read before.
WorkFails(w) ==
  /\ pc[w] = "work"
  /\ target[w] # "building_features"
  /\ errors < MaxErrors
  /\ errors' = errors + 1
  /\ \/ Raise(w, "failed")
     \/ /\ target[w] \in {"validating_ingestion", "reading_canonical"}
        /\ Raise(w, "quarantined")
  /\ UNCHANGED <<broken, row, build, published, target, known, crashes, delays>>

\* Mutant for PipelineIsExclusive: a replay resumes a build that was started.
ClaimBuildResumes(w) ==
  /\ pc[w] = "work"
  /\ target[w] = "building_features"
  /\ \/ /\ build \in {"absent", "claimed"}
        /\ build' = "claimed"
        /\ Goto(w, "validate")
        /\ UNCHANGED verdict
     \/ /\ build = "completed"
        /\ Goto(w, "snapshot")
        /\ UNCHANGED <<build, verdict>>
     \/ /\ build \notin {"absent", "claimed", "completed"}
        /\ Raise(w, "failed")
        /\ UNCHANGED build
  /\ UNCHANGED <<broken, row, published, target, known, bounds>>

\* Mutant for KeepsItsPromises: a replayed build counts as published, its
\* receipt is not checked and the snapshot is not read back.
ClaimBuildSkipsSnapshot(w) ==
  /\ pc[w] = "work"
  /\ target[w] = "building_features"
  /\ \/ /\ build = "absent"
        /\ build' = "claimed"
        /\ Goto(w, "validate")
        /\ UNCHANGED target
     \/ /\ build # "absent"
        /\ StageDone(w)
        /\ UNCHANGED build
  /\ UNCHANGED <<broken, row, published, known, verdict, bounds>>

\* Mutant for ReviewIsBacked: the receipt's status is not checked, the snapshot
\* of an already published set is enough.
ClaimBuildTrustsAny(w) ==
  /\ pc[w] = "work"
  /\ target[w] = "building_features"
  /\ \/ /\ build = "absent"
        /\ build' = "claimed"
        /\ Goto(w, "validate")
     \/ /\ build # "absent"
        /\ Goto(w, "snapshot")
        /\ UNCHANGED build
  /\ UNCHANGED <<broken, row, published, target, known, verdict, bounds>>

\* claim() of the build state service and _duplicate_receipt: only a completed
\* build hands out its receipt, any other status fails the receipt check.
ClaimBuild(w) ==
  /\ pc[w] = "work"
  /\ target[w] = "building_features"
  /\ \/ /\ build = "absent"
        /\ build' = "claimed"
        /\ Goto(w, "validate")
        /\ UNCHANGED verdict
     \/ /\ build = "completed"
        /\ Goto(w, "snapshot")
        /\ UNCHANGED <<build, verdict>>
     \/ /\ build \notin {"absent", "completed"}
        /\ Raise(w, "failed")
        /\ UNCHANGED build
  /\ UNCHANGED <<broken, row, published, target, known, bounds>>

\* A phase of the build ends well and is written to the build row.
BuildStep(w) ==
  /\ pc[w] \in DOMAIN BuildPhase
  /\ ~(pc[w] = "embed" /\ "building_features" \in broken)
  /\ IF BuildPhase[pc[w]].to \in BuildAllowed[build]
     THEN /\ build' = BuildPhase[pc[w]].to
          /\ Goto(w, BuildPhase[pc[w]].then)
          /\ UNCHANGED verdict
     ELSE Raise(w, "failed") /\ UNCHANGED build
  /\ UNCHANGED <<broken, row, published, target, known, bounds>>

\* save_feature_set, content-addressed: an existing set is left as it is.
Publish(w) ==
  /\ pc[w] = "publish"
  /\ published' = TRUE
  /\ Goto(w, "complete")
  /\ UNCHANGED <<broken, row, build, target, known, verdict, bounds>>

\* The build is given up: the row gets b, execute() will record v.
BuildRaises(w, b, v) ==
  /\ build' = IF b \in BuildAllowed[build] THEN b ELSE build
  /\ Raise(w, v)
  /\ UNCHANGED <<broken, row, published, target, known, crashes, delays>>

BuildRejects(w) ==
  /\ pc[w] = "embed"
  /\ "building_features" \in broken
  /\ BuildRaises(w, "quarantined", "quarantined")
  /\ UNCHANGED errors

\* An unapproved model blocks the build, but its message lacks the tokens that
\* would block the workflow.  The first and the last transition of the build
\* are made outside the try block and leave the row where it is.
BuildFails(w) ==
  /\ errors < MaxErrors
  /\ errors' = errors + 1
  /\ \/ pc[w] = "approve" /\ BuildRaises(w, "blocked", "failed")
     \/ pc[w] \in {"embed", "publish"} /\ BuildRaises(w, "failed", "failed")
     \/ pc[w] \in {"validate", "complete"} /\ BuildRaises(w, build, "failed")

\* The exact published snapshot is read back before Module 3 starts.
ReadSnapshot(w) ==
  /\ pc[w] = "snapshot"
  /\ IF published
     THEN StageDone(w) /\ UNCHANGED verdict
     ELSE Raise(w, "failed") /\ UNCHANGED target
  /\ UNCHANGED <<broken, row, build, published, known, bounds>>

\* The set is no longer eligible for retrieval: "eligible" is a blocking token.
SnapshotFails(w) ==
  /\ pc[w] = "snapshot"
  /\ errors < MaxErrors
  /\ errors' = errors + 1
  /\ \E v \in {"blocked", "failed"} : Raise(w, v)
  /\ UNCHANGED <<broken, row, build, published, target, known, crashes, delays>>

-----------------------------------------------------------------------------
(* Crashes and time.                                                       *)

Crash(w) ==
  /\ pc[w] # "idle"
  /\ crashes < MaxCrashes
  /\ crashes' = crashes + 1
  /\ Goto(w, "idle")
  /\ UNCHANGED <<broken, row, build, published, target, known, verdict, errors,
                 delays>>

\* The lease of a worker that no longer executes runs out.
LeaseExpires ==
  /\ owner \in Workers
  /\ ~expired
  /\ pc[owner] = "idle"
  /\ expired' = TRUE
  /\ UNCHANGED <<broken, status, owner, build, published, local, bounds>>

\* A worker is slower than its lease.
LeaseIsOutrun ==
  /\ owner \in Workers
  /\ ~expired
  /\ pc[owner] # "idle"
  /\ delays < MaxDelays
  /\ delays' = delays + 1
  /\ expired' = TRUE
  /\ UNCHANGED <<broken, status, owner, build, published, local, crashes,
                 errors>>

-----------------------------------------------------------------------------
\* What execute() does unless it is interrupted.
Execute(w) ==
  \/ Skip(w) \/ Advance(w) \/ Finish(w) \/ GiveUp(w)
  \/ Work(w) \/ ClaimBuild(w) \/ BuildStep(w) \/ Publish(w)
  \/ BuildRejects(w) \/ ReadSnapshot(w)

Disturb(w) == WorkFails(w) \/ BuildFails(w) \/ SnapshotFails(w) \/ Crash(w)

\* A concluded workflow only replays: the system has nothing left to do.
Next ==
  \/ \E w \in Workers : Claim(w) \/ Execute(w) \/ Disturb(w)
  \/ LeaseExpires \/ LeaseIsOutrun

Spec == Init /\ [][Next]_vars

\* A running worker goes on, the trigger keeps submitting the request to some
\* worker, and the clock passes the deadline of an abandoned lease.
Fairness ==
  /\ \A w \in Workers : WF_vars(Execute(w))
  /\ WF_vars(\E w \in Workers : Claim(w))
  /\ WF_vars(LeaseExpires)

FairSpec == Spec /\ Fairness

-----------------------------------------------------------------------------
(* Properties.                                                             *)

\* Every variable has its type.
TypeOK ==
  /\ broken \subseteq MayBreak
  /\ status \in DOMAIN Allowed
  /\ owner \in Workers \cup {None}
  /\ expired \in BOOLEAN
  /\ build \in DOMAIN BuildAllowed
  /\ published \in BOOLEAN
  /\ pc \in [Workers -> {"idle", "advance", "work", "snapshot", "giving_up"}
                          \cup InBuild]
  /\ target \in [Workers -> Stages \cup {"awaiting_review"}]
  /\ known \in [Workers -> {"claimed"} \cup Stages]
  /\ verdict \in [Workers -> Verdicts]
  /\ crashes \in 0 .. MaxCrashes
  /\ errors \in 0 .. MaxErrors
  /\ delays \in 0 .. MaxDelays

\* The build row has no lease, yet the embedding pipeline is never inside two
\* workers at once, however leases expire and are taken over, and the worker
\* in it finds the build row exactly where its last phase left it: no
\* transition of a build is ever refused.
\* durable_production_feature_build_service.py, execute.
RowBefore ==
  [validate |-> "claimed", approve |-> "validating", embed |-> "embedding",
   publish |-> "publishing", complete |-> "publishing"]

PipelineIsExclusive ==
  \A w \in Workers : pc[w] \in InBuild =>
    /\ build = RowBefore[pc[w]]
    /\ \A u \in Workers \ {w} : pc[u] \notin InBuild

\* Module 3 runs, and a human is asked to review, only on a build that
\* completed and a feature set that is in the store, even when the worker that
\* built it is not the one that finishes the workflow.
\* production_fresh_data_workflow_service.py, _validate_feature_receipt.
Module3 == {"generating_candidates", "analyzing_overlap", "awaiting_review"}

ReviewIsBacked ==
  /\ status \in Module3 => build = "completed"
  /\ build = "completed" => published

\* execute() decides what to skip from a local copy of the status.  Whoever
\* holds the lease has a copy that equals the row, so a takeover neither skips
\* a stage that was not recorded nor repeats the recording of one.
\* production_fresh_data_workflow_service.py, _advance.
HolderIsCurrent ==
  \A w \in Workers : owner = w /\ pc[w] # "idle" => known[w] = status

\* A takeover resumes: no step moves the workflow back to an earlier stage,
\* and a terminal status is never silently reactivated.
\* production_fresh_data_workflow_state_service.py, claim and transition.
NeverBackwards ==
  [][/\ status \in Terminal => status' = status
     /\ status \in DOMAIN Rank /\ status' \in DOMAIN Rank
          => Rank[status'] >= Rank[status]]_status

\* The workflow keeps the promises of FreshDataOutcome.
Outcome ==
  INSTANCE FreshDataOutcome WITH
    features <- IF published THEN "published" ELSE "none",
    outcome <- CASE status = "awaiting_review" -> "review"
                 [] status \in Verdicts -> "stopped"
                 [] OTHER -> "pending"

KeepsItsPromises == Outcome!Spec

\* A workflow that was submitted reaches a terminal status, whichever workers
\* crash or lose their lease on the way, unless Module 3 rejects its input:
\* its stages cannot record a rejection (see RejectionIsRecorded).
\* production_fresh_data_workflow_runbook.md:59-63.
Rejectable == {s \in Stages : "quarantined" \in Allowed[s]}

WorkflowConcludes ==
  status # "absent" /\ broken \subseteq Rejectable ~> status \in Terminal

-----------------------------------------------------------------------------
(* Claims of the runbook that the code does not keep.                      *)

\* "A worker crash leaves a bounded lease.  After expiry, another worker can
\* claim the same request.  ... make replay safe": with good input and no
\* exception, crashes and takeovers alone never fail the workflow.
\* production_fresh_data_workflow_runbook.md:59-61.
CrashesAreHarmless == broken = {} /\ errors = 0 => status # "failed"

\* "Terminal blocked, quarantined, and failed workflows require an
\* operator-reviewed new request": a request that the holder of the live lease
\* rejects does become terminal.
\* production_fresh_data_workflow_runbook.md:61-63.
RejectionIsRecorded ==
  [][\A w \in Workers :
       /\ pc[w] = "giving_up" /\ pc'[w] = "idle" /\ crashes' = crashes
       /\ owner = w /\ ~expired
       => status' = verdict[w]]_vars
=============================================================================
