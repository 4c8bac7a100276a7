--------------------------- MODULE AudienceApproval ---------------------------
(***************************************************************************)
(* The life of audience runs: the background job that makes a run          *)
(* (audience_intelligence_jobs.py), its row in the run history             *)
(* (AudienceRunHistoryService), the epsilon ledger its approval is charged *)
(* to (PrivacyBudgetLedgerService), the human decisions, taken through the *)
(* job API or the run-history API, and the export of an approved run.      *)
(* PostgreSQL stores; every run of the model is charged to one scope.      *)
(*                                                                         *)
(* Both services repeat their DDL in every transaction.  ALTER TABLE takes *)
(* an ACCESS EXCLUSIVE lock and keeps it until the commit, so transactions *)
(* on the run history exclude each other, and so do those on the ledger    *)
(* (Free).  Only an approval that is charged spans two transactions: it    *)
(* waits inside the first one for the ledger's, which commits on its own.  *)
(***************************************************************************)
EXTENDS Naturals, FiniteSets

CONSTANTS
  Runs,      \* a job and the run it makes
  Clients,   \* API requests being served
  None,      \* "no run"
  Epsilon,   \* what one approval of a run spends
  Budget,    \* max_budget of the scope
  MaxFaults  \* bound on exceptions and crashes

ASSUME ConstantsAssumption ==
  /\ IsFiniteSet(Runs)
  /\ None \notin Runs
  /\ Epsilon \in [Runs -> Nat \ {0}]
  /\ Budget \in Nat
  /\ MaxFaults \in Nat

VARIABLES
  job,             \* audience_jobs.status, "absent": no such job
  jobApproval,     \* .result.approval_status
  jobExport,       \* .result.downstream_export_enabled
  agent,           \* where _run_job_background is
  made,            \* approval_status of the result the agent returned
  cohorts,         \* the run has cohorts to export
  approval,        \* audience_run_history.approval_status, "absent": no row
  export,          \* .downstream_export_enabled
  summaryApproval, \* .final_summary.safe_export.approval_status
  summaryExport,   \* .final_summary.safe_export.downstream_export_enabled
  charges,         \* number of "allowed" ledger rows of a run
  exported,        \* a Meta seed payload was generated for the run
  pc,              \* where a request is
  run,             \* the run it is about
  viaJob,          \* it came through the job API
  want,            \* the downstream_export_enabled it asks for
  used,            \* used_before, as read from the ledger
  reply,           \* what _decision returned
  seenApproval, seenExport, \* the row as get_run returned it
  faults

record  == <<job, jobApproval, jobExport>>
task    == <<agent, made, cohorts>>
columns == <<approval, export>>
summary == <<summaryApproval, summaryExport>>
history == <<columns, summary>>
ledger  == <<charges, exported>>
request == <<pc, run, viaJob, want, used, reply, seenApproval, seenExport>>
vars    == <<record, task, history, ledger, request, faults>>

----------------------------------------------------------------------------
Made == {"pending_approval", "not_required", "blocked"}
Blocked == {"blocked", "blocked_approval", "blocked_privacy_budget"}
Approvals == Made \cup Blocked \cup {"absent", "approved", "rejected"}
Replies == {"none", "approved", "refused", "blocked_approval",
            "blocked_privacy_budget"}

\* Inside the transaction of _decision, and inside that of check_and_record.
Deciding == {"charging", "spending", "approving", "refusing"}
Spending == {"spending"}

Init ==
  /\ job = [r \in Runs |-> "absent"]
  /\ jobApproval = [r \in Runs |-> "absent"]
  /\ jobExport = [r \in Runs |-> FALSE]
  /\ agent = [r \in Runs |-> "none"]
  /\ made = [r \in Runs |-> "pending_approval"]
  /\ cohorts = [r \in Runs |-> FALSE]
  /\ approval = [r \in Runs |-> "absent"]
  /\ export = [r \in Runs |-> FALSE]
  /\ summaryApproval = [r \in Runs |-> "absent"]
  /\ summaryExport = [r \in Runs |-> FALSE]
  /\ charges = [r \in Runs |-> 0]
  /\ exported = [r \in Runs |-> FALSE]
  /\ pc = [c \in Clients |-> "idle"]
  /\ run = [c \in Clients |-> None]
  /\ viaJob = [c \in Clients |-> FALSE]
  /\ want = [c \in Clients |-> FALSE]
  /\ used = [c \in Clients |-> 0]
  /\ reply = [c \in Clients |-> "none"]
  /\ seenApproval = [c \in Clients |-> "absent"]
  /\ seenExport = [c \in Clients |-> FALSE]
  /\ faults = 0

\* Mutant for BudgetKept: with the DDL moved to a migration only the row locks
\* of SELECT ... FOR UPDATE are left.
RowIsFree(r, places) == \A c \in Clients : pc[c] \in places => run[c] # r

\* No transaction in these places: the table can be locked.
Free(r, places) == \A c \in Clients : pc[c] \notin places

----------------------------------------------------------------------------
(* The job: run_job and _run_job_background.                               *)

CreateJob(r) ==
  /\ job[r] = "absent"
  /\ job' = [job EXCEPT ![r] = "queued"]
  /\ agent' = [agent EXCEPT ![r] = "queued"]
  /\ UNCHANGED <<jobApproval, jobExport, made, cohorts, history, ledger,
                 request, faults>>

StartJob(r) ==
  /\ agent[r] = "queued"
  /\ job' = [job EXCEPT ![r] = "running"]
  /\ agent' = [agent EXCEPT ![r] = "running"]
  /\ UNCHANGED <<jobApproval, jobExport, made, cohorts, history, ledger,
                 request, faults>>

\* The orchestrator returns a package to be approved, one that needs no
\* approval, or a blocked one, with or without cohorts.
RunAgent(r) ==
  /\ agent[r] = "running"
  /\ agent' = [agent EXCEPT ![r] = "persisting"]
  /\ \E status \in Made : made' = [made EXCEPT ![r] = status]
  /\ \E some \in BOOLEAN : cohorts' = [cohorts EXCEPT ![r] = some]
  /\ UNCHANGED <<record, history, ledger, request, faults>>

\* persist_run: one transaction.
PersistRun(r) ==
  /\ agent[r] = "persisting"
  /\ Free(r, Deciding)
  /\ approval' = [approval EXCEPT ![r] = made[r]]
  /\ summaryApproval' = [summaryApproval EXCEPT ![r] = made[r]]
  /\ export' = [export EXCEPT ![r] = made[r] = "not_required"]
  /\ summaryExport' = [summaryExport EXCEPT ![r] = made[r] = "not_required"]
  /\ agent' = [agent EXCEPT ![r] = "completing"]
  /\ UNCHANGED <<record, made, cohorts, ledger, request, faults>>

\* update_status(completed) with the result, which is not read back from the
\* history: a decision taken since is not in it.
CompleteJob(r) ==
  /\ agent[r] = "completing"
  /\ job' = [job EXCEPT ![r] = "completed"]
  /\ jobApproval' = [jobApproval EXCEPT ![r] = made[r]]
  /\ jobExport' = [jobExport EXCEPT ![r] = made[r] = "not_required"]
  /\ agent' = [agent EXCEPT ![r] = "done"]
  /\ UNCHANGED <<made, cohorts, history, ledger, request, faults>>

\* Mutant for CompletedJobHasRun: a failed persist_run is not raised.
PersistFailureIgnored(r) ==
  /\ agent[r] \in {"running", "persisting", "completing"}
  /\ faults < MaxFaults
  /\ faults' = faults + 1
  /\ agent' = [agent EXCEPT ![r] =
                 IF @ = "persisting" THEN "completing" ELSE "failing"]
  /\ UNCHANGED <<record, made, cohorts, history, ledger, request>>

\* The agent or a store raises, or persist_run reports "failed", which is
\* raised as AudienceRunHistoryPersistenceError.
JobRaises(r) ==
  /\ agent[r] \in {"running", "persisting", "completing"}
  /\ faults < MaxFaults
  /\ faults' = faults + 1
  /\ agent' = [agent EXCEPT ![r] = "failing"]
  /\ UNCHANGED <<record, made, cohorts, history, ledger, request>>

FailJob(r) ==
  /\ agent[r] = "failing"
  /\ job' = [job EXCEPT ![r] = "failed"]
  /\ agent' = [agent EXCEPT ![r] = "done"]
  /\ UNCHANGED <<jobApproval, jobExport, made, cohorts, history, ledger,
                 request, faults>>

\* A background task dies with its process and nothing restarts it.
JobDies(r) ==
  /\ agent[r] \notin {"none", "done", "dead"}
  /\ faults < MaxFaults
  /\ faults' = faults + 1
  /\ agent' = [agent EXCEPT ![r] = "dead"]
  /\ UNCHANGED <<record, made, cohorts, history, ledger, request>>

----------------------------------------------------------------------------
(* Approval requests.                                                      *)

Return(c) ==
  /\ pc' = [pc EXCEPT ![c] = "idle"]
  /\ run' = [run EXCEPT ![c] = None]
  /\ viaJob' = [viaJob EXCEPT ![c] = FALSE]
  /\ want' = [want EXCEPT ![c] = FALSE]
  /\ used' = [used EXCEPT ![c] = 0]
  /\ reply' = [reply EXCEPT ![c] = "none"]
  /\ seenApproval' = [seenApproval EXCEPT ![c] = "absent"]
  /\ seenExport' = [seenExport EXCEPT ![c] = FALSE]

Goto(c, place) == pc' = [pc EXCEPT ![c] = place]

Request(c, r, job_api, enable) ==
  /\ pc[c] = "idle"
  /\ Goto(c, "deciding")
  /\ run' = [run EXCEPT ![c] = r]
  /\ viaJob' = [viaJob EXCEPT ![c] = job_api]
  /\ want' = [want EXCEPT ![c] = enable]
  /\ UNCHANGED <<record, task, history, ledger, used, reply, seenApproval,
                 seenExport, faults>>

\* approve_job_export: "Only completed jobs can be approved."
ApproveJob(c, r) == job[r] = "completed" /\ Request(c, r, TRUE, TRUE)

\* approve_run of the run-history API, for any run identifier.
ApproveRun(c, r) == \E enable \in BOOLEAN : Request(c, r, FALSE, enable)

\* _decision commits and returns; only the job API goes on.
Decided(c, answer) ==
  IF viaJob[c]
  THEN /\ Goto(c, "rereading")
       /\ reply' = [reply EXCEPT ![c] = answer]
       /\ UNCHANGED <<run, viaJob, want, used, seenApproval, seenExport>>
  ELSE Return(c)

\* Mutant for RejectionSticks: only an approved package is a blocker.
BlockedUnlessUnapproved(r) ==
  summaryApproval[r] \in {"approved", "not_required", "blocked"}

\* _approval_blockers: "Only a clean pending_approval package may move to
\* approved."
HasBlockers(r) == summaryApproval[r] # "pending_approval"

\* The decisions that need no ledger: unknown run; blockers, which overwrite
\* the columns and leave the summary; a blocked or empty run, left as it is.
Decline(c) ==
  /\ pc[c] = "deciding"
  /\ Free(run[c], Deciding)
  /\ LET r == run[c]
     IN  \/ /\ approval[r] = "absent"
            /\ Return(c)
            /\ UNCHANGED columns
         \/ /\ approval[r] # "absent"
            /\ HasBlockers(r)
            /\ approval' = [approval EXCEPT ![r] = "blocked_approval"]
            /\ export' = [export EXCEPT ![r] = FALSE]
            /\ Decided(c, "blocked_approval")
         \/ /\ approval[r] # "absent"
            /\ ~HasBlockers(r)
            /\ approval[r] \in Blocked \/ ~cohorts[r]
            /\ Decided(c, "refused")
            /\ UNCHANGED columns
  /\ UNCHANGED <<record, task, summary, ledger, faults>>

\* The run may be approved: the transaction stays open, its table locked.
BeginCharge(c) ==
  /\ pc[c] = "deciding"
  /\ Free(run[c], Deciding)
  /\ approval[run[c]] \notin Blocked \cup {"absent"}
  /\ ~HasBlockers(run[c])
  /\ cohorts[run[c]]
  /\ Goto(c, "charging")
  /\ UNCHANGED <<record, task, history, ledger, run, viaJob, want, used, reply,
                 seenApproval, seenExport, faults>>

\* check_and_record: a transaction of its own, on another connection.  Spent
\* sums the epsilon of the allowed rows, by counting its units (those of one
\* run as far as they exceed the budget).
Units ==
  {u \in Runs \X (1 .. Budget + 1) : u[2] <= charges[u[1]] * Epsilon[u[1]]}
Spent == Cardinality(Units)

ReadLedger(c) ==
  /\ pc[c] = "charging"
  /\ Free(run[c], Spending)
  /\ used' = [used EXCEPT ![c] = Spent]
  /\ Goto(c, "spending")
  /\ UNCHANGED <<record, task, history, ledger, run, viaJob, want, reply,
                 seenApproval, seenExport, faults>>

WithinBudget(c) == used[c] + Epsilon[run[c]] <= Budget

WriteLedger(c) ==
  /\ pc[c] = "spending"
  /\ IF WithinBudget(c)
     THEN /\ charges' = [charges EXCEPT ![run[c]] = @ + 1]
          /\ Goto(c, "approving")
     ELSE /\ Goto(c, "refusing")
          /\ UNCHANGED charges
  /\ UNCHANGED <<record, task, history, exported, run, viaJob, want, used,
                 reply, seenApproval, seenExport, faults>>

\* Mutant for ApprovalIsCharged: the ledger's decision is not looked at.
ApproveAnyway(c) ==
  /\ pc[c] \in {"approving", "refusing"}
  /\ approval' = [approval EXCEPT ![run[c]] = "approved"]
  /\ export' = [export EXCEPT ![run[c]] = want[c]]
  /\ summaryApproval' = [summaryApproval EXCEPT ![run[c]] = "approved"]
  /\ summaryExport' = [summaryExport EXCEPT ![run[c]] = want[c]]
  /\ Decided(c, "approved")
  /\ UNCHANGED <<record, task, ledger, faults>>

\* The ledger's answer is written to the run and the transaction commits.
RecordDecision(c) ==
  /\ \/ /\ pc[c] = "approving"
        /\ approval' = [approval EXCEPT ![run[c]] = "approved"]
        /\ export' = [export EXCEPT ![run[c]] = want[c]]
        /\ summaryApproval' = [summaryApproval EXCEPT ![run[c]] = "approved"]
        /\ summaryExport' = [summaryExport EXCEPT ![run[c]] = want[c]]
        /\ Decided(c, "approved")
     \/ /\ pc[c] = "refusing"
        /\ approval' = [approval EXCEPT ![run[c]] = "blocked_privacy_budget"]
        /\ export' = [export EXCEPT ![run[c]] = FALSE]
        /\ Decided(c, "blocked_privacy_budget")
        /\ UNCHANGED summary
  /\ UNCHANGED <<record, task, ledger, faults>>

\* approve_job_export reads the run again ...
Reread(c) ==
  /\ pc[c] = "rereading"
  /\ Free(run[c], Deciding)
  /\ seenApproval' = [seenApproval EXCEPT ![c] = approval[run[c]]]
  /\ seenExport' = [seenExport EXCEPT ![c] = export[run[c]]]
  /\ Goto(c, "saving")
  /\ UNCHANGED <<record, task, history, ledger, run, viaJob, want, used, reply,
                 faults>>

\* ... and saves the whole job record it read at the start, with the result of
\* the decision put over what it read.  A refused reply has no approval_status.
SaveJob(c) ==
  /\ pc[c] = "saving"
  /\ LET status == CASE reply[c] = "approved" -> seenApproval[c]
                     [] reply[c] = "refused" -> "blocked_approval"
                     [] OTHER -> reply[c]
     IN  jobApproval' = [jobApproval EXCEPT ![run[c]] = status]
  /\ jobExport' = [jobExport EXCEPT ![run[c]] =
                     reply[c] = "approved" /\ seenExport[c]]
  /\ Return(c)
  /\ UNCHANGED <<job, task, history, ledger, faults>>

----------------------------------------------------------------------------
(* Rejection and export.                                                   *)

RejectRun(c, r) ==
  /\ pc[c] = "idle"
  /\ Free(r, Deciding)
  /\ approval[r] # "absent"
  /\ approval' = [approval EXCEPT ![r] = "rejected"]
  /\ export' = [export EXCEPT ![r] = FALSE]
  /\ summaryApproval' = [summaryApproval EXCEPT ![r] = "rejected"]
  /\ summaryExport' = [summaryExport EXCEPT ![r] = FALSE]
  /\ UNCHANGED <<record, task, ledger, request, faults>>

\* Mutant for ExportedIsCharged: the two export flags are enough.
FlagsAllowExport(r) == export[r] /\ summaryExport[r]

MayExport(r) ==
  /\ approval[r] = "approved" /\ summaryApproval[r] = "approved"
  /\ export[r] /\ summaryExport[r]

\* _export_meta_from_run_history: the run is read in one transaction and the
\* payload is recorded, and returned, after another.
ExportMeta(c, r) ==
  /\ pc[c] = "idle"
  /\ Free(r, Deciding)
  /\ cohorts[r]
  /\ MayExport(r)
  /\ Goto(c, "exporting")
  /\ run' = [run EXCEPT ![c] = r]
  /\ UNCHANGED <<record, task, history, ledger, viaJob, want, used, reply,
                 seenApproval, seenExport, faults>>

RecordExport(c) ==
  /\ pc[c] = "exporting"
  /\ Free(run[c], Deciding)
  /\ exported' = [exported EXCEPT ![run[c]] = TRUE]
  /\ Return(c)
  /\ UNCHANGED <<record, task, history, charges, faults>>

\* The request dies: what it has not committed is rolled back.
RequestDies(c) ==
  /\ pc[c] # "idle"
  /\ faults < MaxFaults
  /\ faults' = faults + 1
  /\ Return(c)
  /\ UNCHANGED <<record, task, history, ledger>>

----------------------------------------------------------------------------
Background(r) ==
  \/ CreateJob(r) \/ StartJob(r) \/ RunAgent(r) \/ PersistRun(r)
  \/ CompleteJob(r) \/ JobRaises(r) \/ FailJob(r) \/ JobDies(r)

Serve(c) ==
  \/ Decline(c) \/ BeginCharge(c) \/ ReadLedger(c) \/ WriteLedger(c)
  \/ RecordDecision(c) \/ Reread(c) \/ SaveJob(c) \/ RecordExport(c)
  \/ RequestDies(c)

Accept(c, r) ==
  ApproveJob(c, r) \/ ApproveRun(c, r) \/ RejectRun(c, r) \/ ExportMeta(c, r)

Next ==
  \/ \E r \in Runs : Background(r)
  \/ \E c \in Clients : Serve(c) \/ \E r \in Runs : Accept(c, r)

Spec == Init /\ [][Next]_vars

----------------------------------------------------------------------------
(* Properties.                                                             *)

\* Every variable has its type.
TypeOK ==
  /\ job \in [Runs -> {"absent", "queued", "running", "completed", "failed"}]
  /\ jobApproval \in [Runs -> Approvals]
  /\ jobExport \in [Runs -> BOOLEAN]
  /\ agent \in [Runs -> {"none", "queued", "running", "persisting",
                         "completing", "failing", "done", "dead"}]
  /\ made \in [Runs -> Made]
  /\ cohorts \in [Runs -> BOOLEAN]
  /\ approval \in [Runs -> Approvals]
  /\ export \in [Runs -> BOOLEAN]
  /\ summaryApproval \in [Runs -> Made \cup {"absent", "approved", "rejected"}]
  /\ summaryExport \in [Runs -> BOOLEAN]
  /\ charges \in [Runs -> Nat]
  /\ exported \in [Runs -> BOOLEAN]
  /\ pc \in [Clients -> {"idle", "deciding", "rereading", "saving", "exporting"}
                        \cup Deciding]
  /\ run \in [Clients -> Runs \cup {None}]
  /\ viaJob \in [Clients -> BOOLEAN]
  /\ want \in [Clients -> BOOLEAN]
  /\ used \in [Clients -> Nat]
  /\ reply \in [Clients -> Replies]
  /\ seenApproval \in [Clients -> Approvals]
  /\ seenExport \in [Clients -> BOOLEAN]
  /\ faults \in 0 .. MaxFaults

\* "If used_epsilon + requested_epsilon > max_budget, block the
\* release/export": approvals of different runs of one scope, served at once,
\* never spend more than its budget, though the sum is read before the row is
\* inserted.  privacy_budget_ledger_service.py, check_and_record.
BudgetKept == Spent <= Budget

\* "Every approved export spends epsilon": wherever a run is recorded as
\* approved, in the history or in its job record, it has been charged, however
\* requests interleave and die.
\* audience_run_history_service.py, _privacy_budget_request_for_run.
ApprovalIsCharged ==
  \A r \in Runs :
    approval[r] = "approved" \/ jobApproval[r] = "approved" => charges[r] > 0

\* "Approved run and enabled downstream export are both required": a payload is
\* only ever generated for a run whose epsilon was spent, also when the run is
\* decided again between its read and the payload.
\* audience_intelligence_modules.py, _export_meta_from_run_history.
ExportedIsCharged == \A r \in Runs : exported[r] => charges[r] > 0

\* "Async jobs must persist their completed run before they can be approved": a
\* completed job has a row in the run history.
\* audience_intelligence_jobs.py, _run_job_background.
CompletedJobHasRun ==
  \A r \in Runs : job[r] = "completed" => approval[r] # "absent"

\* A rejection is final for the export: the run is never approved or enabled
\* again, whatever approvals were on their way or follow.
\* audience_run_history_service.py, _approval_blockers and _decision.
RejectionSticks ==
  [][\A r \in Runs :
       summaryApproval[r] = "rejected" =>
         /\ summaryApproval'[r] = "rejected"
         /\ approval'[r] # "approved"
         /\ ~export'[r]]_vars

\* A claim the code does not keep.  "Prevent repeat approval and repeat
\* privacy-budget spending": a run is charged at most once.
\* audience_run_history_service.py, _approval_blockers.
ChargedOnce == \A r \in Runs : charges[r] <= 1
=============================================================================
