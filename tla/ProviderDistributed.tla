-------------------------- MODULE ProviderDistributed --------------------------
(***************************************************************************)
(* One provider object that is too large for the worker process: the       *)
(* messages about it, the object gateway that dispatches it, the Step      *)
(* Functions executions this starts, the control plane invocations they    *)
(* make and the reconciliation that closes what they leave behind.         *)
(*                                                                         *)
(*   ingest_object, _dispatch_distributed   Claim ... UpdateRow            *)
(*   submit_or_get                          Submit                         *)
(*   provider_distributed_processing.asl    Invoke, GlueEnds, Return       *)
(*   prepare, finalize, fail                the actions of an invocation   *)
(*   reconcile                              List, Describe, Reconcile...   *)
(*                                                                         *)
(* All of them meet in one row of provider_ingestion_objects, which no     *)
(* transition() locks between its SELECT and its UPDATE, and in the        *)
(* privacy release of each dispatch attempt.  How the budget decides is    *)
(* PrivacyBudget, how a window is completed PrivacyWindow: here the one    *)
(* decides either way and the other takes a partition or refuses it.       *)
(***************************************************************************)
EXTENDS Naturals, FiniteSets, ProviderIngestionState

CONSTANTS
  Messages,     \* queue messages about the object: duplicate notifications
  Invocations,  \* control plane Lambda invocations that run at a time
  Outcomes,     \* how a Glue run that does not fail may end
  MaxAttempts,  \* bound: attempt_count when the object is dispatched
  MaxFaults,    \* bound: deaths, failed calls, lost start receipts, and
                \* executions that stop waiting for what they started
  None

ASSUME ConstantsAssumption ==
  /\ Outcomes \subseteq {"completed", "blocked", "quarantined"}
  /\ MaxAttempts \in Nat \ {0}
  /\ MaxFaults \in Nat
  /\ None \notin Nat
  /\ None \notin Invocations
  /\ None \notin {"release", "run"} \X Nat

\* The dispatch attempt numbers the execution, its release and its Glue run.
Executions == 1 .. MaxAttempts

VARIABLES
  status,       \* the row: status ("none" before it is claimed)
  attempts,     \*   attempt_count
  distributed,  \*   metadata.execution_mode = "distributed"
  arn,          \*   metadata.distributed_job_id: an execution, or None
  job,          \*   privacy_job_id: a release, a Glue run, or None
  ref,          \*   canonical_ref: the Glue run whose output it names
  mpc,          \* where the handling of each message is
  mseen,        \* the row its open transition() has read, or None
  mattempt,     \* the dispatch attempt it submits
  exec,         \* the state each execution is in
  awaited,      \* the invocation it waits for, or None
  run,          \* the Glue run of the execution
  result,       \* result.json, one object for all attempts: [by, status]
  decision,     \* provider_privacy_releases.decision, by dispatch attempt
  release,      \*   status
  output,       \*   canonical_ref
  why,          \*   reason_code
  partition,    \* the window's partition: [status, ref, paid]
  ipc,          \* where each invocation is
  iexec,        \* the execution it was started for
  path,         \* the course it is on
  iseen,        \* what its open read-then-update has read, or None
  iresult,      \* the result it loaded
  rpc,          \* where reconcile() is
  rrow,         \* the row it listed
  rseen,        \* what its open read-then-update has read, or None
  faults,
  late          \* has an execution stopped waiting for what it started

row     == <<status, attempts, distributed, arn, job, ref>>
queue   == <<mpc, mseen, mattempt>>
machine == <<exec, awaited, run, result>>
ledger  == <<decision, release, output, why>>
lambda  == <<ipc, iexec, path, iseen, iresult>>
recon   == <<rpc, rrow, rseen>>
bounds  == <<faults, late>>
vars    == <<row, queue, machine, ledger, partition, lambda, recon, bounds>>

ReleaseOf(e) == <<"release", e>>
RunOf(e)     == <<"run", e>>
Jobs         == {"release", "run"} \X Executions

\* What transition() reads of the row and decides on, or writes back.
SeenRow == [status : Statuses, distributed : BOOLEAN,
            arn : Executions \cup {None}]
RowNow  == [status |-> status, distributed |-> distributed, arn |-> arn]

TerminalRows     == {"completed", "blocked", "quarantined", "failed"}
TerminalReleases == {"completed", "blocked", "failed"}
Reasons          == {"budget", "window", "staging", "manifest", "job",
                     "execution", "callback", "receipt"}

MessageSteps    == {"receiving", "dispatching", "dispatched", "failing",
                    "excepting"}
MessagePcs      == MessageSteps \cup {"queued", "planned", "submitting", "done"}
PreparePaths    == {"prepare", "blocked", "window", "staging", "start"}
FinalizePaths   == {"finalize", "manifest", "result"}
Paths           == PreparePaths \cup FinalizePaths \cup {"failure"}
InvocationPcs   == {"free", "reserve", "register", "stage", "load", "verify",
                    "release", "settle", "get", "move", "publish", "annotate",
                    "note"}
LambdaStates    == {"prepare", "finalize", "fail"}
LiveExecutions  == LambdaStates \cup {"glue"}

Results == [by : Executions, status : TerminalRows]

ASSUME ResultsAssumption == None \notin Results

RowTyped ==
  /\ status \in Statuses \cup {"none"}
  /\ attempts \in Nat
  /\ distributed \in BOOLEAN
  /\ arn \in Executions \cup {None}
  /\ job \in Jobs \cup {None}
  /\ ref \in Executions \cup {None}

QueueTyped ==
  /\ mpc \in [Messages -> MessagePcs]
  /\ mseen \in [Messages -> SeenRow \cup {None}]
  /\ mattempt \in [Messages -> 0 .. MaxAttempts]

MachineTyped ==
  /\ exec \in [Executions -> LiveExecutions \cup {"none", "succeeded", "failed"}]
  /\ awaited \in [Executions -> Invocations \cup {None}]
  /\ run \in [Executions -> TerminalRows \cup {"none", "running"}]
  /\ result \in Results \cup {None}

LedgerTyped ==
  /\ decision \in [Executions -> {"none", "allowed", "blocked"}]
  /\ release \in [Executions -> TerminalReleases \cup {"none", "reserved"}]
  /\ output \in [Executions -> Executions \cup {None}]
  /\ why \in [Executions -> Reasons \cup {None}]

LambdaTyped ==
  /\ ipc \in [Invocations -> InvocationPcs]
  /\ iexec \in [Invocations -> Executions \cup {None}]
  /\ path \in [Invocations -> Paths \cup {None}]
  /\ iseen \in [Invocations -> SeenRow \cup {None}]
  /\ iresult \in [Invocations -> Results \cup {None}]

ReconTyped ==
  /\ rpc \in {"idle", "listed", "release", "settle", "row"}
  /\ rrow \in [arn : Executions \cup {None}, job : Jobs \cup {None},
               why : Reasons \cup {None}]
  /\ rseen \in SeenRow \cup {None}

TypeOK ==
  /\ RowTyped
  /\ QueueTyped
  /\ MachineTyped
  /\ LedgerTyped
  /\ partition \in [status : {"none", "registered", "ready"},
                    ref : Executions \cup {None}, paid : Executions \cup {None}]
  /\ LambdaTyped
  /\ ReconTyped
  /\ faults \in 0 .. MaxFaults
  /\ late \in BOOLEAN

Nothing == [arn |-> None, job |-> None, why |-> None]

Init ==
  /\ status = "none" /\ attempts = 0 /\ distributed = FALSE
  /\ arn = None /\ job = None /\ ref = None
  /\ mpc = [m \in Messages |-> "queued"]
  /\ mseen = [m \in Messages |-> None]
  /\ mattempt = [m \in Messages |-> 0]
  /\ exec = [e \in Executions |-> "none"]
  /\ awaited = [e \in Executions |-> None]
  /\ run = [e \in Executions |-> "none"]
  /\ result = None
  /\ decision = [e \in Executions |-> "none"]
  /\ release = [e \in Executions |-> "none"]
  /\ output = [e \in Executions |-> None]
  /\ why = [e \in Executions |-> None]
  /\ partition = [status |-> "none", ref |-> None, paid |-> None]
  /\ ipc = [i \in Invocations |-> "free"]
  /\ iexec = [i \in Invocations |-> None]
  /\ path = [i \in Invocations |-> None]
  /\ iseen = [i \in Invocations |-> None]
  /\ iresult = [i \in Invocations |-> None]
  /\ rpc = "idle" /\ rrow = Nothing /\ rseen = None
  /\ faults = 0 /\ late = FALSE

Fault   == faults < MaxFaults /\ faults' = faults + 1
Faulty  == Fault /\ UNCHANGED late
Late    == Fault /\ late' = TRUE
NoFault == UNCHANGED bounds

----------------------------------------------------------------------------
\* transition(): the UPDATE writes back the metadata it has read, with what
\* the caller adds to it; privacy_job_id and canonical_ref keep their value
\* where the caller gives none (COALESCE).
UpdateRow(seen, to, increment, inMode, newArn, newJob, newRef) ==
  /\ status' = to
  /\ attempts' = attempts + increment
  /\ distributed' = (seen.distributed \/ inMode)
  /\ arn' = IF newArn = None THEN seen.arn ELSE newArn
  /\ job' = IF newJob = None THEN job ELSE newJob
  /\ ref' = IF newRef = None THEN ref ELSE newRef

----------------------------------------------------------------------------
\* The worker and the gateway.

MGoto(m, label) == mpc' = [mpc EXCEPT ![m] = label]

\* The message is returned to the queue, or goes to the dead-letter queue when
\* its reason is not retryable or it was received too often.
MRetry(m) == MGoto(m, "queued") \/ MGoto(m, "done")

\* claim_object, and the early returns of ingest_object.  The guard on
\* attempts is a bound.
Claim(m) ==
  /\ mpc[m] = "queued"
  /\ \/ status = "none" /\ status' = "received" /\ MGoto(m, "receiving")
     \/ /\ status = "failed" /\ attempts < MaxAttempts
        /\ MGoto(m, "receiving")
        /\ UNCHANGED status
     \/ status = "dispatching" /\ MGoto(m, "planned") /\ UNCHANGED status
     \/ /\ status \in {"dispatched", "completed", "blocked", "quarantined"}
        /\ MGoto(m, "done")
        /\ UNCHANGED status
     \/ /\ status \in {"received", "validating", "processing"}
        /\ MRetry(m)
        /\ UNCHANGED status
  /\ NoFault
  /\ UNCHANGED <<attempts, distributed, arn, job, ref, mseen, mattempt,
                 machine, ledger, partition, lambda, recon>>

\* The first get() of _dispatch_distributed.  The RuntimeError for any other
\* status reaches the except clause of ingest_object.
Plan(m) ==
  /\ mpc[m] = "planned"
  /\ MGoto(m, CASE status = "validating"  -> "dispatching"
                [] status = "dispatching" -> "submitting"
                [] OTHER                  -> "excepting")
  /\ mattempt' = [mattempt EXCEPT ![m] = IF status = "dispatching"
                                          THEN attempts ELSE 0]
  /\ NoFault
  /\ UNCHANGED <<row, mseen, machine, ledger, partition, lambda, recon>>

Target(label) == CASE label = "receiving"   -> "validating"
                   [] label = "dispatching" -> "dispatching"
                   [] label = "dispatched"  -> "dispatched"
                   [] label \in {"failing", "excepting"} -> "failed"

\* transition() reads the row.  A transition it refuses raises, out of the
\* gateway or into its except clause.
SelectForMessage(m) ==
  /\ mpc[m] \in MessageSteps /\ mseen[m] = None
  /\ \/ /\ MayTransition(status, Target(mpc[m]))
        /\ mseen' = [mseen EXCEPT ![m] = RowNow]
        /\ UNCHANGED <<mpc, mattempt>>
     \/ /\ ~MayTransition(status, Target(mpc[m]))
        /\ IF mpc[m] \in {"receiving", "excepting"} THEN MRetry(m)
                                                    ELSE MGoto(m, "excepting")
        /\ mattempt' = [mattempt EXCEPT ![m] = 0]
        /\ UNCHANGED mseen
  /\ NoFault
  /\ UNCHANGED <<row, machine, ledger, partition, lambda, recon>>

UpdateForMessage(m) ==
  LET dispatching == mpc[m] = "dispatching"
  IN  /\ mpc[m] \in MessageSteps /\ mseen[m] # None
      /\ dispatching => attempts < MaxAttempts
      /\ UpdateRow(mseen[m], Target(mpc[m]), IF dispatching THEN 1 ELSE 0,
                   mpc[m] \in {"dispatching", "dispatched", "failing"},
                   IF mpc[m] = "dispatched" THEN mattempt[m] ELSE None,
                   None, None)
      /\ mseen' = [mseen EXCEPT ![m] = None]
      /\ mattempt' = [mattempt EXCEPT ![m] = IF dispatching THEN attempts + 1
                                                             ELSE 0]
      /\ CASE mpc[m] = "receiving"   -> MGoto(m, "planned")
           [] mpc[m] = "dispatching" -> MGoto(m, "submitting")
           [] mpc[m] = "dispatched"  -> MGoto(m, "done")
           [] mpc[m] \in {"failing", "excepting"} -> MRetry(m)
      /\ NoFault
      /\ UNCHANGED <<machine, ledger, partition, lambda, recon>>

\* StartExecution under a name made of the fingerprint and the attempt.
Start(e) == exec' = [exec EXCEPT ![e] = "prepare"]

Submit(m) ==
  LET e == mattempt[m]
  IN  /\ mpc[m] = "submitting"
      /\ \/ exec[e] = "none" /\ Start(e) /\ MGoto(m, "dispatched") /\ NoFault
         \/ exec[e] # "none" /\ UNCHANGED exec /\ MGoto(m, "dispatched") /\ NoFault
         \/ UNCHANGED exec /\ MGoto(m, "failing") /\ NoFault
         \/ exec[e] = "none" /\ Start(e) /\ MGoto(m, "failing") /\ Faulty
      /\ mattempt' = [mattempt EXCEPT ![m] = IF mpc'[m] = "dispatched"
                                              THEN e ELSE 0]
      /\ UNCHANGED <<row, mseen, awaited, run, result, ledger, partition,
                     lambda, recon>>

\* The worker dies: the message becomes visible again.
WorkerDies(m) ==
  /\ mpc[m] \notin {"queued", "done"}
  /\ Faulty
  /\ MGoto(m, "queued")
  /\ mseen' = [mseen EXCEPT ![m] = None]
  /\ mattempt' = [mattempt EXCEPT ![m] = 0]
  /\ UNCHANGED <<row, machine, ledger, partition, lambda, recon>>

\* recover_stale_in_progress: the row was not touched for longer than any
\* worker holds a message.
RecoverStale ==
  /\ status \in Recoverable /\ ~distributed
  /\ \A m \in Messages : mpc[m] \in {"queued", "done"}
  /\ status' = "failed"
  /\ NoFault
  /\ UNCHANGED <<attempts, distributed, arn, job, ref, queue, machine, ledger,
                 partition, lambda, recon>>

----------------------------------------------------------------------------
\* The state machine.

\* Mutant: fail() closes the row and not the release.
InvokeWithoutRelease(e, i) ==
  /\ exec[e] \in LambdaStates /\ awaited[e] = None
  /\ ipc[i] = "free"
  /\ awaited' = [awaited EXCEPT ![e] = i]
  /\ iexec' = [iexec EXCEPT ![i] = e]
  /\ ipc' = [ipc EXCEPT ![i] = CASE exec[e] = "prepare"  -> "reserve"
                                 [] exec[e] = "finalize" -> "load"
                                 [] exec[e] = "fail"     -> "get"]
  /\ path' = [path EXCEPT ![i] = CASE exec[e] = "prepare"  -> "prepare"
                                   [] exec[e] = "finalize" -> "finalize"
                                   [] exec[e] = "fail"     -> "failure"]
  /\ NoFault
  /\ UNCHANGED <<row, queue, exec, run, result, ledger, partition, iseen,
                 iresult, recon>>

\* A task invokes the Lambda, for the first time or again after an error of
\* the Lambda service.
Invoke(e, i) ==
  /\ exec[e] \in LambdaStates /\ awaited[e] = None
  /\ ipc[i] = "free"
  /\ awaited' = [awaited EXCEPT ![e] = i]
  /\ iexec' = [iexec EXCEPT ![i] = e]
  /\ ipc' = [ipc EXCEPT ![i] = CASE exec[e] = "prepare"  -> "reserve"
                                 [] exec[e] = "finalize" -> "load"
                                 [] exec[e] = "fail"     -> "release"]
  /\ path' = [path EXCEPT ![i] = CASE exec[e] = "prepare"  -> "prepare"
                                   [] exec[e] = "finalize" -> "finalize"
                                   [] exec[e] = "fail"     -> "failure"]
  /\ NoFault
  /\ UNCHANGED <<row, queue, exec, run, result, ledger, partition, iseen,
                 iresult, recon>>

\* An invocation ends; only the one the execution waits for moves it on.
Ends(i, to) ==
  LET e == iexec[i]
  IN  /\ exec' = IF awaited[e] = i THEN [exec EXCEPT ![e] = to] ELSE exec
      /\ awaited' = IF awaited[e] = i THEN [awaited EXCEPT ![e] = None]
                                      ELSE awaited
      /\ run' = IF awaited[e] = i /\ to = "glue"
                THEN [run EXCEPT ![e] = "running"] ELSE run
      /\ ipc' = [ipc EXCEPT ![i] = "free"]
      /\ iexec' = [iexec EXCEPT ![i] = None]
      /\ path' = [path EXCEPT ![i] = None]
      /\ iseen' = [iseen EXCEPT ![i] = None]
      /\ iresult' = [iresult EXCEPT ![i] = None]

Raises(i) == Ends(i, "failed")

\* What the execution does with the answer of an invocation that is through.
Returns(i) == CASE path[i] = "start" -> Ends(i, "glue")
                [] path[i] \in {"window", "staging"} -> Raises(i)
                [] OTHER -> Ends(i, "succeeded")

\* The Glue run of e ends and has written its result, whether the execution
\* still waits for it or not; one that failed may have died before that.
GlueEnds(e) ==
  /\ run[e] = "running"
  /\ \E s \in Outcomes \cup {"failed"} :
       /\ run' = [run EXCEPT ![e] = s]
       /\ \/ result' = [by |-> e, status |-> s]
          \/ s = "failed" /\ UNCHANGED result
       /\ exec' = IF exec[e] # "glue" THEN exec
                  ELSE [exec EXCEPT ![e] = IF s = "failed" THEN "fail"
                                                           ELSE "finalize"]
  /\ NoFault
  /\ UNCHANGED <<row, queue, awaited, ledger, partition, lambda, recon>>

\* The invocation dies; its task retries.
InvocationDies(i) ==
  /\ ipc[i] # "free"
  /\ Faulty
  /\ Ends(i, exec[iexec[i]])
  /\ UNCHANGED <<row, queue, result, ledger, partition, recon>>

\* The task loses contact with the invocation and retries while it still runs.
LosesContact(e) ==
  /\ awaited[e] # None
  /\ Late
  /\ awaited' = [awaited EXCEPT ![e] = None]
  /\ UNCHANGED <<row, queue, exec, run, result, ledger, partition, lambda, recon>>

\* The execution is aborted, or its retries are exhausted.
Aborts(e) ==
  /\ exec[e] \in LiveExecutions
  /\ Late
  /\ exec' = [exec EXCEPT ![e] = "failed"]
  /\ awaited' = [awaited EXCEPT ![e] = None]
  /\ UNCHANGED <<row, queue, run, result, ledger, partition, lambda, recon>>

----------------------------------------------------------------------------
\* The control plane: what every course is made of.

IGoto(i, label) == ipc' = [ipc EXCEPT ![i] = label]
ITakes(i, course, label) ==
  IGoto(i, label) /\ path' = [path EXCEPT ![i] = course]

\* mark_terminal's arguments.
ReleaseStatus(i) ==
  IF path[i] # "result" THEN "failed"
  ELSE CASE iresult[i].status = "completed" -> "completed"
         [] iresult[i].status = "blocked"   -> "blocked"
         [] OTHER                           -> "failed"
OutputRef(i) == IF path[i] = "result" /\ iresult[i].status = "completed"
                THEN iresult[i].by ELSE None
Why(i) == CASE path[i] = "failure" -> "execution"
            [] path[i] = "result"  -> IF OutputRef(i) = None THEN "job" ELSE None
            [] OTHER               -> path[i]

\* Mutants: a Glue job that ended is a Glue job that completed; the row names
\* the Glue run from the start.
RowStatusOptimistic(i) == CASE path[i] = "blocked" -> "blocked"
                            [] path[i] = "staging" -> "quarantined"
                            [] path[i] = "start"   -> "processing"
                            [] path[i] \in {"manifest", "failure"} -> "failed"
                            [] path[i] = "result"  -> "completed"

RowJobOfRun(i) ==
  IF path[i] \in {"start", "manifest", "result"} THEN RunOf(iexec[i])
  ELSE ReleaseOf(iexec[i])

\* The result completion.finalize() is given, or what mark_processing writes.
RowStatus(i) == CASE path[i] = "blocked" -> "blocked"
                  [] path[i] = "staging" -> "quarantined"
                  [] path[i] = "start"   -> "processing"
                  [] path[i] \in {"manifest", "failure"} -> "failed"
                  [] path[i] = "result"  -> iresult[i].status
RowJob(i) == IF path[i] \in {"manifest", "result"} THEN RunOf(iresult[i].by)
             ELSE ReleaseOf(iexec[i])

SetRelease(e, s, o, w) ==
  /\ release' = [release EXCEPT ![e] = s]
  /\ output' = [output EXCEPT ![e] = o]
  /\ why' = [why EXCEPT ![e] = w]

AfterRelease(i) == IF path[i] = "window" THEN Returns(i)
                   ELSE /\ IGoto(i, "get")
                        /\ UNCHANGED <<exec, awaited, run, iexec, path, iseen,
                                       iresult>>

\* mark_terminal reads the release: a replay returns, a terminal release that
\* differs raises.
SelectRelease(i) ==
  LET e == iexec[i]
  IN  /\ ipc[i] = "release"
      /\ \/ /\ release[e] = "reserved"
            /\ IGoto(i, "settle")
            /\ UNCHANGED <<exec, awaited, run, iexec, path, iseen, iresult>>
         \/ /\ release[e] # "reserved"
            /\ IF <<release[e], output[e], why[e]>>
                    = <<ReleaseStatus(i), OutputRef(i), Why(i)>>
               THEN AfterRelease(i) ELSE Raises(i)
      /\ NoFault
      /\ UNCHANGED <<row, queue, result, ledger, partition, recon>>

\* UPDATE ... WHERE status = 'reserved', and return whatever is there.
UpdateRelease(i) ==
  LET e == iexec[i]
  IN  /\ ipc[i] = "settle"
      /\ IF release[e] = "reserved"
         THEN SetRelease(e, ReleaseStatus(i), OutputRef(i), Why(i))
         ELSE UNCHANGED <<release, output, why>>
      /\ AfterRelease(i)
      /\ NoFault
      /\ UNCHANGED <<row, queue, result, decision, partition, recon>>

AfterRow(i) ==
  IF path[i] = "result"
  THEN /\ IGoto(i, IF iresult[i].status = "completed" THEN "publish"
                                                      ELSE "annotate")
       /\ iseen' = [iseen EXCEPT ![i] = None]
       /\ UNCHANGED <<exec, awaited, run, iexec, path, iresult>>
  ELSE Returns(i)

\* The record mark_processing and completion.finalize() validate.
IsReplay(i) == /\ status = RowStatus(i)
               /\ path[i] = "start" \/ (job = RowJob(i) /\ ref = OutputRef(i))

GetRow(i) ==
  /\ ipc[i] = "get"
  /\ \/ IsReplay(i) /\ AfterRow(i)
     \/ /\ ~IsReplay(i)
        /\ IF status \in IF path[i] = "start" THEN {"dispatched"}
                         ELSE {"dispatched", "processing"}
           THEN /\ IGoto(i, "move")
                /\ UNCHANGED <<exec, awaited, run, iexec, path, iseen, iresult>>
           ELSE Raises(i)
  /\ NoFault
  /\ UNCHANGED <<row, queue, result, ledger, partition, recon>>

SelectForInvocation(i) ==
  /\ ipc[i] = "move" /\ iseen[i] = None
  /\ IF MayTransition(status, RowStatus(i))
     THEN /\ iseen' = [iseen EXCEPT ![i] = RowNow]
          /\ UNCHANGED <<exec, awaited, run, ipc, iexec, path, iresult>>
     ELSE Raises(i)
  /\ NoFault
  /\ UNCHANGED <<row, queue, result, ledger, partition, recon>>

UpdateForInvocation(i) ==
  /\ ipc[i] = "move" /\ iseen[i] # None
  /\ UpdateRow(iseen[i], RowStatus(i), IF path[i] = "start" THEN 1 ELSE 0, FALSE,
               None, RowJob(i), OutputRef(i))
  /\ AfterRow(i)
  /\ NoFault
  /\ UNCHANGED <<queue, result, ledger, partition, recon>>

----------------------------------------------------------------------------
\* prepare().

\* Mutant: prepare() does not look at the decision.
ReserveUnread(i) ==
  LET e == iexec[i]
  IN  /\ ipc[i] = "reserve"
      /\ IF decision[e] = "none"
         THEN \/ /\ decision' = [decision EXCEPT ![e] = "allowed"]
                 /\ SetRelease(e, "reserved", None, None)
              \/ /\ decision' = [decision EXCEPT ![e] = "blocked"]
                 /\ SetRelease(e, "blocked", None, "budget")
         ELSE UNCHANGED ledger
      /\ ITakes(i, "prepare", "register")
      /\ NoFault
      /\ UNCHANGED <<row, queue, machine, partition, iexec, iseen, iresult, recon>>

Reserve(i) ==
  LET e == iexec[i]
      decide(d) == /\ decision' = [decision EXCEPT ![e] = d]
                   /\ IF d = "allowed"
                      THEN SetRelease(e, "reserved", None, None)
                      ELSE SetRelease(e, "blocked", None, "budget")
  IN  /\ ipc[i] = "reserve"
      /\ IF decision[e] = "none" THEN \E d \in {"allowed", "blocked"} : decide(d)
                                 ELSE UNCHANGED ledger
      /\ IF decision'[e] = "allowed" THEN ITakes(i, "prepare", "register")
                                     ELSE ITakes(i, "blocked", "get")
      /\ NoFault
      /\ UNCHANGED <<row, queue, machine, partition, iexec, iseen, iresult, recon>>

\* register_partition replays a fingerprint it has; it may refuse the window.
Register(i) ==
  /\ ipc[i] = "register"
  /\ \/ /\ partition' = IF partition.status = "none"
                        THEN [partition EXCEPT !.status = "registered"]
                        ELSE partition
        /\ ITakes(i, "prepare", "stage")
     \/ UNCHANGED partition /\ ITakes(i, "window", "release")
  /\ NoFault
  /\ UNCHANGED <<row, queue, machine, ledger, iexec, iseen, iresult, recon>>

\* The exact version is copied and its checksum verified, or not.
Stage(i) ==
  /\ ipc[i] = "stage"
  /\ ITakes(i, "start", "get") \/ ITakes(i, "staging", "release")
  /\ NoFault
  /\ UNCHANGED <<row, queue, machine, ledger, partition, iexec, iseen, iresult,
                 recon>>

\* finalize().  _load_result reads the key of the fingerprint.
Load(i) ==
  /\ ipc[i] = "load"
  /\ iresult' = [iresult EXCEPT ![i] = result]
  /\ IF result.status = "completed" THEN IGoto(i, "verify") /\ UNCHANGED path
                                    ELSE ITakes(i, "result", "release")
  /\ NoFault
  /\ UNCHANGED <<row, queue, machine, ledger, partition, iexec, iseen, recon>>

\* The manifest of that result matches, or does not or cannot be read.
Verify(i) ==
  /\ ipc[i] = "verify"
  /\ ITakes(i, "result", "release") \/ ITakes(i, "manifest", "release")
  /\ NoFault
  /\ UNCHANGED <<row, queue, machine, ledger, partition, iexec, iseen, iresult,
                 recon>>

\* mark_partition_ready: a partition that is ready is replayed or cannot be
\* replaced; the window may be revoked, the partition superseded.  The primary
\* key of the candidate it inserts makes it atomic.
Publish(i) ==
  /\ ipc[i] = "publish"
  /\ LET mine == [status |-> "ready", ref |-> iresult[i].by, paid |-> iexec[i]]
     IN  \/ /\ partition.status = "registered" \/ partition = mine
            /\ partition' = mine
            /\ IGoto(i, "annotate")
            /\ UNCHANGED <<exec, awaited, run, iexec, path, iseen, iresult>>
         \/ UNCHANGED partition /\ Raises(i)
  /\ NoFault
  /\ UNCHANGED <<row, queue, result, ledger, recon>>

\* annotate_terminal_metadata writes the status it got back.
GetToAnnotate(i) ==
  /\ ipc[i] = "annotate"
  /\ IF status \in TerminalRows
     THEN /\ iseen' = [iseen EXCEPT ![i] = RowNow]
          /\ IGoto(i, "note")
          /\ UNCHANGED <<exec, awaited, run, iexec, path, iresult>>
     ELSE Raises(i)
  /\ NoFault
  /\ UNCHANGED <<row, queue, result, ledger, partition, recon>>

\* The SELECT and the UPDATE of that transition() in one step.
Annotate(i) ==
  /\ ipc[i] = "note"
  /\ IF MayTransition(status, iseen[i].status)
     THEN /\ UpdateRow(RowNow, iseen[i].status, 0, FALSE, None, None, None)
          /\ Returns(i)
     ELSE UNCHANGED row /\ Raises(i)
  /\ NoFault
  /\ UNCHANGED <<queue, result, ledger, partition, recon>>

----------------------------------------------------------------------------
\* reconcile().

\* Mutant: only processing rows are listed.
ListProcessing ==
  /\ rpc = "idle"
  /\ status = "processing" /\ distributed
  /\ rpc' = "listed"
  /\ rrow' = [arn |-> arn, job |-> job, why |-> None]
  /\ NoFault
  /\ UNCHANGED <<row, queue, machine, ledger, partition, lambda, rseen>>

List ==
  /\ rpc = "idle"
  /\ status \in {"dispatched", "processing"} /\ distributed
  /\ rpc' = "listed"
  /\ rrow' = [arn |-> arn, job |-> job, why |-> None]
  /\ NoFault
  /\ UNCHANGED <<row, queue, machine, ledger, partition, lambda, rseen>>

RStops == rpc' = "idle" /\ rrow' = Nothing /\ rseen' = None

\* describe_execution: a live execution is left alone, as is one whose status
\* cannot be had.
Describe ==
  /\ rpc = "listed"
  /\ \/ /\ rrow.arn # None
        /\ \/ exec[rrow.arn] \in LiveExecutions /\ NoFault
           \/ Faulty
        /\ RStops
     \/ /\ rrow.arn # None => exec[rrow.arn] \notin LiveExecutions
        /\ rrow' = [rrow EXCEPT !.why =
                      CASE rrow.arn = None -> "receipt"
                        [] exec[rrow.arn] = "succeeded" -> "callback"
                        [] OTHER -> "execution"]
        /\ rpc' = IF rrow.job # None /\ rrow.job[1] = "release"
                  THEN "release" ELSE "row"
        /\ NoFault
        /\ UNCHANGED rseen
  /\ UNCHANGED <<row, queue, machine, ledger, partition, lambda>>

\* mark_terminal, its errors swallowed.
ReconcileRelease ==
  LET e == rrow.job[2]
  IN  /\ \/ /\ rpc = "release"
            /\ rpc' = IF release[e] = "reserved" THEN "settle" ELSE "row"
            /\ UNCHANGED ledger
         \/ /\ rpc = "settle"
            /\ rpc' = "row"
            /\ IF release[e] = "reserved"
               THEN SetRelease(e, "failed", None, rrow.why)
               ELSE UNCHANGED <<release, output, why>>
            /\ UNCHANGED decision
      /\ NoFault
      /\ UNCHANGED <<row, queue, machine, partition, lambda, rrow, rseen>>

\* A row that is final by now makes transition() raise, out of reconcile().
ReconcileRow ==
  /\ rpc = "row"
  /\ \/ /\ rseen = None /\ MayTransition(status, "failed")
        /\ rseen' = RowNow
        /\ UNCHANGED <<row, rpc, rrow>>
     \/ /\ rseen = None /\ ~MayTransition(status, "failed")
        /\ RStops
        /\ UNCHANGED row
     \/ /\ rseen # None
        /\ UpdateRow(rseen, "failed", 0, FALSE, None, None, None)
        /\ RStops
  /\ NoFault
  /\ UNCHANGED <<queue, machine, ledger, partition, lambda>>

----------------------------------------------------------------------------
Handle(m) == \/ Claim(m)
             \/ Plan(m)
             \/ SelectForMessage(m)
             \/ UpdateForMessage(m)
             \/ Submit(m)

Advance(i) == \/ SelectRelease(i)
              \/ UpdateRelease(i)
              \/ GetRow(i)
              \/ SelectForInvocation(i)
              \/ UpdateForInvocation(i)
              \/ Reserve(i)
              \/ Register(i)
              \/ Stage(i)
              \/ Load(i)
              \/ Verify(i)
              \/ Publish(i)
              \/ GetToAnnotate(i)
              \/ Annotate(i)

Reconcile == List \/ Describe \/ ReconcileRelease \/ ReconcileRow

Next == \/ \E m \in Messages : Handle(m) \/ WorkerDies(m)
        \/ RecoverStale
        \/ \E e \in Executions : \/ \E i \in Invocations : Invoke(e, i)
                                 \/ GlueEnds(e)
                                 \/ LosesContact(e)
                                 \/ Aborts(e)
        \/ \E i \in Invocations : Advance(i) \/ InvocationDies(i)
        \/ Reconcile

Spec == Init /\ [][Next]_vars

\* Step Functions and Lambda carry on, a worker finishes the message it holds,
\* a Glue run ends and reconcile() is on a schedule.  Nothing makes a message
\* arrive, and stale recovery runs only with the worker.
FairSpec ==
  /\ Spec
  /\ \A m \in Messages : WF_vars(Handle(m))
  /\ \A i \in Invocations : WF_vars(Advance(i))
  /\ \A e \in Executions : /\ WF_vars(\E i \in Invocations : Invoke(e, i))
                           /\ WF_vars(GlueEnds(e))
  /\ WF_vars(Reconcile)

----------------------------------------------------------------------------
\* Properties.

\* Reservation comes before disclosure: whatever is retried, replayed or
\* aborted in prepare(), no Glue run reads the data of an attempt whose release
\* was not charged.
RunIsCharged ==
  \A e \in Executions : run[e] # "none" => decision[e] = "allowed"

\* What is served was computed: a completed row, a ready partition and a
\* completed release name the output of a Glue run that completed, although
\* executions may overlap and share one result.json.
ServedIsVerified ==
  /\ status = "completed" => ref # None /\ run[ref] = "completed"
  /\ partition.status = "ready" => /\ partition.ref # None
                                   /\ run[partition.ref] = "completed"
                                   /\ run[partition.paid] # "none"
  /\ \A e \in Executions :
       release[e] = "completed" => output[e] # None /\ run[output[e]] = "completed"

\* reconcile() finds the release of a row it has to close through
\* privacy_job_id: a processing row names an allowed release.
ProcessingNamesRelease ==
  status = "processing" =>
    \E e \in Executions : job = ReleaseOf(e) /\ decision[e] = "allowed"

Started == {e \in Executions : exec[e] # "none"}
Live    == {e \in Executions : exec[e] \in LiveExecutions}

\* While one execution was started and none was left with an invocation still
\* running, the row, the release and the partition agree: a completed row has
\* the output of a completed release, and an execution that ended well leaves
\* no release reserved.
SoleExecutionAgrees ==
  \A e \in Executions :
    ~late /\ Started = {e} =>
      /\ status = "completed" => release[e] = "completed" /\ output[e] = ref
      /\ partition.status = "ready" => status = "completed" /\ partition.ref = ref
      /\ exec[e] = "succeeded" => release[e] \in TerminalReleases

\* "Duplicate S3/SQS delivery therefore resolves to the same execution"
\* (docs/provider_billion_event_scale_boundary.md:41).
OneExecution == \A e, f \in Live : e = f

\* A delivery that was dispatched is settled, by its execution or by
\* reconcile().
DispatchedIsSettled ==
  status \in {"dispatched", "processing"} ~> status \in TerminalRows

=============================================================================
