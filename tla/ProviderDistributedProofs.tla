----------------------- MODULE ProviderDistributedProofs -----------------------
(***************************************************************************)
(* The safety of ProviderDistributed, for any invocations, attempts,       *)
(* outcomes and faults: for any messages what each actor relies on and     *)
(* what is served (DistributedInv); for one message, delivered any number  *)
(* of times, the agreement of row, release and partition (SoleInv).        *)
(***************************************************************************)
EXTENDS ProviderDistributed, TLAPS

\* The courses an invocation may be on where it is.
PathsAt(label) ==
  CASE label = "reserve"  -> {"prepare"}
    [] label = "register" -> {"prepare"}
    [] label = "stage"    -> {"prepare"}
    [] label = "load"     -> {"finalize"}
    [] label = "verify"   -> {"finalize"}
    [] label \in {"release", "settle"} ->
         {"window", "staging", "manifest", "result", "failure"}
    [] label \in {"get", "move"} ->
         {"blocked", "staging", "start", "manifest", "result", "failure"}
    [] label \in {"publish", "annotate", "note"} -> {"result"}

\* An invocation in prepare() is past the reservation only with a charged
\* release, and what one in finalize() has loaded was written by a Glue run.
InvocationOK(i) ==
  ipc[i] # "free" =>
    /\ iexec[i] \in Executions
    /\ path[i] \in PathsAt(ipc[i])
    /\ path[i] \in FinalizePaths => run[iexec[i]] # "none"
    /\ ipc[i] \in {"register", "stage"} \/ path[i] \in {"window", "staging", "start"}
         => decision[iexec[i]] = "allowed"
    /\ ipc[i] = "verify" \/ path[i] \in {"manifest", "result"} =>
         iresult[i] \in Results /\ run[iresult[i].by] = iresult[i].status
    /\ ipc[i] = "load" => result \in Results
    /\ ipc[i] = "publish" => iresult[i].status = "completed"
    /\ ipc[i] = "note" => /\ iseen[i] \in SeenRow
                          /\ iseen[i].status \in TerminalRows
                          /\ iseen[i].status = "completed" => ref # None
    /\ ipc[i] = "move" => status # "none"

\* An execution waits for an invocation of its own, of the step it is in, and
\* starts one Glue run, for a charged release.
ExecutionOK(e) ==
  /\ exec[e] \in {"none", "prepare"} => run[e] = "none"
  /\ exec[e] \in {"glue", "finalize", "fail"} => run[e] # "none"
  /\ exec[e] = "finalize" => result \in Results
  /\ awaited[e] \in Invocations =>
       /\ ipc[awaited[e]] # "free"
       /\ iexec[awaited[e]] = e
       /\ exec[e] \in LambdaStates
       /\ path[awaited[e]] \in PreparePaths => exec[e] = "prepare"
  /\ run[e] # "none" => decision[e] = "allowed"

\* What is named as output is the output of a run that completed.
OutputsOK ==
  /\ result \in Results => run[result.by] = result.status
  /\ ref # None => run[ref] = "completed"
  /\ status = "completed" => ref # None
  /\ partition.status = "ready" => /\ partition.ref # None
                                   /\ run[partition.ref] = "completed"
                                   /\ partition.paid # None
                                   /\ run[partition.paid] # "none"
  /\ \A e \in Executions :
       release[e] = "completed" => output[e] # None /\ run[output[e]] = "completed"

\* A row is dispatched, and a message submits, under a number that names an
\* execution.
AttemptsOK ==
  /\ status = "dispatching" => attempts \in Executions
  /\ \A m \in Messages :
       mpc[m] \in {"submitting", "dispatched"} => mattempt[m] \in Executions
  /\ rpc \in {"release", "settle"} => rrow.job \in Jobs
  /\ status = "none" => /\ rpc = "idle"
                        /\ \A m \in Messages : mpc[m] \in {"queued", "done"}

Control ==
  /\ MachineTyped
  /\ LambdaTyped
  /\ \A i \in Invocations : InvocationOK(i)
  /\ \A e \in Executions : ExecutionOK(e)

PartitionTyped ==
  partition \in [status : {"none", "registered", "ready"},
                 ref : Executions \cup {None}, paid : Executions \cup {None}]

BoundsTyped == faults \in 0 .. MaxFaults /\ late \in BOOLEAN

DistributedInv ==
  /\ RowTyped
  /\ QueueTyped
  /\ LedgerTyped
  /\ PartitionTyped
  /\ ReconTyped
  /\ BoundsTyped
  /\ Control
  /\ OutputsOK
  /\ AttemptsOK
  /\ ProcessingNamesRelease

-----------------------------------------------------------------------------
(* What the steps of the machine leave true.                               *)

\* Runs start and end once.
RunGrows ==
  \A e \in Executions : /\ run[e] \in TerminalRows => run'[e] = run[e]
                        /\ run[e] # "none" => run'[e] # "none"

RowGrows == /\ ref # None => ref' # None
            /\ status # "none" => status' # "none"

\* What a step may do to what an invocation relies on.
Grows ==
  /\ RunGrows
  /\ result \in Results => result' \in Results
  /\ \A e \in Executions : decision[e] = "allowed" => decision'[e] = "allowed"
  /\ RowGrows

SameLocals(i) ==
  /\ ipc'[i] = ipc[i] /\ iexec'[i] = iexec[i] /\ path'[i] = path[i]
  /\ iseen'[i] = iseen[i] /\ iresult'[i] = iresult[i]

LEMMA NoneIsNoStatus ==
  /\ None \notin Executions
  /\ None \notin Invocations
  /\ None \notin Jobs
  BY ConstantsAssumption DEF Executions, Jobs

\* An invocation that does not step keeps what it relies on.
LEMMA InvocationUndisturbed ==
  ASSUME NEW i \in Invocations, InvocationOK(i), Grows, SameLocals(i)
  PROVE  InvocationOK(i)'
<1> SUFFICES ASSUME ipc[i] # "free"
             PROVE  InvocationOK(i)'
  BY DEF InvocationOK, SameLocals
<1>1. /\ iexec'[i] \in Executions
      /\ path'[i] \in PathsAt(ipc'[i])
  BY DEF InvocationOK, SameLocals
<1>2. path'[i] \in FinalizePaths => run'[iexec'[i]] # "none"
  BY DEF InvocationOK, SameLocals, Grows, RunGrows
<1>3. ipc'[i] \in {"register", "stage"}
        \/ path'[i] \in {"window", "staging", "start"}
        => decision'[iexec'[i]] = "allowed"
  BY DEF InvocationOK, SameLocals, Grows
<1>4. ipc'[i] = "verify" \/ path'[i] \in {"manifest", "result"} =>
        iresult'[i] \in Results /\ run'[iresult'[i].by] = iresult'[i].status
  <2> SUFFICES ASSUME ipc[i] = "verify" \/ path[i] \in {"manifest", "result"}
               PROVE  iresult[i] \in Results
                      /\ run'[iresult[i].by] = iresult[i].status
    BY DEF SameLocals
  <2>1. iresult[i] \in Results /\ run[iresult[i].by] = iresult[i].status
    BY DEF InvocationOK
  <2>2. iresult[i].by \in Executions /\ iresult[i].status \in TerminalRows
    BY <2>1 DEF Results
  <2> QED
    BY <2>1, <2>2 DEF Grows, RunGrows
<1>5. ipc'[i] = "load" => result' \in Results
  BY DEF InvocationOK, SameLocals, Grows
<1>6. ipc'[i] = "publish" => iresult'[i].status = "completed"
  BY DEF InvocationOK, SameLocals
<1>7. ipc'[i] = "note" => /\ iseen'[i] \in SeenRow
                          /\ iseen'[i].status \in TerminalRows
                          /\ iseen'[i].status = "completed" => ref' # None
  BY DEF InvocationOK, SameLocals, Grows, RowGrows
<1>8. ipc'[i] = "move" => status' # "none"
  BY DEF InvocationOK, SameLocals, Grows, RowGrows
<1> QED
  BY <1>1, <1>2, <1>3, <1>4, <1>5, <1>6, <1>7, <1>8 DEF InvocationOK, PathsAt

\* Steps outside the machine and its invocations.
LEMMA ControlUndisturbed ==
  ASSUME Control, UNCHANGED <<machine, lambda, decision>>,
         RowGrows
  PROVE  Control' /\ RunGrows
<1>1. Grows /\ \A i \in Invocations : SameLocals(i)
  BY DEF Grows, RunGrows, SameLocals, machine, lambda
<1>2. \A i \in Invocations : InvocationOK(i)'
  BY <1>1, InvocationUndisturbed DEF Control
<1>3. \A e \in Executions : ExecutionOK(e)'
  BY DEF Control, ExecutionOK, machine, lambda
<1>4. MachineTyped' /\ LambdaTyped'
  BY DEF Control, MachineTyped, LambdaTyped, machine, lambda
<1> QED
  BY <1>1, <1>2, <1>3, <1>4 DEF Control, Grows

\* A step of one invocation that does not end it.
LEMMA ControlStep ==
  ASSUME Control, NEW i \in Invocations, ipc[i] # "free",
         UNCHANGED <<machine, iexec>>, LambdaTyped',
         \A e \in Executions : decision[e] = "allowed" => decision'[e] = "allowed",
         RowGrows,
         \A j \in Invocations \ {i} : SameLocals(j),
         ipc'[i] # "free", path'[i] \in PreparePaths => path[i] \in PreparePaths,
         InvocationOK(i)'
  PROVE  Control' /\ RunGrows
<1>1. Grows
  BY DEF Grows, RunGrows, machine
<1>2. \A j \in Invocations : InvocationOK(j)'
  BY <1>1, InvocationUndisturbed DEF Control
<1>3. ASSUME NEW e \in Executions PROVE ExecutionOK(e)'
  <2>1. /\ exec[e] \in {"none", "prepare"} => run[e] = "none"
        /\ exec[e] \in {"glue", "finalize", "fail"} => run[e] # "none"
        /\ exec[e] = "finalize" => result \in Results
        /\ run[e] # "none" => decision'[e] = "allowed"
    BY DEF Control, ExecutionOK
  <2>2. ASSUME awaited[e] \in Invocations
        PROVE  /\ ipc'[awaited[e]] # "free"
               /\ iexec[awaited[e]] = e
               /\ exec[e] \in LambdaStates
               /\ path'[awaited[e]] \in PreparePaths => exec[e] = "prepare"
    BY <2>2 DEF Control, ExecutionOK, SameLocals
  <2> QED
    BY <2>1, <2>2 DEF ExecutionOK, machine
<1>4. MachineTyped'
  BY DEF Control, MachineTyped, machine
<1> QED
  BY <1>1, <1>2, <1>3, <1>4 DEF Control, Grows

LEMMA EndsKeeps ==
  ASSUME Control, NEW i \in Invocations, ipc[i] # "free", NEW to, Ends(i, to),
         UNCHANGED <<result, decision>>, RowGrows,
         \/ to \in {"failed", "succeeded"}
         \/ to = "glue" /\ path[i] = "start"
         \/ to = exec[iexec[i]]
  PROVE  Control' /\ RunGrows
<1> DEFINE e == iexec[i]
<1>1. e \in Executions /\ InvocationOK(i) /\ ExecutionOK(e)
  BY DEF Control, InvocationOK
<1>2. awaited[e] = i => /\ exec[e] \in LambdaStates
                        /\ path[i] = "start" => run[e] = "none"
  BY <1>1 DEF ExecutionOK, PreparePaths
<1>3. awaited[e] = i /\ to = "glue" =>
        path[i] = "start" /\ run[e] = "none" /\ decision[e] = "allowed"
  BY <1>1, <1>2 DEF InvocationOK, LambdaStates
<1>4. /\ exec' = IF awaited[e] = i THEN [exec EXCEPT ![e] = to] ELSE exec
      /\ awaited' = IF awaited[e] = i THEN [awaited EXCEPT ![e] = None] ELSE awaited
      /\ run' = IF awaited[e] = i /\ to = "glue" THEN [run EXCEPT ![e] = "running"]
                                                  ELSE run
      /\ ipc' = [ipc EXCEPT ![i] = "free"]
      /\ iexec' = [iexec EXCEPT ![i] = None]
      /\ path' = [path EXCEPT ![i] = None]
      /\ iseen' = [iseen EXCEPT ![i] = None]
      /\ iresult' = [iresult EXCEPT ![i] = None]
  BY DEF Ends
<1>5. MachineTyped'
  <2>1. /\ exec \in [Executions -> LiveExecutions \cup {"none", "succeeded", "failed"}]
        /\ awaited \in [Executions -> Invocations \cup {None}]
        /\ run \in [Executions -> TerminalRows \cup {"none", "running"}]
        /\ result' \in Results \cup {None}
    BY DEF Control, MachineTyped
  <2>2. to \in LiveExecutions \cup {"none", "succeeded", "failed"}
    BY <1>1, <2>1 DEF LiveExecutions
  <2>3. exec' \in [Executions -> LiveExecutions \cup {"none", "succeeded", "failed"}]
    BY <1>4, <2>1, <2>2
  <2>4. awaited' \in [Executions -> Invocations \cup {None}]
    BY <1>4, <2>1
  <2>5. run' \in [Executions -> TerminalRows \cup {"none", "running"}]
    BY <1>4, <2>1
  <2> QED
    BY <2>1, <2>3, <2>4, <2>5 DEF MachineTyped
<1>6. LambdaTyped'
  BY <1>4 DEF Control, LambdaTyped, InvocationPcs
<1>7. RunGrows
  BY <1>1, <1>3, <1>4 DEF Control, MachineTyped, RunGrows, TerminalRows
<1>8. ASSUME NEW j \in Invocations PROVE InvocationOK(j)'
  <2>1. CASE j = i
    BY <1>4, <2>1 DEF Control, LambdaTyped, InvocationOK
  <2>2. CASE j # i
    <3>1. SameLocals(j)
      BY <1>4, <2>2 DEF SameLocals, Control, LambdaTyped
    <3>2. Grows
      BY <1>7 DEF Grows
    <3> QED
      BY <3>1, <3>2, InvocationUndisturbed DEF Control
  <2> QED
    BY <2>1, <2>2
<1>9. ASSUME NEW f \in Executions PROVE ExecutionOK(f)'
  <2>1. ExecutionOK(f)
    BY DEF Control
  <2>2. awaited[f] = i => f = e
    BY <2>1 DEF ExecutionOK
  <2>3. /\ exec'[f] = IF awaited[f] = i THEN to ELSE exec[f]
        /\ awaited'[f] = IF awaited[f] = i THEN None ELSE awaited[f]
        /\ run'[f] = IF awaited[f] = i /\ to = "glue" THEN "running" ELSE run[f]
    BY <1>1, <1>4, <2>2 DEF Control, MachineTyped
  <2>4. awaited'[f] \in Invocations =>
          /\ awaited'[f] = awaited[f] /\ awaited[f] # i
          /\ exec'[f] = exec[f]
          /\ ipc'[awaited[f]] = ipc[awaited[f]]
          /\ iexec'[awaited[f]] = iexec[awaited[f]]
          /\ path'[awaited[f]] = path[awaited[f]]
    BY <1>4, <2>3, NoneIsNoStatus DEF Control, LambdaTyped
  <2>5. awaited'[f] \in Invocations =>
          /\ ipc'[awaited'[f]] # "free"
          /\ iexec'[awaited'[f]] = f
          /\ exec'[f] \in LambdaStates
          /\ path'[awaited'[f]] \in PreparePaths => exec'[f] = "prepare"
    BY <2>1, <2>4 DEF ExecutionOK
  <2>6. CASE awaited[f] = i
    <3>1. /\ exec[f] \in LambdaStates
          /\ exec'[f] = to
          /\ run'[f] = IF to = "glue" THEN "running" ELSE run[f]
          /\ to = "glue" => path[i] = "start" /\ run[f] = "none"
                             /\ decision[f] = "allowed"
      BY <1>2, <1>3, <2>2, <2>3, <2>6
    <3>2. to \in {"failed", "succeeded", "glue"} \/ to = exec[f]
      BY <2>2, <2>6
    <3>3. /\ exec'[f] \in {"none", "prepare"} => run'[f] = "none"
          /\ exec'[f] \in {"glue", "finalize", "fail"} => run'[f] # "none"
          /\ exec'[f] = "finalize" => result \in Results
          /\ run'[f] # "none" => decision[f] = "allowed"
      BY <2>1, <3>1, <3>2 DEF ExecutionOK, LambdaStates
    <3> QED
      BY <2>5, <3>3 DEF ExecutionOK
  <2>7. CASE awaited[f] # i
    <3>1. exec'[f] = exec[f] /\ run'[f] = run[f]
      BY <2>3, <2>7
    <3> QED
      BY <2>1, <2>5, <3>1 DEF ExecutionOK
  <2> QED
    BY <2>6, <2>7
<1> QED
  BY <1>5, <1>6, <1>7, <1>8, <1>9 DEF Control

LEMMA RaisesKeeps ==
  ASSUME Control, NEW i \in Invocations, ipc[i] # "free", Raises(i),
         UNCHANGED <<result, decision>>, RowGrows
  PROVE  Control' /\ RunGrows
  BY EndsKeeps DEF Raises

LEMMA ReturnsKeeps ==
  ASSUME Control, NEW i \in Invocations, ipc[i] # "free", Returns(i),
         UNCHANGED <<result, decision>>, RowGrows
  PROVE  Control' /\ RunGrows
<1>1. CASE path[i] = "start"
  BY <1>1, EndsKeeps DEF Returns
<1>2. CASE path[i] \in {"window", "staging"}
  BY <1>2, RaisesKeeps DEF Returns
<1>3. CASE path[i] \notin {"start", "window", "staging"}
  BY <1>3, EndsKeeps DEF Returns
<1> QED
  BY <1>1, <1>2, <1>3

-----------------------------------------------------------------------------
(* What the steps of the row, the ledger and the partition leave true.     *)

\* Outputs that were complete stay complete; a new one has to be.
LEMMA OutputsKeep ==
  ASSUME Control, OutputsOK, RunGrows, result' = result,
         ref' # None => ref' \in Executions /\ run[ref'] = "completed",
         status' = "completed" => ref' # None,
         partition'.status = "ready" =>
           /\ partition'.ref \in Executions /\ run[partition'.ref] = "completed"
           /\ partition'.paid \in Executions /\ run[partition'.paid] # "none",
         \A e \in Executions :
           release'[e] = "completed" =>
             output'[e] \in Executions /\ run[output'[e]] = "completed"
  PROVE  OutputsOK'
<1>1. \A e \in Executions : /\ run[e] = "completed" => run'[e] = "completed"
                            /\ run[e] # "none" => run'[e] # "none"
  BY DEF RunGrows, TerminalRows
<1>2. result' \in Results => run'[result'.by] = result'.status
  <2> SUFFICES ASSUME result \in Results PROVE run'[result.by] = result.status
    OBVIOUS
  <2>1. /\ result.by \in Executions /\ result.status \in TerminalRows
        /\ run[result.by] = result.status
    BY DEF Results, OutputsOK
  <2> QED
    BY <2>1 DEF RunGrows
<1>3. ref' # None => run'[ref'] = "completed"
  BY <1>1
<1>4. partition'.status = "ready" =>
        /\ partition'.ref # None /\ run'[partition'.ref] = "completed"
        /\ partition'.paid # None /\ run'[partition'.paid] # "none"
  BY <1>1, NoneIsNoStatus
<1>5. \A e \in Executions :
        release'[e] = "completed" =>
          output'[e] # None /\ run'[output'[e]] = "completed"
  BY <1>1, NoneIsNoStatus
<1> QED
  BY <1>2, <1>3, <1>4, <1>5 DEF OutputsOK

\* What OutputsOK says, with the types.
LEMMA OutputsNow ==
  ASSUME RowTyped, LedgerTyped, PartitionTyped, OutputsOK
  PROVE  /\ ref # None => ref \in Executions /\ run[ref] = "completed"
         /\ status = "completed" => ref # None
         /\ partition.status = "ready" =>
              /\ partition.ref \in Executions /\ run[partition.ref] = "completed"
              /\ partition.paid \in Executions /\ run[partition.paid] # "none"
         /\ \A e \in Executions :
              release[e] = "completed" =>
                output[e] \in Executions /\ run[output[e]] = "completed"
  BY DEF RowTyped, LedgerTyped, PartitionTyped, OutputsOK

LEMMA UpdateRowKeeps ==
  ASSUME RowTyped, NEW seen \in SeenRow, NEW to \in Statuses,
         NEW increment \in Nat, NEW inMode \in BOOLEAN,
         NEW newArn \in Executions \cup {None}, NEW newJob \in Jobs \cup {None},
         NEW newRef \in Executions \cup {None},
         UpdateRow(seen, to, increment, inMode, newArn, newJob, newRef)
  PROVE  /\ RowTyped'
         /\ status' = to
         /\ attempts' = attempts + increment
         /\ job' = IF newJob = None THEN job ELSE newJob
         /\ ref' = IF newRef = None THEN ref ELSE newRef
<1>1. seen.distributed \in BOOLEAN /\ seen.arn \in Executions \cup {None}
  BY DEF SeenRow
<1>2. /\ status' = to /\ attempts' = attempts + increment
      /\ distributed' = (seen.distributed \/ inMode)
      /\ arn' = IF newArn = None THEN seen.arn ELSE newArn
      /\ job' = IF newJob = None THEN job ELSE newJob
      /\ ref' = IF newRef = None THEN ref ELSE newRef
  BY DEF UpdateRow
<1>3. attempts' \in Nat
  BY <1>2 DEF RowTyped
<1>4. distributed' \in BOOLEAN
  BY <1>1, <1>2
<1> QED
  BY <1>1, <1>2, <1>3, <1>4 DEF RowTyped

LEMMA SetReleaseKeeps ==
  ASSUME LedgerTyped, NEW e \in Executions,
         NEW s \in TerminalReleases \cup {"none", "reserved"},
         NEW o \in Executions \cup {None}, NEW w \in Reasons \cup {None},
         SetRelease(e, s, o, w),
         decision' \in [Executions -> {"none", "allowed", "blocked"}]
  PROVE  /\ LedgerTyped'
         /\ release'[e] = s /\ output'[e] = o
         /\ \A f \in Executions \ {e} :
              release'[f] = release[f] /\ output'[f] = output[f]
  BY DEF SetRelease, LedgerTyped

\* The arguments of mark_terminal.
LEMMA ReleaseArguments ==
  ASSUME Control, NEW i \in Invocations, ipc[i] \in {"release", "settle"}
  PROVE  /\ iexec[i] \in Executions
         /\ ReleaseStatus(i) \in TerminalReleases
         /\ OutputRef(i) \in Executions \cup {None}
         /\ Why(i) \in Reasons \cup {None}
         /\ ReleaseStatus(i) = "completed" =>
              OutputRef(i) \in Executions /\ run[OutputRef(i)] = "completed"
<1>1. /\ iexec[i] \in Executions
      /\ path[i] \in {"window", "staging", "manifest", "result", "failure"}
      /\ path[i] = "result" =>
           iresult[i] \in Results /\ run[iresult[i].by] = iresult[i].status
  BY DEF Control, InvocationOK, PathsAt
<1>2. path[i] = "result" =>
        iresult[i].by \in Executions /\ iresult[i].status \in TerminalRows
  BY <1>1 DEF Results
<1>3. /\ ReleaseStatus(i) \in TerminalReleases
      /\ ReleaseStatus(i) = "completed" =>
           path[i] = "result" /\ iresult[i].status = "completed"
  BY <1>2 DEF ReleaseStatus, TerminalReleases
<1>4. OutputRef(i) = IF path[i] = "result" /\ iresult[i].status = "completed"
                     THEN iresult[i].by ELSE None
  BY DEF OutputRef
<1>5. Why(i) \in Reasons \cup {None}
  BY <1>1 DEF Why, Reasons
<1> QED
  BY <1>1, <1>2, <1>3, <1>4, <1>5

\* What completion.finalize() and mark_processing write.
LEMMA RowArguments ==
  ASSUME Control, NEW i \in Invocations, ipc[i] \in {"get", "move"}
  PROVE  /\ iexec[i] \in Executions
         /\ RowStatus(i) \in TerminalRows \cup {"processing"}
         /\ RowJob(i) \in Jobs
         /\ OutputRef(i) \in Executions \cup {None}
         /\ OutputRef(i) # None => run[OutputRef(i)] = "completed"
         /\ RowStatus(i) = "completed" => OutputRef(i) # None
         /\ RowStatus(i) = "processing" =>
              /\ RowJob(i) = ReleaseOf(iexec[i])
              /\ decision[iexec[i]] = "allowed"
<1>1. /\ iexec[i] \in Executions
      /\ path[i] \in {"blocked", "staging", "start", "manifest", "result", "failure"}
      /\ path[i] \in {"manifest", "result"} =>
           iresult[i] \in Results /\ run[iresult[i].by] = iresult[i].status
      /\ path[i] = "start" => decision[iexec[i]] = "allowed"
  BY DEF Control, InvocationOK, PathsAt
<1>2. path[i] \in {"manifest", "result"} =>
        iresult[i].by \in Executions /\ iresult[i].status \in TerminalRows
  BY <1>1 DEF Results
<1>3. /\ RowStatus(i) \in TerminalRows \cup {"processing"}
      /\ RowStatus(i) = "completed" =>
           path[i] = "result" /\ iresult[i].status = "completed"
      /\ RowStatus(i) = "processing" => path[i] = "start"
  BY <1>1, <1>2 DEF RowStatus, TerminalRows
<1>4. OutputRef(i) = IF path[i] = "result" /\ iresult[i].status = "completed"
                     THEN iresult[i].by ELSE None
  BY DEF OutputRef
<1>5. /\ RowJob(i) \in Jobs
      /\ path[i] = "start" => RowJob(i) = ReleaseOf(iexec[i])
  BY <1>1, <1>2 DEF RowJob, RunOf, ReleaseOf, Jobs
<1> QED
  BY <1>1, <1>2, <1>3, <1>4, <1>5, NoneIsNoStatus

\* How the row may change without a word about processing.
LEMMA ProcessingKept ==
  ASSUME ProcessingNamesRelease,
         \A e \in Executions : decision[e] = "allowed" => decision'[e] = "allowed",
         status' = "processing" => status = "processing" /\ job' = job
  PROVE  ProcessingNamesRelease'
  BY DEF ProcessingNamesRelease

-----------------------------------------------------------------------------
(* Groups of variables a step leaves alone.                                *)

LEMMA RowKept ==
  ASSUME DistributedInv, UNCHANGED row
  PROVE  RowTyped' /\ status' = status /\ attempts' = attempts
         /\ job' = job /\ ref' = ref
  BY DEF DistributedInv, RowTyped, row

LEMMA QueueKept ==
  ASSUME DistributedInv, UNCHANGED queue
  PROVE  QueueTyped' /\ mpc' = mpc /\ mattempt' = mattempt
  BY DEF DistributedInv, QueueTyped, queue

LEMMA LedgerKept ==
  ASSUME DistributedInv, UNCHANGED ledger
  PROVE  /\ LedgerTyped' /\ decision' = decision
         /\ release' = release /\ output' = output
  BY DEF DistributedInv, LedgerTyped, ledger

LEMMA ReconKept ==
  ASSUME DistributedInv, UNCHANGED recon
  PROVE  ReconTyped' /\ rpc' = rpc /\ rrow' = rrow
  BY DEF DistributedInv, ReconTyped, recon

LEMMA BoundsKept ==
  ASSUME DistributedInv, NoFault \/ Faulty \/ Late
  PROVE  BoundsTyped'
<1>1. CASE NoFault
  BY <1>1 DEF NoFault, bounds, DistributedInv, BoundsTyped
<1>2. faults \in 0 .. MaxFaults /\ MaxFaults \in Nat /\ late \in BOOLEAN
  BY ConstantsAssumption DEF DistributedInv, BoundsTyped
<1>3. CASE Faulty
  <2>1. faults < MaxFaults /\ faults' = faults + 1 /\ late' = late
    BY <1>3 DEF Faulty, Fault
  <2> QED
    BY <1>2, <2>1 DEF BoundsTyped
<1>4. CASE Late
  <2>1. faults < MaxFaults /\ faults' = faults + 1 /\ late' = TRUE
    BY <1>4 DEF Late, Fault
  <2> QED
    BY <1>2, <2>1 DEF BoundsTyped
<1> QED
  BY <1>1, <1>3, <1>4

LEMMA PartitionKept ==
  ASSUME DistributedInv, UNCHANGED partition
  PROVE  PartitionTyped'
  BY DEF DistributedInv, PartitionTyped

\* A step that leaves the outputs alone.
LEMMA OutputsKept ==
  ASSUME DistributedInv, RunGrows, result' = result,
         UNCHANGED <<ref, partition, release, output>>,
         status' = "completed" => status = "completed"
  PROVE  OutputsOK'
<1>1. /\ RowTyped /\ LedgerTyped /\ PartitionTyped /\ OutputsOK /\ Control
  BY DEF DistributedInv
<1>2. /\ ref' # None => ref' \in Executions /\ run[ref'] = "completed"
      /\ status' = "completed" => ref' # None
      /\ partition'.status = "ready" =>
           /\ partition'.ref \in Executions /\ run[partition'.ref] = "completed"
           /\ partition'.paid \in Executions /\ run[partition'.paid] # "none"
      /\ \A e \in Executions :
           release'[e] = "completed" =>
             output'[e] \in Executions /\ run[output'[e]] = "completed"
  BY <1>1, OutputsNow
<1> QED
  BY <1>1, <1>2, OutputsKeep

LEMMA AttemptsKept ==
  ASSUME DistributedInv, UNCHANGED <<mpc, mattempt, rpc, rrow>>,
         status # "none" => status' # "none",
         status' = "dispatching" => attempts' \in Executions
  PROVE  AttemptsOK'
  BY DEF DistributedInv, AttemptsOK

-----------------------------------------------------------------------------
(* The worker and the gateway.                                             *)

LEMMA ClaimKeeps ==
  ASSUME DistributedInv, NEW m \in Messages, Claim(m)
  PROVE  DistributedInv'
<1>1. UNCHANGED <<attempts, distributed, arn, job, ref, mseen, mattempt,
                  machine, ledger, partition, lambda, recon>> /\ NoFault
  BY DEF Claim
<1>2. /\ status' = status \/ status' = "received"
      /\ \E label \in {"done", "queued", "receiving", "planned"} : MGoto(m, label)
  BY DEF Claim, MRetry
<1>3. RowTyped'
  BY <1>1, <1>2 DEF DistributedInv, RowTyped, Statuses
<1>4. /\ QueueTyped' /\ status' # "none"
      /\ \A n \in Messages :
           mpc'[n] \in {"submitting", "dispatched"} => mpc'[n] = mpc[n]
  <2>1. status' # "none"
    BY DEF Claim
  <2> QED
    BY <1>1, <1>2, <2>1
       DEF DistributedInv, QueueTyped, MGoto, MessagePcs, MessageSteps
<1>5. Control' /\ RunGrows
  BY <1>1, <1>4, ControlUndisturbed DEF DistributedInv, RowGrows, ledger
<1>6. OutputsOK'
  BY <1>1, <1>2, <1>5, OutputsKept DEF machine, ledger
<1>7. AttemptsOK'
  BY <1>1, <1>2, <1>4 DEF DistributedInv, AttemptsOK, recon
<1>8. ProcessingNamesRelease'
  BY <1>1, <1>2, ProcessingKept DEF DistributedInv, ledger
<1> QED
  BY <1>1, <1>3, <1>4, <1>5, <1>6, <1>7, <1>8,
     LedgerKept, PartitionKept, ReconKept, BoundsKept DEF DistributedInv

LEMMA PlanKeeps ==
  ASSUME DistributedInv, NEW m \in Messages, Plan(m)
  PROVE  DistributedInv'
<1>1. UNCHANGED <<row, mseen, machine, ledger, partition, lambda, recon>> /\ NoFault
  BY DEF Plan
<1>2. /\ MGoto(m, "dispatching") \/ MGoto(m, "submitting") \/ MGoto(m, "excepting")
      /\ MGoto(m, "submitting") => status = "dispatching"
      /\ mattempt' = [mattempt EXCEPT ![m] = IF status = "dispatching"
                                              THEN attempts ELSE 0]
  <2>1. \/ status = "validating" /\ MGoto(m, "dispatching")
        \/ status = "dispatching" /\ MGoto(m, "submitting")
        \/ status \notin {"validating", "dispatching"} /\ MGoto(m, "excepting")
    BY DEF Plan
  <2>2. MGoto(m, "submitting") => mpc'[m] = "submitting"
    BY DEF MGoto, DistributedInv, QueueTyped
  <2>3. /\ MGoto(m, "dispatching") => mpc'[m] = "dispatching"
        /\ MGoto(m, "excepting") => mpc'[m] = "excepting"
    BY DEF MGoto, DistributedInv, QueueTyped
  <2> QED
    BY <2>1, <2>2, <2>3 DEF Plan
<1>3. mattempt'[m] \in 0 .. MaxAttempts
      /\ (status = "dispatching" => mattempt'[m] \in Executions)
  BY <1>2, ConstantsAssumption
     DEF DistributedInv, AttemptsOK, QueueTyped, Executions
<1>4. QueueTyped'
  BY <1>1, <1>2, <1>3 DEF DistributedInv, QueueTyped, MGoto, MessagePcs, MessageSteps
<1>5. Control' /\ RunGrows
  BY <1>1, ControlUndisturbed DEF DistributedInv, RowGrows, ledger, row
<1>6. OutputsOK'
  BY <1>1, <1>5, OutputsKept DEF machine, ledger, row
<1>7. AttemptsOK'
  <2>1. ASSUME NEW n \in Messages, mpc'[n] \in {"submitting", "dispatched"}
        PROVE  mattempt'[n] \in Executions
    <3>1. CASE n # m
      BY <1>2, <2>1, <3>1 DEF DistributedInv, AttemptsOK, QueueTyped, MGoto
    <3>2. CASE n = m
      BY <1>2, <1>3, <2>1, <3>2 DEF DistributedInv, QueueTyped, MGoto
    <3> QED
      BY <3>1, <3>2
  <2>2. status # "none"
    BY DEF DistributedInv, AttemptsOK, Plan
  <2> QED
    BY <1>1, <2>1, <2>2 DEF DistributedInv, AttemptsOK, recon, row
<1>8. ProcessingNamesRelease'
  BY <1>1, ProcessingKept DEF DistributedInv, ledger, row
<1> QED
  BY <1>1, <1>4, <1>5, <1>6, <1>7, <1>8,
     RowKept, LedgerKept, PartitionKept, ReconKept, BoundsKept DEF DistributedInv

\* A message that is somewhere else is not asked for its attempt.
LEMMA QueueAttempts ==
  ASSUME DistributedInv, NEW m \in Messages, NEW label,
         MGoto(m, label), UNCHANGED <<rpc, rrow>>,
         label \in {"submitting", "dispatched"} => mattempt'[m] \in Executions,
         \A n \in Messages \ {m} : mattempt'[n] = mattempt[n],
         status' # "none",
         status' = "dispatching" => attempts' \in Executions
  PROVE  AttemptsOK'
<1>1. ASSUME NEW n \in Messages, mpc'[n] \in {"submitting", "dispatched"}
      PROVE  mattempt'[n] \in Executions
  BY <1>1 DEF DistributedInv, AttemptsOK, QueueTyped, MGoto
<1> QED
  BY <1>1 DEF DistributedInv, AttemptsOK

LEMMA SelectForMessageKeeps ==
  ASSUME DistributedInv, NEW m \in Messages, SelectForMessage(m)
  PROVE  DistributedInv'
<1>1. /\ UNCHANGED <<row, machine, ledger, partition, lambda, recon>> /\ NoFault
      /\ mpc[m] \in MessageSteps
  BY DEF SelectForMessage
<1>2. status # "none"
  BY <1>1 DEF DistributedInv, AttemptsOK, MessageSteps
<1>3. RowNow \in SeenRow
  BY <1>2 DEF RowNow, SeenRow, DistributedInv, RowTyped
<1>4. /\ mseen' = [mseen EXCEPT ![m] = RowNow] \/ mseen' = mseen
      /\ \/ mpc' = mpc /\ mattempt' = mattempt
         \/ /\ \E label \in {"queued", "done", "excepting"} : MGoto(m, label)
            /\ mattempt' = [mattempt EXCEPT ![m] = 0]
  BY DEF SelectForMessage, MRetry
<1>5. QueueTyped'
  BY <1>3, <1>4, ConstantsAssumption
     DEF DistributedInv, QueueTyped, MGoto, MessagePcs, MessageSteps
<1>6. Control' /\ RunGrows
  BY <1>1, ControlUndisturbed DEF DistributedInv, RowGrows, ledger, row
<1>7. OutputsOK'
  BY <1>1, <1>6, OutputsKept DEF machine, ledger, row
<1>8. AttemptsOK'
  <2>1. status' # "none" /\ (status' = "dispatching" => attempts' \in Executions)
    BY <1>1, <1>2 DEF row, DistributedInv, AttemptsOK
  <2>2. CASE mpc' = mpc /\ mattempt' = mattempt
    BY <1>1, <2>1, <2>2, AttemptsKept DEF recon
  <2>3. CASE /\ \E label \in {"queued", "done", "excepting"} : MGoto(m, label)
             /\ mattempt' = [mattempt EXCEPT ![m] = 0]
    <3>1. \A n \in Messages \ {m} : mattempt'[n] = mattempt[n]
      BY <2>3 DEF DistributedInv, QueueTyped
    <3> QED
      BY <1>1, <2>1, <2>3, <3>1, QueueAttempts DEF recon
  <2> QED
    BY <1>4, <2>2, <2>3
<1>9. ProcessingNamesRelease'
  BY <1>1, ProcessingKept DEF DistributedInv, ledger, row
<1> QED
  BY <1>1, <1>5, <1>6, <1>7, <1>8, <1>9,
     RowKept, LedgerKept, PartitionKept, ReconKept, BoundsKept DEF DistributedInv

LEMMA UpdateForMessageKeeps ==
  ASSUME DistributedInv, NEW m \in Messages, UpdateForMessage(m)
  PROVE  DistributedInv'
<1> DEFINE to == Target(mpc[m])
           increment == IF mpc[m] = "dispatching" THEN 1 ELSE 0
           inMode == mpc[m] \in {"dispatching", "dispatched", "failing"}
           newArn == IF mpc[m] = "dispatched" THEN mattempt[m] ELSE None
<1>1. /\ UNCHANGED <<machine, ledger, partition, lambda, recon>> /\ NoFault
      /\ mpc[m] \in MessageSteps /\ mseen[m] # None
      /\ mpc[m] = "dispatching" => attempts < MaxAttempts
      /\ UpdateRow(mseen[m], to, increment, inMode, newArn, None, None)
      /\ mseen' = [mseen EXCEPT ![m] = None]
      /\ mattempt' = [mattempt EXCEPT ![m] = IF mpc[m] = "dispatching"
                                              THEN attempts + 1 ELSE 0]
  BY DEF UpdateForMessage
<1>2. /\ mseen[m] \in SeenRow
      /\ to \in {"validating", "dispatching", "dispatched", "failed"}
      /\ to = "dispatching" => mpc[m] = "dispatching"
      /\ increment \in Nat /\ inMode \in BOOLEAN
      /\ newArn \in Executions \cup {None}
  <2>1. mseen[m] \in SeenRow
    BY <1>1 DEF DistributedInv, QueueTyped
  <2>2. /\ to \in {"validating", "dispatching", "dispatched", "failed"}
        /\ to = "dispatching" => mpc[m] = "dispatching"
    BY <1>1 DEF Target, MessageSteps
  <2>3. newArn \in Executions \cup {None}
    BY DEF DistributedInv, AttemptsOK
  <2> QED
    BY <2>1, <2>2, <2>3
<1> HIDE DEF to, increment, inMode, newArn
<1>3. /\ RowTyped' /\ status' = to /\ attempts' = attempts + increment
      /\ job' = job /\ ref' = ref
  <2>1. to \in Statuses
    BY <1>2 DEF Statuses
  <2>2. RowTyped
    BY DEF DistributedInv
  <2> QED
    BY <1>1, <1>2, <2>1, <2>2, UpdateRowKeeps
<1>4. \E label \in {"planned", "submitting", "done", "queued"} :
        MGoto(m, label) /\ (label = "submitting" => mpc[m] = "dispatching")
  BY <1>1 DEF UpdateForMessage, MRetry, MessageSteps
<1>5. mpc[m] = "dispatching" => attempts + 1 \in Executions
  BY <1>1, ConstantsAssumption DEF DistributedInv, RowTyped, Executions
<1>6. mattempt'[m] \in 0 .. MaxAttempts
      /\ (mpc[m] = "dispatching" => mattempt'[m] \in Executions)
  BY <1>1, <1>5, ConstantsAssumption DEF DistributedInv, QueueTyped, Executions
<1>7. QueueTyped'
  BY <1>1, <1>4, <1>6
     DEF DistributedInv, QueueTyped, MGoto, MessagePcs, MessageSteps
<1>8. Control' /\ RunGrows
  BY <1>1, <1>2, <1>3, ControlUndisturbed DEF DistributedInv, RowGrows, ledger
<1>9. OutputsOK'
  BY <1>1, <1>2, <1>3, <1>8, OutputsKept DEF machine, ledger
<1>10. AttemptsOK'
  <2>1. status' # "none" /\ (status' = "dispatching" => attempts' \in Executions)
    BY <1>2, <1>3, <1>5 DEF increment
  <2>2. \A n \in Messages \ {m} : mattempt'[n] = mattempt[n]
    BY <1>1 DEF DistributedInv, QueueTyped
  <2> QED
    BY <1>1, <1>4, <1>6, <2>1, <2>2, QueueAttempts DEF recon
<1>11. ProcessingNamesRelease'
  BY <1>1, <1>2, <1>3, ProcessingKept DEF DistributedInv, ledger
<1> QED
  BY <1>1, <1>3, <1>7, <1>8, <1>9, <1>10, <1>11,
     LedgerKept, PartitionKept, ReconKept, BoundsKept DEF DistributedInv

LEMMA SubmitKeeps ==
  ASSUME DistributedInv, NEW m \in Messages, Submit(m)
  PROVE  DistributedInv'
<1> DEFINE e == mattempt[m]
<1>1. /\ UNCHANGED <<row, mseen, awaited, run, result, ledger, partition,
                     lambda, recon>>
      /\ NoFault \/ Faulty
      /\ mpc[m] = "submitting"
      /\ \/ exec' = exec
         \/ exec[e] = "none" /\ exec' = [exec EXCEPT ![e] = "prepare"]
      /\ MGoto(m, "dispatched") \/ MGoto(m, "failing")
      /\ mattempt' = [mattempt EXCEPT ![m] = IF mpc'[m] = "dispatched"
                                              THEN e ELSE 0]
  BY DEF Submit, Start
<1>2. e \in Executions /\ status # "none"
  BY <1>1 DEF DistributedInv, AttemptsOK
<1>3. /\ MGoto(m, "dispatched") => mpc'[m] = "dispatched"
      /\ MGoto(m, "failing") => mpc'[m] = "failing"
  BY DEF MGoto, DistributedInv, QueueTyped
<1>4. /\ mattempt'[m] = (IF mpc'[m] = "dispatched" THEN e ELSE 0)
      /\ \A n \in Messages \ {m} : mattempt'[n] = mattempt[n]
  BY <1>1 DEF DistributedInv, QueueTyped
<1>5. QueueTyped'
  BY <1>1, <1>2, ConstantsAssumption
     DEF DistributedInv, QueueTyped, MGoto, MessagePcs, MessageSteps, Executions
<1>6. MachineTyped'
  BY <1>1 DEF DistributedInv, Control, MachineTyped, LiveExecutions, LambdaStates
<1>7. LambdaTyped'
  BY <1>1 DEF DistributedInv, Control, LambdaTyped, lambda
<1>8. RunGrows
  BY <1>1 DEF RunGrows
<1>9. ASSUME NEW i \in Invocations PROVE InvocationOK(i)'
  <2>1. Grows /\ SameLocals(i)
    BY <1>1, <1>8 DEF Grows, RowGrows, SameLocals, ledger, lambda, row
  <2> QED
    BY <2>1, InvocationUndisturbed DEF DistributedInv, Control
<1>10. ASSUME NEW f \in Executions PROVE ExecutionOK(f)'
  <2>1. ExecutionOK(f)
    BY DEF DistributedInv, Control
  <2>2. exec'[f] = exec[f] \/ (exec[f] = "none" /\ exec'[f] = "prepare")
    BY <1>1, <1>2 DEF DistributedInv, Control, MachineTyped
  <2> QED
    BY <1>1, <2>1, <2>2 DEF ExecutionOK, LambdaStates, ledger, lambda
<1>11. OutputsOK'
  BY <1>1, <1>8, OutputsKept DEF ledger, row
<1>12. AttemptsOK'
  <2>1. status' # "none" /\ (status' = "dispatching" => attempts' \in Executions)
    BY <1>1, <1>2 DEF row, DistributedInv, AttemptsOK
  <2>2. UNCHANGED <<rpc, rrow>>
    BY <1>1 DEF recon
  <2>3. CASE MGoto(m, "dispatched")
    BY <1>2, <1>3, <1>4, <2>1, <2>2, <2>3, QueueAttempts
  <2>4. CASE MGoto(m, "failing")
    BY <1>4, <2>1, <2>2, <2>4, QueueAttempts
  <2> QED
    BY <1>1, <2>3, <2>4
<1>13. ProcessingNamesRelease'
  BY <1>1, ProcessingKept DEF DistributedInv, ledger, row
<1> QED
  BY <1>1, <1>5, <1>6, <1>7, <1>9, <1>10, <1>11, <1>12, <1>13,
     RowKept, LedgerKept, PartitionKept, ReconKept, BoundsKept
     DEF DistributedInv, Control

LEMMA WorkerDiesKeeps ==
  ASSUME DistributedInv, NEW m \in Messages, WorkerDies(m)
  PROVE  DistributedInv'
<1>1. /\ UNCHANGED <<row, machine, ledger, partition, lambda, recon>> /\ Faulty
      /\ MGoto(m, "queued")
      /\ mseen' = [mseen EXCEPT ![m] = None]
      /\ mattempt' = [mattempt EXCEPT ![m] = 0]
      /\ mpc[m] \notin {"queued", "done"}
  BY DEF WorkerDies
<1>2. QueueTyped'
  BY <1>1, ConstantsAssumption DEF DistributedInv, QueueTyped, MGoto, MessagePcs
<1>3. Control' /\ RunGrows
  BY <1>1, ControlUndisturbed DEF DistributedInv, RowGrows, ledger, row
<1>4. OutputsOK'
  BY <1>1, <1>3, OutputsKept DEF machine, ledger, row
<1>5. AttemptsOK'
  <2>1. status' # "none" /\ (status' = "dispatching" => attempts' \in Executions)
    BY <1>1 DEF row, DistributedInv, AttemptsOK
  <2>2. \A n \in Messages \ {m} : mattempt'[n] = mattempt[n]
    BY <1>1 DEF DistributedInv, QueueTyped
  <2> QED
    BY <1>1, <2>1, <2>2, QueueAttempts DEF recon
<1>6. ProcessingNamesRelease'
  BY <1>1, ProcessingKept DEF DistributedInv, ledger, row
<1> QED
  BY <1>1, <1>2, <1>3, <1>4, <1>5, <1>6,
     RowKept, LedgerKept, PartitionKept, ReconKept, BoundsKept DEF DistributedInv

LEMMA RecoverStaleKeeps ==
  ASSUME DistributedInv, RecoverStale
  PROVE  DistributedInv'
<1>1. /\ UNCHANGED <<attempts, distributed, arn, job, ref, queue, machine,
                     ledger, partition, lambda, recon>>
      /\ NoFault /\ status' = "failed"
  BY DEF RecoverStale
<1>2. RowTyped'
  BY <1>1 DEF DistributedInv, RowTyped, Statuses
<1>3. Control' /\ RunGrows
  BY <1>1, ControlUndisturbed DEF DistributedInv, RowGrows, ledger
<1>4. OutputsOK'
  BY <1>1, <1>3, OutputsKept DEF machine, ledger
<1>5. AttemptsOK'
  BY <1>1, AttemptsKept DEF queue, recon
<1>6. ProcessingNamesRelease'
  BY <1>1, ProcessingKept DEF DistributedInv, ledger
<1> QED
  BY <1>1, <1>2, <1>3, <1>4, <1>5, <1>6,
     QueueKept, LedgerKept, PartitionKept, ReconKept, BoundsKept DEF DistributedInv

-----------------------------------------------------------------------------
(* The state machine.                                                      *)

LEMMA MachineOnly ==
  ASSUME DistributedInv, UNCHANGED <<row, queue, ledger, partition, recon>>,
         NoFault \/ Faulty \/ Late, Control', OutputsOK'
  PROVE  DistributedInv'
<1>1. AttemptsOK'
  BY AttemptsKept DEF DistributedInv, AttemptsOK, row, queue, recon
<1>2. ProcessingNamesRelease'
  BY ProcessingKept DEF DistributedInv, row, ledger
<1> QED
  BY <1>1, <1>2, RowKept, QueueKept, LedgerKept, PartitionKept, ReconKept,
     BoundsKept DEF DistributedInv

LEMMA InvokeKeeps ==
  ASSUME DistributedInv, NEW e \in Executions, NEW i \in Invocations, Invoke(e, i)
  PROVE  DistributedInv'
<1>1. /\ exec[e] \in LambdaStates /\ awaited[e] = None /\ ipc[i] = "free"
      /\ awaited' = [awaited EXCEPT ![e] = i]
      /\ iexec' = [iexec EXCEPT ![i] = e]
      /\ ipc' = [ipc EXCEPT ![i] = CASE exec[e] = "prepare"  -> "reserve"
                                     [] exec[e] = "finalize" -> "load"
                                     [] exec[e] = "fail"     -> "release"]
      /\ path' = [path EXCEPT ![i] = CASE exec[e] = "prepare"  -> "prepare"
                                       [] exec[e] = "finalize" -> "finalize"
                                       [] exec[e] = "fail"     -> "failure"]
      /\ UNCHANGED <<row, queue, exec, run, result, ledger, partition, iseen,
                     iresult, recon>> /\ NoFault
  BY DEF Invoke
<1>2. Control
  BY DEF DistributedInv
<1>3. \/ exec[e] = "prepare" /\ ipc'[i] = "reserve" /\ path'[i] = "prepare"
      \/ exec[e] = "finalize" /\ ipc'[i] = "load" /\ path'[i] = "finalize"
      \/ exec[e] = "fail" /\ ipc'[i] = "release" /\ path'[i] = "failure"
  BY <1>1, <1>2 DEF Control, LambdaTyped, LambdaStates
<1>4. iexec'[i] = e /\ \A j \in Invocations \ {i} : SameLocals(j)
  BY <1>1, <1>2 DEF Control, LambdaTyped, SameLocals
<1>5. MachineTyped'
  BY <1>1, <1>2 DEF Control, MachineTyped
<1>6. LambdaTyped'
  <2>1. PICK v, w : /\ ipc' = [ipc EXCEPT ![i] = v]
                    /\ path' = [path EXCEPT ![i] = w]
    BY <1>1, Zenon
  <2>2. v = ipc'[i] /\ w = path'[i]
    BY <1>2, <2>1 DEF Control, LambdaTyped
  <2>3. v \in InvocationPcs /\ w \in Paths
    BY <1>3, <2>2 DEF InvocationPcs, Paths, PreparePaths, FinalizePaths
  <2>4. /\ ipc' \in [Invocations -> InvocationPcs]
        /\ path' \in [Invocations -> Paths \cup {None}]
    BY <1>2, <2>1, <2>3 DEF Control, LambdaTyped
  <2> QED
    BY <1>1, <1>2, <2>4 DEF Control, LambdaTyped
<1>7. RunGrows /\ Grows
  BY <1>1 DEF RunGrows, Grows, RowGrows, row, ledger
<1>8. ASSUME NEW j \in Invocations PROVE InvocationOK(j)'
  <2>1. CASE j = i
    BY <1>1, <1>2, <1>3, <1>4, <2>1
       DEF Control, ExecutionOK, InvocationOK, PathsAt, FinalizePaths
  <2>2. CASE j # i
    BY <1>2, <1>4, <1>7, <2>2, InvocationUndisturbed DEF Control
  <2> QED
    BY <2>1, <2>2
<1>9. ASSUME NEW f \in Executions PROVE ExecutionOK(f)'
  <2>1. ExecutionOK(f)
    BY <1>2 DEF Control
  <2>2. CASE f = e
    <3>1. awaited'[f] = i
      BY <1>1, <1>2, <2>2 DEF Control, MachineTyped
    <3>2. /\ ipc'[i] # "free" /\ iexec'[i] = f
          /\ path'[i] \in PreparePaths => exec[f] = "prepare"
      BY <1>3, <1>4, <2>2 DEF PreparePaths
    <3> QED
      BY <1>1, <2>1, <2>2, <3>1, <3>2 DEF ExecutionOK, ledger
  <2>3. CASE f # e
    <3>1. awaited'[f] = awaited[f]
      BY <1>1, <1>2, <2>3 DEF Control, MachineTyped
    <3>2. awaited[f] \in Invocations => awaited[f] # i
      BY <1>1, <2>1 DEF ExecutionOK
    <3> QED
      BY <1>1, <1>4, <2>1, <3>1, <3>2 DEF ExecutionOK, SameLocals, ledger
  <2> QED
    BY <2>2, <2>3
<1>10. Control'
  BY <1>5, <1>6, <1>8, <1>9 DEF Control
<1>11. OutputsOK'
  BY <1>1, <1>7, OutputsKept DEF ledger, row
<1> QED
  BY <1>1, <1>10, <1>11, MachineOnly

LEMMA GlueEndsKeeps ==
  ASSUME DistributedInv, NEW e \in Executions, GlueEnds(e)
  PROVE  DistributedInv'
<1>1. /\ run[e] = "running"
      /\ UNCHANGED <<row, queue, awaited, ledger, partition, lambda, recon>>
      /\ NoFault
  BY DEF GlueEnds
<1>2. PICK s \in Outcomes \cup {"failed"} :
        /\ run' = [run EXCEPT ![e] = s]
        /\ \/ result' = [by |-> e, status |-> s]
           \/ s = "failed" /\ UNCHANGED result
        /\ exec' = IF exec[e] # "glue" THEN exec
                   ELSE [exec EXCEPT ![e] = IF s = "failed" THEN "fail"
                                                            ELSE "finalize"]
  BY DEF GlueEnds
<1>3. s \in TerminalRows
  BY ConstantsAssumption DEF TerminalRows
<1>4. Control /\ OutputsOK /\ RowTyped /\ LedgerTyped /\ PartitionTyped
  BY DEF DistributedInv
<1>5. /\ run'[e] = s
      /\ \A f \in Executions \ {e} : run'[f] = run[f] /\ exec'[f] = exec[f]
      /\ exec'[e] = IF exec[e] # "glue" THEN exec[e]
                    ELSE IF s = "failed" THEN "fail" ELSE "finalize"
  BY <1>2, <1>4 DEF Control, MachineTyped
<1>6. RunGrows
  BY <1>1, <1>3, <1>5 DEF RunGrows, TerminalRows
<1>7. \/ result' \in Results /\ result'.by = e /\ result'.status = s
      \/ s = "failed" /\ result' = result
  BY <1>2, <1>3 DEF Results
<1>8. MachineTyped'
  <2>1. run' \in [Executions -> TerminalRows \cup {"none", "running"}]
    BY <1>2, <1>3, <1>4 DEF Control, MachineTyped
  <2>2. exec' \in [Executions -> LiveExecutions \cup {"none", "succeeded", "failed"}]
    BY <1>2, <1>4 DEF Control, MachineTyped, LiveExecutions, LambdaStates
  <2>3. result' \in Results \cup {None}
    BY <1>4, <1>7 DEF Control, MachineTyped
  <2> QED
    BY <1>1, <1>4, <2>1, <2>2, <2>3 DEF Control, MachineTyped
<1>9. LambdaTyped'
  BY <1>1, <1>4 DEF Control, LambdaTyped, lambda
<1>10. ASSUME NEW i \in Invocations PROVE InvocationOK(i)'
  <2>1. Grows /\ SameLocals(i)
    BY <1>1, <1>6, <1>7 DEF Grows, RowGrows, SameLocals, ledger, lambda, row
  <2> QED
    BY <1>4, <2>1, InvocationUndisturbed DEF Control
<1>11. ASSUME NEW f \in Executions PROVE ExecutionOK(f)'
  <2>1. ExecutionOK(f)
    BY <1>4 DEF Control
  <2>2. CASE f # e
    BY <1>1, <1>5, <1>7, <2>1, <2>2 DEF ExecutionOK, ledger, lambda
  <2>3. CASE f = e
    <3>1. run'[f] # "none" /\ exec[f] \notin {"none", "prepare"}
      BY <1>1, <1>3, <1>5, <2>1, <2>3 DEF ExecutionOK, TerminalRows
    <3>2. exec'[f] = exec[f] \/ (exec[f] = "glue" /\ exec'[f] \in {"fail", "finalize"})
      BY <1>5, <2>3
    <3>3. exec'[f] = "finalize" => result' \in Results
      BY <1>5, <1>7, <2>1, <2>3 DEF ExecutionOK
    <3>4. awaited[f] \in Invocations => exec[f] # "glue"
      BY <2>1 DEF ExecutionOK, LambdaStates
    <3> QED
      BY <1>1, <2>1, <2>3, <3>1, <3>2, <3>3, <3>4 DEF ExecutionOK, ledger, lambda
  <2> QED
    BY <2>2, <2>3
<1>12. Control'
  BY <1>8, <1>9, <1>10, <1>11 DEF Control
<1>13. OutputsOK'
  <2>1. result' \in Results => run'[result'.by] = result'.status
    <3>1. CASE result' \in Results /\ result'.by = e /\ result'.status = s
      BY <1>5, <3>1
    <3>2. CASE result' = result
      <4> SUFFICES ASSUME result \in Results PROVE run'[result.by] = result.status
        BY <3>2
      <4>1. /\ result.by \in Executions /\ result.status \in TerminalRows
            /\ run[result.by] = result.status
        BY <1>4 DEF OutputsOK, Results
      <4> QED
        BY <1>6, <4>1 DEF RunGrows
    <3> QED
      BY <1>7, <3>1, <3>2
  <2>2. \A f \in Executions : /\ run[f] = "completed" => run'[f] = "completed"
                              /\ run[f] # "none" => run'[f] # "none"
    BY <1>6 DEF RunGrows, TerminalRows
  <2> QED
    BY <1>1, <1>4, <2>1, <2>2, OutputsNow DEF OutputsOK, row, ledger
<1> QED
  BY <1>1, <1>12, <1>13, MachineOnly

LEMMA InvocationDiesKeeps ==
  ASSUME DistributedInv, NEW i \in Invocations, InvocationDies(i)
  PROVE  DistributedInv'
<1>1. /\ ipc[i] # "free" /\ Faulty /\ Ends(i, exec[iexec[i]])
      /\ UNCHANGED <<row, queue, result, ledger, partition, recon>>
  BY DEF InvocationDies
<1>2. Control' /\ RunGrows
  BY <1>1, EndsKeeps DEF DistributedInv, RowGrows, row, ledger
<1>3. OutputsOK'
  BY <1>1, <1>2, OutputsKept DEF row, ledger
<1> QED
  BY <1>1, <1>2, <1>3, MachineOnly

\* Both leave the invocation running.
LEMMA StopsWaitingKeeps ==
  ASSUME DistributedInv, NEW e \in Executions, LosesContact(e) \/ Aborts(e)
  PROVE  DistributedInv'
<1>1. /\ Late
      /\ awaited' = [awaited EXCEPT ![e] = None]
      /\ exec' = exec \/ exec' = [exec EXCEPT ![e] = "failed"]
      /\ UNCHANGED <<row, queue, run, result, ledger, partition, lambda, recon>>
  BY DEF LosesContact, Aborts
<1>2. Control
  BY DEF DistributedInv
<1>3. MachineTyped' /\ LambdaTyped'
  BY <1>1, <1>2 DEF Control, MachineTyped, LambdaTyped, lambda
<1>4. RunGrows
  BY <1>1 DEF RunGrows
<1>5. ASSUME NEW i \in Invocations PROVE InvocationOK(i)'
  <2>1. Grows /\ SameLocals(i)
    BY <1>1, <1>4 DEF Grows, RowGrows, SameLocals, ledger, lambda, row
  <2> QED
    BY <1>2, <2>1, InvocationUndisturbed DEF Control
<1>6. ASSUME NEW f \in Executions PROVE ExecutionOK(f)'
  <2>1. ExecutionOK(f)
    BY <1>2 DEF Control
  <2>2. /\ awaited'[f] = IF f = e THEN None ELSE awaited[f]
        /\ exec'[f] = exec[f] \/ exec'[f] = "failed"
        /\ f # e => exec'[f] = exec[f]
    BY <1>1, <1>2 DEF Control, MachineTyped
  <2> QED
    BY <1>1, <2>1, <2>2, NoneIsNoStatus DEF ExecutionOK, lambda, ledger
<1>7. Control'
  BY <1>3, <1>5, <1>6 DEF Control
<1>8. OutputsOK'
  BY <1>1, <1>4, OutputsKept DEF row, ledger
<1> QED
  BY <1>1, <1>7, <1>8, MachineOnly

-----------------------------------------------------------------------------
(* The control plane.                                                      *)

LEMMA SameAt ==
  ASSUME NEW S, NEW T, NEW f \in [S -> T], NEW i \in S
  PROVE  f = [f EXCEPT ![i] = f[i]]
  OBVIOUS

\* A step of an invocation from one place to another.
LEMMA GotoKeeps ==
  ASSUME Control, RowGrows, NEW i \in Invocations, ipc[i] # "free",
         UNCHANGED <<machine, iexec>>,
         \A e \in Executions : decision[e] = "allowed" => decision'[e] = "allowed",
         NEW label \in InvocationPcs, NEW course \in Paths,
         NEW seen \in SeenRow \cup {None}, NEW loaded \in Results \cup {None},
         ipc' = [ipc EXCEPT ![i] = label],
         path' = [path EXCEPT ![i] = course],
         iseen' = [iseen EXCEPT ![i] = seen],
         iresult' = [iresult EXCEPT ![i] = loaded],
         label \notin {"free", "load"},
         course \in PathsAt(label),
         course \in FinalizePaths => path[i] \in FinalizePaths,
         course \in PreparePaths => path[i] \in PreparePaths,
         label \in {"register", "stage"} \/ course \in {"window", "staging", "start"}
           => decision'[iexec[i]] = "allowed",
         label = "verify" \/ course \in {"manifest", "result"} =>
           loaded \in Results /\ run[loaded.by] = loaded.status,
         label = "publish" => loaded.status = "completed",
         label = "note" => /\ seen \in SeenRow
                           /\ seen.status \in TerminalRows
                           /\ seen.status = "completed" => ref' # None,
         label = "move" => status' # "none"
  PROVE  Control' /\ RunGrows
<1>1. LambdaTyped'
  BY DEF Control, LambdaTyped
<1>2. /\ ipc'[i] = label /\ path'[i] = course
      /\ iseen'[i] = seen /\ iresult'[i] = loaded
      /\ iexec'[i] = iexec[i] /\ run' = run
      /\ \A j \in Invocations \ {i} : SameLocals(j)
  BY DEF Control, LambdaTyped, SameLocals, machine
<1>3. /\ iexec[i] \in Executions
      /\ path[i] \in FinalizePaths => run[iexec[i]] # "none"
  BY DEF Control, InvocationOK
<1>4. InvocationOK(i)'
  BY <1>2, <1>3 DEF InvocationOK
<1> QED
  BY <1>1, <1>2, <1>4, ControlStep

LEMMA LambdaOnly ==
  ASSUME DistributedInv, UNCHANGED <<row, queue, result, ledger, partition, recon>>,
         NoFault, Control', RunGrows
  PROVE  DistributedInv'
  BY OutputsKept, MachineOnly DEF row, ledger

\* What an invocation is, with the types.
LEMMA AtStep ==
  ASSUME Control, NEW i \in Invocations, ipc[i] # "free"
  PROVE  /\ iexec[i] \in Executions
         /\ path[i] \in PathsAt(ipc[i])
         /\ path = [path EXCEPT ![i] = path[i]]
         /\ ipc = [ipc EXCEPT ![i] = ipc[i]]
         /\ iseen = [iseen EXCEPT ![i] = iseen[i]]
         /\ iresult = [iresult EXCEPT ![i] = iresult[i]]
         /\ iseen[i] \in SeenRow \cup {None}
         /\ iresult[i] \in Results \cup {None}
<1>1. iexec[i] \in Executions /\ path[i] \in PathsAt(ipc[i])
  BY DEF Control, InvocationOK
<1>2. LambdaTyped
  BY DEF Control
<1> QED
  BY <1>1, <1>2, SameAt DEF LambdaTyped

\* One that leaves its course, and what it has read, alone.
LEMMA StaysKeeps ==
  ASSUME Control, RowGrows, NEW i \in Invocations, ipc[i] # "free",
         ipc[i] # "free", UNCHANGED <<result, decision>>,
         NEW label \in InvocationPcs,
         ipc' = [ipc EXCEPT ![i] = label],
         UNCHANGED <<exec, awaited, run, iexec, path, iseen, iresult>>,
         label \in {"release", "settle", "get", "move", "publish", "annotate"},
         path[i] \in PathsAt(label),
         path[i] \in {"window", "staging", "start"} => decision[iexec[i]] = "allowed",
         path[i] \in {"manifest", "result"} =>
           iresult[i] \in Results /\ run[iresult[i].by] = iresult[i].status,
         label = "publish" => iresult[i].status = "completed",
         label = "move" => status # "none"
  PROVE  Control' /\ RunGrows
<1>1. LambdaTyped'
  BY DEF Control, LambdaTyped
<1>2. /\ ipc'[i] = label
      /\ UNCHANGED <<machine, iexec, decision>>
      /\ \A j \in Invocations \ {i} : SameLocals(j)
  BY DEF Control, LambdaTyped, SameLocals, machine
<1>3. InvocationOK(i)
  BY DEF Control
<1>4. InvocationOK(i)'
  BY <1>2, <1>3 DEF InvocationOK, RowGrows
<1> QED
  BY <1>1, <1>2, <1>4, ControlStep

LEMMA AfterReleaseKeeps ==
  ASSUME Control, RowGrows, NEW i \in Invocations, ipc[i] \in {"release", "settle"},
         AfterRelease(i), UNCHANGED <<result, decision>>
  PROVE  Control' /\ RunGrows
<1>1. CASE path[i] = "window"
  BY <1>1, ReturnsKeeps DEF AfterRelease
<1>2. CASE path[i] # "window"
  <2>1. /\ ipc' = [ipc EXCEPT ![i] = "get"]
        /\ UNCHANGED <<exec, awaited, run, iexec, path, iseen, iresult>>
    BY <1>2 DEF AfterRelease, IGoto
  <2>2. path[i] \in {"staging", "manifest", "result", "failure"}
    BY <1>2, AtStep DEF PathsAt
  <2>3. /\ path[i] = "staging" => decision[iexec[i]] = "allowed"
        /\ path[i] \in {"manifest", "result"} =>
             iresult[i] \in Results /\ run[iresult[i].by] = iresult[i].status
    BY DEF Control, InvocationOK
  <2>4. "get" \in InvocationPcs /\ path[i] \in PathsAt("get")
    BY <2>2 DEF InvocationPcs, PathsAt
  <2> QED
    BY <2>1, <2>2, <2>3, <2>4, StaysKeeps
<1> QED
  BY <1>1, <1>2

LEMMA AfterRowKeeps ==
  ASSUME Control, RowGrows, NEW i \in Invocations, ipc[i] \in {"get", "move"},
         AfterRow(i), UNCHANGED <<result, decision>>
  PROVE  Control' /\ RunGrows
<1>1. CASE path[i] # "result"
  BY <1>1, ReturnsKeeps DEF AfterRow
<1>2. CASE path[i] = "result"
  <2> DEFINE label == IF iresult[i].status = "completed" THEN "publish" ELSE "annotate"
  <2>1. /\ ipc' = [ipc EXCEPT ![i] = label]
        /\ iseen' = [iseen EXCEPT ![i] = None]
        /\ UNCHANGED <<exec, awaited, run, iexec, path, iresult>>
    BY <1>2 DEF AfterRow, IGoto
  <2>2. iresult[i] \in Results /\ run[iresult[i].by] = iresult[i].status
    BY <1>2 DEF Control, InvocationOK
  <2>3. /\ label \in InvocationPcs /\ path[i] \in Paths
        /\ path[i] \in PathsAt(label) /\ path[i] \notin PreparePaths
        /\ label \notin {"free", "load", "register", "stage", "note", "move"}
        /\ label = "publish" => iresult[i].status = "completed"
    BY <1>2 DEF InvocationPcs, Paths, PreparePaths, FinalizePaths, PathsAt
  <2>4. ipc[i] # "free"
    OBVIOUS
  <2>5. /\ path' = [path EXCEPT ![i] = path[i]]
        /\ iresult' = [iresult EXCEPT ![i] = iresult[i]]
        /\ iresult[i] \in Results \cup {None}
        /\ UNCHANGED <<machine, iexec>>
    BY <2>1, <2>4, AtStep DEF machine
  <2> HIDE DEF label
  <2> QED
    BY <1>2, <2>1, <2>2, <2>3, <2>4, <2>5, GotoKeeps
<1> QED
  BY <1>1, <1>2

LEMMA SelectReleaseKeeps ==
  ASSUME DistributedInv, NEW i \in Invocations, SelectRelease(i)
  PROVE  DistributedInv'
<1>1. /\ ipc[i] = "release" /\ NoFault
      /\ UNCHANGED <<row, queue, result, ledger, partition, recon>>
      /\ \/ /\ ipc' = [ipc EXCEPT ![i] = "settle"]
            /\ UNCHANGED <<exec, awaited, run, iexec, path, iseen, iresult>>
         \/ AfterRelease(i)
         \/ Raises(i)
  BY DEF SelectRelease, IGoto
<1>2. Control /\ RowGrows /\ UNCHANGED <<result, decision>>
  BY <1>1 DEF DistributedInv, RowGrows, row, ledger
<1>3. CASE /\ ipc' = [ipc EXCEPT ![i] = "settle"]
           /\ UNCHANGED <<exec, awaited, run, iexec, path, iseen, iresult>>
  <2>1. /\ iexec[i] \in Executions
        /\ path[i] \in {"window", "staging", "manifest", "result", "failure"}
        /\ path[i] \in {"window", "staging"} => decision[iexec[i]] = "allowed"
        /\ path[i] \in {"manifest", "result"} =>
             iresult[i] \in Results /\ run[iresult[i].by] = iresult[i].status
    BY <1>1, <1>2 DEF Control, InvocationOK, PathsAt
  <2>2. "settle" \in InvocationPcs /\ path[i] \in PathsAt("settle")
    BY <2>1 DEF InvocationPcs, PathsAt
  <2>3. Control' /\ RunGrows
    BY <1>1, <1>2, <1>3, <2>1, <2>2, StaysKeeps
  <2> QED
    BY <1>1, <2>3, LambdaOnly
<1>4. CASE AfterRelease(i)
  BY <1>1, <1>2, <1>4, AfterReleaseKeeps, LambdaOnly
<1>5. CASE Raises(i)
  BY <1>1, <1>2, <1>5, RaisesKeeps, LambdaOnly
<1> QED
  BY <1>1, <1>3, <1>4, <1>5

LEMMA UpdateReleaseKeeps ==
  ASSUME DistributedInv, NEW i \in Invocations, UpdateRelease(i)
  PROVE  DistributedInv'
<1> DEFINE e == iexec[i]
<1>1. /\ ipc[i] = "settle" /\ NoFault /\ AfterRelease(i)
      /\ UNCHANGED <<row, queue, result, decision, partition, recon>>
      /\ \/ SetRelease(e, ReleaseStatus(i), OutputRef(i), Why(i))
         \/ UNCHANGED <<release, output, why>>
  BY DEF UpdateRelease
<1>2. /\ Control /\ RowGrows
      /\ RowTyped /\ LedgerTyped /\ PartitionTyped /\ OutputsOK
  BY <1>1 DEF DistributedInv, RowGrows, row
<1>3. Control' /\ RunGrows
  BY <1>1, <1>2, AfterReleaseKeeps
<1>4. /\ LedgerTyped'
      /\ \A f \in Executions :
           release'[f] = "completed" =>
             output'[f] \in Executions /\ run[output'[f]] = "completed"
  <2>1. CASE UNCHANGED <<release, output, why>>
    BY <1>1, <1>2, <2>1, OutputsNow DEF LedgerTyped
  <2>2. CASE SetRelease(e, ReleaseStatus(i), OutputRef(i), Why(i))
    <3>1. /\ e \in Executions
          /\ ReleaseStatus(i) \in TerminalReleases \cup {"none", "reserved"}
          /\ OutputRef(i) \in Executions \cup {None}
          /\ Why(i) \in Reasons \cup {None}
          /\ ReleaseStatus(i) = "completed" =>
               OutputRef(i) \in Executions /\ run[OutputRef(i)] = "completed"
      BY <1>1, <1>2, ReleaseArguments
    <3>2. decision' \in [Executions -> {"none", "allowed", "blocked"}]
      BY <1>1, <1>2 DEF LedgerTyped
    <3>3. /\ LedgerTyped'
          /\ release'[e] = ReleaseStatus(i) /\ output'[e] = OutputRef(i)
          /\ \A f \in Executions \ {e} :
               release'[f] = release[f] /\ output'[f] = output[f]
      BY <1>2, <2>2, <3>1, <3>2, SetReleaseKeeps
    <3> QED
      BY <1>2, <3>1, <3>3, OutputsNow
  <2> QED
    BY <1>1, <2>1, <2>2
<1>5. OutputsOK'
  BY <1>1, <1>2, <1>3, <1>4, OutputsNow, OutputsKeep DEF row
<1>6. AttemptsOK'
  BY <1>1, AttemptsKept DEF DistributedInv, AttemptsOK, row, queue, recon
<1>7. ProcessingNamesRelease'
  BY <1>1, ProcessingKept DEF DistributedInv, row
<1> QED
  BY <1>1, <1>3, <1>4, <1>5, <1>6, <1>7,
     RowKept, QueueKept, PartitionKept, ReconKept, BoundsKept DEF DistributedInv

LEMMA GetRowKeeps ==
  ASSUME DistributedInv, NEW i \in Invocations, GetRow(i)
  PROVE  DistributedInv'
<1>1. /\ ipc[i] = "get" /\ NoFault
      /\ UNCHANGED <<row, queue, result, ledger, partition, recon>>
      /\ \/ AfterRow(i)
         \/ /\ status \in {"dispatched", "processing"}
            /\ ipc' = [ipc EXCEPT ![i] = "move"]
            /\ UNCHANGED <<exec, awaited, run, iexec, path, iseen, iresult>>
         \/ Raises(i)
  BY DEF GetRow, IGoto
<1>2. Control /\ RowGrows /\ UNCHANGED <<result, decision>>
  BY <1>1 DEF DistributedInv, RowGrows, row, ledger
<1>3. CASE /\ status \in {"dispatched", "processing"}
           /\ ipc' = [ipc EXCEPT ![i] = "move"]
           /\ UNCHANGED <<exec, awaited, run, iexec, path, iseen, iresult>>
  <2>1. /\ path[i] \in {"blocked", "staging", "start", "manifest", "result", "failure"}
        /\ path[i] \in {"window", "staging", "start"} => decision[iexec[i]] = "allowed"
        /\ path[i] \in {"manifest", "result"} =>
             iresult[i] \in Results /\ run[iresult[i].by] = iresult[i].status
    BY <1>1, <1>2 DEF Control, InvocationOK, PathsAt
  <2>2. "move" \in InvocationPcs /\ path[i] \in PathsAt("move")
    BY <2>1 DEF InvocationPcs, PathsAt
  <2>3. Control' /\ RunGrows
    BY <1>1, <1>2, <1>3, <2>1, <2>2, StaysKeeps
  <2> QED
    BY <1>1, <2>3, LambdaOnly
<1>4. CASE AfterRow(i)
  BY <1>1, <1>2, <1>4, AfterRowKeeps, LambdaOnly
<1>5. CASE Raises(i)
  BY <1>1, <1>2, <1>5, RaisesKeeps, LambdaOnly
<1> QED
  BY <1>1, <1>3, <1>4, <1>5

LEMMA SelectForInvocationKeeps ==
  ASSUME DistributedInv, NEW i \in Invocations, SelectForInvocation(i)
  PROVE  DistributedInv'
<1>1. /\ ipc[i] = "move" /\ NoFault
      /\ UNCHANGED <<row, queue, result, ledger, partition, recon>>
      /\ \/ /\ iseen' = [iseen EXCEPT ![i] = RowNow]
            /\ UNCHANGED <<exec, awaited, run, ipc, iexec, path, iresult>>
         \/ Raises(i)
  BY DEF SelectForInvocation
<1>2. Control /\ RowGrows /\ RowTyped /\ UNCHANGED <<result, decision>>
  BY <1>1 DEF DistributedInv, RowGrows, row, ledger
<1>3. CASE /\ iseen' = [iseen EXCEPT ![i] = RowNow]
           /\ UNCHANGED <<exec, awaited, run, ipc, iexec, path, iresult>>
  <2>1. InvocationOK(i) /\ status # "none"
    BY <1>1, <1>2 DEF Control, InvocationOK
  <2>2. RowNow \in SeenRow
    BY <1>2, <2>1 DEF RowNow, SeenRow, RowTyped
  <2>3. LambdaTyped'
    BY <1>2, <1>3, <2>2 DEF Control, LambdaTyped
  <2>4. /\ \A j \in Invocations \ {i} : SameLocals(j)
        /\ UNCHANGED <<machine, iexec>>
    BY <1>1, <1>2, <1>3 DEF Control, LambdaTyped, SameLocals, machine
  <2>5. InvocationOK(i)'
    BY <1>1, <1>2, <1>3, <2>1 DEF InvocationOK, RowGrows
  <2>6. Control' /\ RunGrows
    BY <1>1, <1>2, <1>3, <2>3, <2>4, <2>5, ControlStep
  <2> QED
    BY <1>1, <2>6, LambdaOnly
<1>4. CASE Raises(i)
  BY <1>1, <1>2, <1>4, RaisesKeeps, LambdaOnly
<1> QED
  BY <1>1, <1>3, <1>4

LEMMA UpdateForInvocationKeeps ==
  ASSUME DistributedInv, NEW i \in Invocations, UpdateForInvocation(i)
  PROVE  DistributedInv'
<1> DEFINE increment == IF path[i] = "start" THEN 1 ELSE 0
<1>1. /\ ipc[i] = "move" /\ iseen[i] # None /\ NoFault /\ AfterRow(i)
      /\ UpdateRow(iseen[i], RowStatus(i), increment, FALSE, None, RowJob(i),
                   OutputRef(i))
      /\ UNCHANGED <<queue, result, ledger, partition, recon>>
  BY DEF UpdateForInvocation
<1>2. Control /\ RowTyped /\ LedgerTyped /\ PartitionTyped /\ OutputsOK
  BY DEF DistributedInv
<1>3. /\ iexec[i] \in Executions
      /\ RowStatus(i) \in TerminalRows \cup {"processing"}
      /\ RowJob(i) \in Jobs
      /\ OutputRef(i) \in Executions \cup {None}
      /\ OutputRef(i) # None => run[OutputRef(i)] = "completed"
      /\ RowStatus(i) = "completed" => OutputRef(i) # None
      /\ RowStatus(i) = "processing" =>
           /\ RowJob(i) = ReleaseOf(iexec[i])
           /\ decision[iexec[i]] = "allowed"
  BY <1>1, <1>2, RowArguments
<1>4. /\ RowTyped' /\ status' = RowStatus(i)
      /\ job' = RowJob(i)
      /\ ref' = IF OutputRef(i) = None THEN ref ELSE OutputRef(i)
  <2>1. iseen[i] \in SeenRow /\ increment \in Nat
    BY <1>1, <1>2 DEF Control, LambdaTyped
  <2>2. RowStatus(i) \in Statuses
    BY <1>3 DEF Statuses, TerminalRows
  <2>3. RowJob(i) # None
    BY <1>3, NoneIsNoStatus
  <2> HIDE DEF increment
  <2> QED
    BY <1>1, <1>2, <1>3, <2>1, <2>2, <2>3, UpdateRowKeeps
<1>5. RowGrows
  BY <1>3, <1>4 DEF RowGrows, TerminalRows
<1>6. Control' /\ RunGrows
  BY <1>1, <1>2, <1>5, AfterRowKeeps DEF ledger
<1>7. OutputsOK'
  BY <1>1, <1>2, <1>3, <1>4, <1>6, OutputsNow, OutputsKeep DEF ledger
<1>8. AttemptsOK'
  <2>1. status' # "none" /\ status' # "dispatching"
    BY <1>3, <1>4 DEF TerminalRows
  <2> QED
    BY <1>1, <2>1, AttemptsKept DEF queue, recon
<1>9. ProcessingNamesRelease'
  BY <1>1, <1>3, <1>4 DEF ProcessingNamesRelease, ledger
<1> QED
  BY <1>1, <1>4, <1>6, <1>7, <1>8, <1>9,
     QueueKept, LedgerKept, PartitionKept, ReconKept, BoundsKept DEF DistributedInv

-----------------------------------------------------------------------------
(* prepare() and finalize().                                               *)

LEMMA ReserveKeeps ==
  ASSUME DistributedInv, NEW i \in Invocations, Reserve(i)
  PROVE  DistributedInv'
<1> DEFINE e == iexec[i]
<1>1. /\ ipc[i] = "reserve" /\ NoFault
      /\ UNCHANGED <<row, queue, machine, partition, iexec, iseen, iresult, recon>>
      /\ \/ /\ decision[e] = "none" /\ decision' = [decision EXCEPT ![e] = "allowed"]
            /\ SetRelease(e, "reserved", None, None)
         \/ /\ decision[e] = "none" /\ decision' = [decision EXCEPT ![e] = "blocked"]
            /\ SetRelease(e, "blocked", None, "budget")
         \/ UNCHANGED ledger
      /\ \/ decision'[e] = "allowed" /\ ITakes(i, "prepare", "register")
         \/ ITakes(i, "blocked", "get")
  BY DEF Reserve
<1>2. /\ Control /\ RowGrows
      /\ RowTyped /\ LedgerTyped /\ PartitionTyped /\ OutputsOK
  BY <1>1 DEF DistributedInv, RowGrows, row
<1>3. e \in Executions /\ path[i] = "prepare" /\ InvocationOK(i)
  BY <1>1, <1>2 DEF Control, InvocationOK, PathsAt
<1>4. /\ decision' \in [Executions -> {"none", "allowed", "blocked"}]
      /\ \A f \in Executions : decision[f] = "allowed" => decision'[f] = "allowed"
  BY <1>1, <1>2, <1>3 DEF LedgerTyped, ledger
<1>5. /\ LedgerTyped'
      /\ \A f \in Executions :
           release'[f] = "completed" =>
             release[f] = "completed" /\ output'[f] = output[f]
  <2>1. CASE SetRelease(e, "reserved", None, None)
    BY <1>2, <1>3, <1>4, <2>1, SetReleaseKeeps DEF TerminalReleases
  <2>2. CASE SetRelease(e, "blocked", None, "budget")
    BY <1>2, <1>3, <1>4, <2>2, SetReleaseKeeps DEF TerminalReleases, Reasons
  <2>3. CASE UNCHANGED ledger
    BY <1>2, <2>3, LedgerKept
  <2> QED
    BY <1>1, <2>1, <2>2, <2>3
<1>6. Control' /\ RunGrows
  <2>1. \/ /\ ipc' = [ipc EXCEPT ![i] = "register"]
           /\ path' = [path EXCEPT ![i] = "prepare"]
           /\ decision'[e] = "allowed"
        \/ /\ ipc' = [ipc EXCEPT ![i] = "get"]
           /\ path' = [path EXCEPT ![i] = "blocked"]
    BY <1>1 DEF ITakes, IGoto
  <2>2. LambdaTyped'
    BY <1>1, <1>2, <2>1
       DEF Control, LambdaTyped, InvocationPcs, Paths, PreparePaths
  <2>3. \/ ipc'[i] = "register" /\ path'[i] = "prepare" /\ decision'[e] = "allowed"
        \/ ipc'[i] = "get" /\ path'[i] = "blocked"
    BY <1>2, <2>1 DEF Control, LambdaTyped
  <2>4. \A j \in Invocations \ {i} : SameLocals(j)
    BY <1>1, <1>2, <2>1 DEF Control, LambdaTyped, SameLocals
  <2>5. InvocationOK(i)'
    BY <1>1, <1>3, <2>3 DEF InvocationOK, PathsAt, FinalizePaths
  <2> QED
    BY <1>1, <1>2, <1>3, <1>4, <2>2, <2>3, <2>4, <2>5, ControlStep DEF PreparePaths
<1>7. OutputsOK'
  BY <1>1, <1>2, <1>5, <1>6, OutputsNow, OutputsKeep DEF row, machine
<1>8. AttemptsOK'
  BY <1>1, AttemptsKept DEF DistributedInv, AttemptsOK, row, queue, recon
<1>9. ProcessingNamesRelease'
  BY <1>1, <1>4, ProcessingKept DEF DistributedInv, row
<1> QED
  BY <1>1, <1>5, <1>6, <1>7, <1>8, <1>9,
     RowKept, QueueKept, PartitionKept, ReconKept, BoundsKept DEF DistributedInv

\* A step on to another course.
LEMMA TakesKeeps ==
  ASSUME Control, RowGrows, NEW i \in Invocations, ipc[i] # "free",
         UNCHANGED <<machine, decision, iexec, iseen, iresult>>,
         NEW course \in Paths, NEW label \in InvocationPcs, ITakes(i, course, label),
         label \in {"stage", "get", "release"},
         course \in PathsAt(label),
         course \in FinalizePaths => path[i] \in FinalizePaths,
         course \in PreparePaths => path[i] \in PreparePaths,
         label = "stage" \/ course \in {"window", "staging", "start"} =>
           decision[iexec[i]] = "allowed",
         course \in {"manifest", "result"} =>
           iresult[i] \in Results /\ run[iresult[i].by] = iresult[i].status
  PROVE  Control' /\ RunGrows
<1>1. /\ ipc' = [ipc EXCEPT ![i] = label]
      /\ path' = [path EXCEPT ![i] = course]
  BY DEF ITakes, IGoto
<1>2. LambdaTyped'
  BY <1>1 DEF Control, LambdaTyped
<1>3. /\ ipc'[i] = label /\ path'[i] = course
      /\ \A j \in Invocations \ {i} : SameLocals(j)
  BY <1>1 DEF Control, LambdaTyped, SameLocals
<1>4. InvocationOK(i)'
  BY <1>3 DEF Control, InvocationOK, machine
<1> QED
  BY <1>2, <1>3, <1>4, ControlStep

LEMMA RegisterKeeps ==
  ASSUME DistributedInv, NEW i \in Invocations, Register(i)
  PROVE  DistributedInv'
<1>1. /\ ipc[i] = "register" /\ NoFault
      /\ UNCHANGED <<row, queue, machine, ledger, iexec, iseen, iresult, recon>>
      /\ \/ partition' = partition
         \/ /\ partition.status = "none"
            /\ partition' = [partition EXCEPT !.status = "registered"]
      /\ ITakes(i, "prepare", "stage") \/ ITakes(i, "window", "release")
  BY DEF Register
<1>2. /\ Control /\ RowGrows
      /\ RowTyped /\ LedgerTyped /\ PartitionTyped /\ OutputsOK
  BY <1>1 DEF DistributedInv, RowGrows, row
<1>3. path[i] = "prepare" /\ decision[iexec[i]] = "allowed"
  BY <1>1, <1>2 DEF Control, InvocationOK, PathsAt
<1>4. Control' /\ RunGrows
  BY <1>1, <1>2, <1>3, TakesKeeps
     DEF PathsAt, InvocationPcs, Paths, PreparePaths, FinalizePaths, ledger
<1>5. /\ PartitionTyped'
      /\ partition'.status = "ready" => partition' = partition
  BY <1>1, <1>2 DEF PartitionTyped
<1>6. OutputsOK'
  BY <1>1, <1>2, <1>4, <1>5, OutputsNow, OutputsKeep DEF row, ledger, machine
<1>7. AttemptsOK'
  BY <1>1, AttemptsKept DEF DistributedInv, AttemptsOK, row, queue, recon
<1>8. ProcessingNamesRelease'
  BY <1>1, ProcessingKept DEF DistributedInv, row, ledger
<1> QED
  BY <1>1, <1>4, <1>5, <1>6, <1>7, <1>8,
     RowKept, QueueKept, LedgerKept, ReconKept, BoundsKept DEF DistributedInv

LEMMA StageKeeps ==
  ASSUME DistributedInv, NEW i \in Invocations, Stage(i)
  PROVE  DistributedInv'
<1>1. /\ ipc[i] = "stage" /\ NoFault
      /\ UNCHANGED <<row, queue, machine, ledger, partition, iexec, iseen,
                     iresult, recon>>
      /\ ITakes(i, "start", "get") \/ ITakes(i, "staging", "release")
  BY DEF Stage
<1>2. Control /\ RowGrows
  BY <1>1 DEF DistributedInv, RowGrows, row
<1>3. path[i] = "prepare" /\ decision[iexec[i]] = "allowed"
  BY <1>1, <1>2 DEF Control, InvocationOK, PathsAt
<1>4. Control' /\ RunGrows
  BY <1>1, <1>2, <1>3, TakesKeeps
     DEF PathsAt, InvocationPcs, Paths, PreparePaths, FinalizePaths, ledger
<1> QED
  BY <1>1, <1>4, LambdaOnly DEF machine

LEMMA VerifyKeeps ==
  ASSUME DistributedInv, NEW i \in Invocations, Verify(i)
  PROVE  DistributedInv'
<1>1. /\ ipc[i] = "verify" /\ NoFault
      /\ UNCHANGED <<row, queue, machine, ledger, partition, iexec, iseen,
                     iresult, recon>>
      /\ ITakes(i, "result", "release") \/ ITakes(i, "manifest", "release")
  BY DEF Verify
<1>2. Control /\ RowGrows
  BY <1>1 DEF DistributedInv, RowGrows, row
<1>3. /\ path[i] = "finalize"
      /\ iresult[i] \in Results /\ run[iresult[i].by] = iresult[i].status
  BY <1>1, <1>2 DEF Control, InvocationOK, PathsAt
<1>4. Control' /\ RunGrows
  BY <1>1, <1>2, <1>3, TakesKeeps
     DEF PathsAt, InvocationPcs, Paths, PreparePaths, FinalizePaths, ledger
<1> QED
  BY <1>1, <1>4, LambdaOnly DEF machine

LEMMA LoadKeeps ==
  ASSUME DistributedInv, NEW i \in Invocations, Load(i)
  PROVE  DistributedInv'
<1>1. /\ ipc[i] = "load" /\ NoFault
      /\ UNCHANGED <<row, queue, machine, ledger, partition, iexec, iseen, recon>>
      /\ iresult' = [iresult EXCEPT ![i] = result]
      /\ \/ ipc' = [ipc EXCEPT ![i] = "verify"] /\ path' = path
         \/ /\ ipc' = [ipc EXCEPT ![i] = "release"]
            /\ path' = [path EXCEPT ![i] = "result"]
  BY DEF Load, ITakes, IGoto
<1>2. Control /\ RowGrows /\ OutputsOK
  BY <1>1 DEF DistributedInv, RowGrows, row
<1>3. /\ path[i] = "finalize" /\ result \in Results
      /\ run[result.by] = result.status /\ InvocationOK(i)
  BY <1>1, <1>2 DEF Control, InvocationOK, PathsAt, OutputsOK
<1>4. LambdaTyped'
  BY <1>1, <1>2, <1>3
     DEF Control, LambdaTyped, InvocationPcs, Paths, FinalizePaths
<1>5. /\ \/ ipc'[i] = "verify" /\ path'[i] = "finalize"
         \/ ipc'[i] = "release" /\ path'[i] = "result"
      /\ iresult'[i] = result
      /\ \A j \in Invocations \ {i} : SameLocals(j)
  BY <1>1, <1>2, <1>3 DEF Control, LambdaTyped, SameLocals
<1>6. InvocationOK(i)'
  BY <1>1, <1>3, <1>5 DEF InvocationOK, PathsAt, FinalizePaths, machine
<1>7. Control' /\ RunGrows
  BY <1>1, <1>2, <1>4, <1>5, <1>6, ControlStep DEF PreparePaths, ledger
<1> QED
  BY <1>1, <1>7, LambdaOnly DEF machine

LEMMA PublishKeeps ==
  ASSUME DistributedInv, NEW i \in Invocations, Publish(i)
  PROVE  DistributedInv'
<1> DEFINE mine == [status |-> "ready", ref |-> iresult[i].by, paid |-> iexec[i]]
<1>1. /\ ipc[i] = "publish" /\ NoFault
      /\ UNCHANGED <<row, queue, result, ledger, recon>>
      /\ \/ /\ partition' = mine
            /\ ipc' = [ipc EXCEPT ![i] = "annotate"]
            /\ UNCHANGED <<exec, awaited, run, iexec, path, iseen, iresult>>
         \/ partition' = partition /\ Raises(i)
  BY DEF Publish, IGoto
<1>2. /\ Control /\ RowGrows /\ UNCHANGED <<result, decision>>
      /\ RowTyped /\ LedgerTyped /\ PartitionTyped /\ OutputsOK
  BY <1>1 DEF DistributedInv, RowGrows, row, ledger
<1>3. /\ iexec[i] \in Executions /\ run[iexec[i]] # "none" /\ path[i] = "result"
      /\ iresult[i] \in Results /\ run[iresult[i].by] = "completed"
  BY <1>1, <1>2 DEF Control, InvocationOK, PathsAt, FinalizePaths
<1>4. Control' /\ RunGrows
  <2>1. CASE Raises(i)
    BY <1>1, <1>2, <2>1, RaisesKeeps
  <2>2. CASE /\ ipc' = [ipc EXCEPT ![i] = "annotate"]
             /\ UNCHANGED <<exec, awaited, run, iexec, path, iseen, iresult>>
    <3>1. /\ "annotate" \in InvocationPcs /\ path[i] \in PathsAt("annotate")
          /\ run[iresult[i].by] = iresult[i].status
      BY <1>1, <1>2, <1>3 DEF InvocationPcs, PathsAt, Control, InvocationOK
    <3> QED
      BY <1>1, <1>2, <1>3, <2>2, <3>1, StaysKeeps
  <2> QED
    BY <1>1, <2>1, <2>2
<1>5. /\ PartitionTyped'
      /\ partition'.status = "ready" =>
           /\ partition'.ref \in Executions /\ run[partition'.ref] = "completed"
           /\ partition'.paid \in Executions /\ run[partition'.paid] # "none"
  <2>1. CASE partition' = mine
    BY <1>3, <2>1 DEF PartitionTyped, Results
  <2>2. CASE partition' = partition
    BY <1>2, <2>2, OutputsNow DEF PartitionTyped
  <2> QED
    BY <1>1, <2>1, <2>2
<1>6. OutputsOK'
  BY <1>1, <1>2, <1>4, <1>5, OutputsNow, OutputsKeep DEF row, ledger
<1>7. AttemptsOK'
  BY <1>1, AttemptsKept DEF DistributedInv, AttemptsOK, row, queue, recon
<1>8. ProcessingNamesRelease'
  BY <1>1, ProcessingKept DEF DistributedInv, row, ledger
<1> QED
  BY <1>1, <1>4, <1>5, <1>6, <1>7, <1>8,
     RowKept, QueueKept, LedgerKept, ReconKept, BoundsKept DEF DistributedInv

LEMMA GetToAnnotateKeeps ==
  ASSUME DistributedInv, NEW i \in Invocations, GetToAnnotate(i)
  PROVE  DistributedInv'
<1>1. /\ ipc[i] = "annotate" /\ NoFault
      /\ UNCHANGED <<row, queue, result, ledger, partition, recon>>
      /\ \/ /\ status \in TerminalRows
            /\ iseen' = [iseen EXCEPT ![i] = RowNow]
            /\ ipc' = [ipc EXCEPT ![i] = "note"]
            /\ UNCHANGED <<exec, awaited, run, iexec, path, iresult>>
         \/ Raises(i)
  BY DEF GetToAnnotate, IGoto
<1>2. /\ Control /\ RowGrows /\ UNCHANGED <<result, decision>>
      /\ RowTyped /\ OutputsOK
  BY <1>1 DEF DistributedInv, RowGrows, row, ledger
<1>3. CASE /\ status \in TerminalRows
           /\ iseen' = [iseen EXCEPT ![i] = RowNow]
           /\ ipc' = [ipc EXCEPT ![i] = "note"]
           /\ UNCHANGED <<exec, awaited, run, iexec, path, iresult>>
  <2>1. InvocationOK(i) /\ path[i] = "result"
    BY <1>1, <1>2 DEF Control, InvocationOK, PathsAt
  <2>2. /\ RowNow \in SeenRow /\ RowNow.status \in TerminalRows
        /\ RowNow.status = "completed" => ref # None
    BY <1>2, <1>3 DEF RowNow, SeenRow, RowTyped, OutputsOK, Statuses, TerminalRows
  <2>3. LambdaTyped'
    BY <1>2, <1>3, <2>2 DEF Control, LambdaTyped, InvocationPcs
  <2>4. /\ \A j \in Invocations \ {i} : SameLocals(j)
        /\ UNCHANGED <<machine, iexec>>
        /\ ipc'[i] = "note" /\ iseen'[i] = RowNow
    BY <1>1, <1>2, <1>3 DEF Control, LambdaTyped, SameLocals, machine
  <2> HIDE DEF RowNow
  <2>5. InvocationOK(i)'
    <3>1. /\ iexec'[i] \in Executions /\ path'[i] \in PathsAt(ipc'[i])
          /\ path'[i] \in FinalizePaths => run'[iexec'[i]] # "none"
      BY <1>1, <1>3, <2>1, <2>4 DEF InvocationOK, PathsAt
    <3>2. iresult'[i] \in Results /\ run'[iresult'[i].by] = iresult'[i].status
      BY <1>1, <1>3, <2>1 DEF InvocationOK
    <3>3. /\ iseen'[i] \in SeenRow /\ iseen'[i].status \in TerminalRows
          /\ iseen'[i].status = "completed" => ref' # None
      BY <1>2, <2>2, <2>4 DEF RowGrows
    <3>4. path'[i] = "result"
      BY <1>3, <2>1
    <3> QED
      BY <2>4, <3>1, <3>2, <3>3, <3>4 DEF InvocationOK
  <2>6. Control' /\ RunGrows
    BY <1>1, <1>2, <1>3, <2>3, <2>4, <2>5, ControlStep
  <2> QED
    BY <1>1, <2>6, LambdaOnly
<1>4. CASE Raises(i)
  BY <1>1, <1>2, <1>4, RaisesKeeps, LambdaOnly
<1> QED
  BY <1>1, <1>3, <1>4

LEMMA AnnotateKeeps ==
  ASSUME DistributedInv, NEW i \in Invocations, Annotate(i)
  PROVE  DistributedInv'
<1>1. /\ ipc[i] = "note" /\ NoFault
      /\ UNCHANGED <<queue, result, ledger, partition, recon>>
      /\ \/ /\ UpdateRow(RowNow, iseen[i].status, 0, FALSE, None, None, None)
            /\ Returns(i)
         \/ UNCHANGED row /\ Raises(i)
  BY DEF Annotate
<1>2. /\ Control /\ UNCHANGED <<result, decision>>
      /\ RowTyped /\ LedgerTyped /\ PartitionTyped /\ OutputsOK
  BY <1>1 DEF DistributedInv, ledger
<1>3. CASE UNCHANGED row /\ Raises(i)
  BY <1>1, <1>2, <1>3, RaisesKeeps, LambdaOnly DEF RowGrows, row
<1>4. CASE /\ UpdateRow(RowNow, iseen[i].status, 0, FALSE, None, None, None)
           /\ Returns(i)
  <2>1. /\ status' = iseen[i].status /\ attempts' = attempts + 0
        /\ distributed' = (distributed \/ FALSE) /\ arn' = arn
        /\ job' = job /\ ref' = ref
    BY <1>4 DEF UpdateRow, RowNow
  <2>2. /\ status' \in TerminalRows
        /\ status' = "completed" => ref # None
    BY <1>1, <1>2, <2>1 DEF Control, InvocationOK
  <2>3. RowTyped'
    <3>1. attempts' \in Nat
      BY <1>2, <2>1 DEF RowTyped
    <3>2. distributed' \in BOOLEAN
      BY <1>2, <2>1 DEF RowTyped
    <3> QED
      BY <1>2, <2>1, <2>2, <3>1, <3>2 DEF RowTyped, Statuses, TerminalRows
  <2>4. RowGrows
    BY <2>1, <2>2 DEF RowGrows, TerminalRows
  <2>5. Control' /\ RunGrows
    BY <1>1, <1>2, <1>4, <2>4, ReturnsKeeps
  <2>6. OutputsOK'
    BY <1>1, <1>2, <2>1, <2>2, <2>5, OutputsNow, OutputsKeep DEF ledger
  <2>7. AttemptsOK'
    BY <1>1, <2>2, AttemptsKept DEF queue, recon, TerminalRows
  <2>8. ProcessingNamesRelease'
    BY <1>1, <2>2, ProcessingKept DEF DistributedInv, TerminalRows, ledger
  <2> QED
    BY <1>1, <2>3, <2>5, <2>6, <2>7, <2>8,
       QueueKept, LedgerKept, PartitionKept, ReconKept, BoundsKept
       DEF DistributedInv
<1> QED
  BY <1>1, <1>3, <1>4

-----------------------------------------------------------------------------
(* reconcile().                                                            *)

\* What only reconcile() itself can see.
LEMMA ReconOnly ==
  ASSUME DistributedInv, UNCHANGED <<row, queue, machine, ledger, partition, lambda>>,
         NoFault \/ Faulty, ReconTyped',
         rpc' \in {"release", "settle"} => rrow'.job \in Jobs,
         rpc' # "idle" => status # "none"
  PROVE  DistributedInv'
<1>1. Control' /\ RunGrows
  BY ControlUndisturbed DEF DistributedInv, RowGrows, ledger, row
<1>2. OutputsOK'
  BY <1>1, OutputsKept DEF row, ledger, machine
<1>3. AttemptsOK'
  BY DEF DistributedInv, AttemptsOK, row, queue
<1>4. ProcessingNamesRelease'
  BY ProcessingKept DEF DistributedInv, row, ledger
<1> QED
  BY <1>1, <1>2, <1>3, <1>4, RowKept, QueueKept, LedgerKept, PartitionKept,
     BoundsKept DEF DistributedInv

LEMMA NothingIsTyped ==
  Nothing \in [arn : Executions \cup {None}, job : Jobs \cup {None},
               why : Reasons \cup {None}]
  BY DEF Nothing

LEMMA ListKeeps ==
  ASSUME DistributedInv, List
  PROVE  DistributedInv'
<1>1. ReconTyped'
  BY DEF DistributedInv, RowTyped, ReconTyped, List
<1> QED
  BY <1>1, ReconOnly DEF List

LEMMA DescribeKeeps ==
  ASSUME DistributedInv, Describe
  PROVE  DistributedInv'
<1>1. /\ UNCHANGED <<row, queue, machine, ledger, partition, lambda>>
      /\ rpc = "listed"
      /\ \/ RStops
         \/ /\ \E w \in {"receipt", "callback", "execution"} :
                 rrow' = [rrow EXCEPT !.why = w]
            /\ rpc' \in {"release", "row"} /\ rseen' = rseen
            /\ rpc' = "release" => rrow.job # None
  BY DEF Describe
<1>2. ReconTyped /\ status # "none"
  BY DEF DistributedInv, AttemptsOK, Describe
<1>3. CASE RStops
  <2>1. ReconTyped'
    BY <1>3, NothingIsTyped DEF RStops, ReconTyped
  <2> QED
    BY <1>1, <1>2, <1>3, <2>1, ReconOnly DEF RStops, Describe
<1>4. CASE /\ \E w \in {"receipt", "callback", "execution"} :
                rrow' = [rrow EXCEPT !.why = w]
           /\ rpc' \in {"release", "row"} /\ rseen' = rseen
           /\ rpc' = "release" => rrow.job # None
  <2>1. ReconTyped' /\ rrow'.job = rrow.job
    BY <1>2, <1>4 DEF ReconTyped, Reasons
  <2>2. rpc' \in {"release", "settle"} => rrow'.job \in Jobs
    BY <1>2, <1>4, <2>1 DEF ReconTyped
  <2>3. NoFault \/ Faulty
    BY DEF Describe
  <2> QED
    BY <1>1, <1>2, <2>1, <2>2, <2>3, ReconOnly
<1> QED
  BY <1>1, <1>3, <1>4

LEMMA ReconcileReleaseKeeps ==
  ASSUME DistributedInv, ReconcileRelease
  PROVE  DistributedInv'
<1> DEFINE e == rrow.job[2]
<1>1. /\ rpc \in {"release", "settle"} /\ rpc' \in {"settle", "row"} /\ NoFault
      /\ UNCHANGED <<row, queue, machine, partition, lambda, rrow, rseen, decision>>
      /\ \/ UNCHANGED <<release, output, why>>
         \/ SetRelease(e, "failed", None, rrow.why)
  BY DEF ReconcileRelease, ledger
<1>2. /\ ReconTyped /\ LedgerTyped /\ rrow.job \in Jobs /\ status # "none"
      /\ RowTyped /\ PartitionTyped /\ OutputsOK /\ Control
  BY <1>1 DEF DistributedInv, AttemptsOK
<1>3. e \in Executions
  BY <1>2 DEF Jobs
<1>4. /\ LedgerTyped'
      /\ \A f \in Executions :
           release'[f] = "completed" =>
             release[f] = "completed" /\ output'[f] = output[f]
  <2>1. CASE UNCHANGED <<release, output, why>>
    BY <1>1, <1>2, <2>1 DEF LedgerTyped
  <2>2. CASE SetRelease(e, "failed", None, rrow.why)
    <3>1. /\ rrow.why \in Reasons \cup {None}
          /\ decision' \in [Executions -> {"none", "allowed", "blocked"}]
      BY <1>1, <1>2 DEF ReconTyped, LedgerTyped
    <3> HIDE DEF e
    <3> QED
      BY <1>2, <1>3, <2>2, <3>1, SetReleaseKeeps DEF TerminalReleases
  <2> QED
    BY <1>1, <2>1, <2>2
<1>5. Control' /\ RunGrows
  BY <1>1, ControlUndisturbed DEF DistributedInv, RowGrows, row
<1>6. OutputsOK'
  BY <1>1, <1>2, <1>4, <1>5, OutputsNow, OutputsKeep DEF row, machine
<1>7. AttemptsOK'
  BY <1>1, <1>2 DEF DistributedInv, AttemptsOK, row, queue
<1>8. ProcessingNamesRelease'
  BY <1>1, ProcessingKept DEF DistributedInv, row
<1>9. ReconTyped'
  BY <1>1, <1>2 DEF ReconTyped
<1> QED
  BY <1>1, <1>4, <1>5, <1>6, <1>7, <1>8, <1>9,
     RowKept, QueueKept, PartitionKept, BoundsKept DEF DistributedInv

LEMMA ReconcileRowKeeps ==
  ASSUME DistributedInv, ReconcileRow
  PROVE  DistributedInv'
<1>1. /\ rpc = "row" /\ NoFault
      /\ UNCHANGED <<queue, machine, ledger, partition, lambda>>
      /\ \/ rseen' = RowNow /\ UNCHANGED <<row, rpc, rrow>>
         \/ RStops /\ UNCHANGED row
         \/ /\ rseen # None /\ RStops
            /\ UpdateRow(rseen, "failed", 0, FALSE, None, None, None)
  BY DEF ReconcileRow
<1>2. ReconTyped /\ RowTyped /\ status # "none"
  BY <1>1 DEF DistributedInv, AttemptsOK
<1>3. CASE rseen' = RowNow /\ UNCHANGED <<row, rpc, rrow>>
  <2>1. RowNow \in SeenRow
    BY <1>2 DEF RowNow, SeenRow, RowTyped
  <2>2. ReconTyped'
    BY <1>2, <1>3, <2>1 DEF ReconTyped
  <2> QED
    BY <1>1, <1>2, <1>3, <2>2, ReconOnly
<1>4. RStops => ReconTyped' /\ rpc' = "idle"
  BY <1>2, NothingIsTyped DEF RStops, ReconTyped
<1>5. CASE RStops /\ UNCHANGED row
  BY <1>1, <1>4, <1>5, ReconOnly
<1>6. CASE /\ rseen # None /\ RStops
           /\ UpdateRow(rseen, "failed", 0, FALSE, None, None, None)
  <2>1. rseen \in SeenRow /\ "failed" \in Statuses
    BY <1>2, <1>6 DEF ReconTyped, Statuses
  <2>2. RowTyped' /\ status' = "failed" /\ job' = job /\ ref' = ref
    BY <1>2, <1>6, <2>1, UpdateRowKeeps
  <2>3. Control' /\ RunGrows
    BY <1>1, <2>2, ControlUndisturbed DEF DistributedInv, RowGrows, ledger
  <2>4. OutputsOK'
    BY <1>1, <2>2, <2>3, OutputsKept DEF ledger, machine
  <2>5. AttemptsOK'
    BY <1>1, <1>4, <1>6, <2>2 DEF DistributedInv, AttemptsOK, queue
  <2>6. ProcessingNamesRelease'
    BY <1>1, <2>2, ProcessingKept DEF DistributedInv, ledger
  <2> QED
    BY <1>1, <1>4, <1>6, <2>2, <2>3, <2>4, <2>5, <2>6,
       QueueKept, LedgerKept, PartitionKept, BoundsKept DEF DistributedInv
<1> QED
  BY <1>1, <1>3, <1>5, <1>6

-----------------------------------------------------------------------------
(* The theorems.                                                           *)

LEMMA InitIsOK == Init => DistributedInv
<1> SUFFICES ASSUME Init PROVE DistributedInv
  OBVIOUS
<1>1. /\ RowTyped /\ QueueTyped /\ LedgerTyped /\ PartitionTyped /\ BoundsTyped
  <2>1. RowTyped
    BY DEF Init, RowTyped
  <2>2. QueueTyped
    BY ConstantsAssumption DEF Init, QueueTyped, MessagePcs
  <2>3. LedgerTyped
    BY DEF Init, LedgerTyped
  <2>4. PartitionTyped
    BY DEF Init, PartitionTyped
  <2>5. BoundsTyped
    <3>1. 0 \in 0 .. MaxFaults
      BY ConstantsAssumption
    <3>2. faults = 0 /\ late = FALSE
      BY DEF Init
    <3> QED
      BY <3>1, <3>2, Zenon DEF BoundsTyped
  <2> QED
    BY <2>1, <2>2, <2>3, <2>4, <2>5
<1>2. ReconTyped
  BY NothingIsTyped DEF Init, ReconTyped
<1>3. MachineTyped /\ LambdaTyped
  BY DEF Init, MachineTyped, LambdaTyped, InvocationPcs
<1>4. Control
  <2>1. \A i \in Invocations : InvocationOK(i)
    BY DEF Init, InvocationOK
  <2>2. \A e \in Executions : ExecutionOK(e)
    BY NoneIsNoStatus DEF Init, ExecutionOK, LambdaStates
  <2> QED
    BY <1>3, <2>1, <2>2 DEF Control
<1>5. result \notin Results
  BY ResultsAssumption DEF Init
<1> QED
  BY <1>1, <1>2, <1>4, <1>5
     DEF Init, DistributedInv, OutputsOK, AttemptsOK, ProcessingNamesRelease

LEMMA StepIsOK == DistributedInv /\ [Next]_vars => DistributedInv'
<1> SUFFICES ASSUME DistributedInv, [Next]_vars
             PROVE  DistributedInv'
  OBVIOUS
<1>1. ASSUME NEW m \in Messages, Handle(m) \/ WorkerDies(m)
      PROVE  DistributedInv'
  BY <1>1, ClaimKeeps, PlanKeeps, SelectForMessageKeeps, UpdateForMessageKeeps,
     SubmitKeeps, WorkerDiesKeeps DEF Handle
<1>2. CASE RecoverStale
  BY <1>2, RecoverStaleKeeps
<1>3. ASSUME NEW e \in Executions,
             \/ \E i \in Invocations : Invoke(e, i)
             \/ GlueEnds(e) \/ LosesContact(e) \/ Aborts(e)
      PROVE  DistributedInv'
  BY <1>3, InvokeKeeps, GlueEndsKeeps, StopsWaitingKeeps
<1>4. ASSUME NEW i \in Invocations, Advance(i) \/ InvocationDies(i)
      PROVE  DistributedInv'
  BY <1>4, SelectReleaseKeeps, UpdateReleaseKeeps, GetRowKeeps,
     SelectForInvocationKeeps, UpdateForInvocationKeeps, ReserveKeeps,
     RegisterKeeps, StageKeeps, LoadKeeps, VerifyKeeps, PublishKeeps,
     GetToAnnotateKeeps, AnnotateKeeps, InvocationDiesKeeps DEF Advance
<1>5. CASE Reconcile
  BY <1>5, ListKeeps, DescribeKeeps, ReconcileReleaseKeeps, ReconcileRowKeeps
     DEF Reconcile
<1>6. CASE UNCHANGED vars
  BY <1>6, ReconOnly, ReconKept DEF vars, recon, NoFault, DistributedInv, AttemptsOK
<1> QED
  BY <1>1, <1>2, <1>3, <1>4, <1>5, <1>6 DEF Next

\* The inductive invariant: what every invocation relies on at the step it is
\* at, and what every recorded output is.
THEOREM Invariant == Spec => []DistributedInv
<1> QED
  BY InitIsOK, StepIsOK, PTL DEF Spec

\* The state of the row, the queue, the executions, the ledger and the
\* invocations is of its type.
THEOREM TypeCorrect == Spec => []TypeOK
<1>1. DistributedInv => TypeOK
  BY DEF DistributedInv, TypeOK, Control, PartitionTyped, BoundsTyped
<1> QED
  BY <1>1, Invariant, PTL

\* No Glue run starts for a dispatch attempt whose release was not allowed,
\* however prepare() is retried, overtaken or aborted.
THEOREM RunsAreCharged == Spec => []RunIsCharged
<1>1. DistributedInv => RunIsCharged
  BY DEF DistributedInv, Control, ExecutionOK, RunIsCharged
<1> QED
  BY <1>1, Invariant, PTL

\* A completed row, a ready partition and a completed release name the output
\* of a Glue run that completed, although attempts share one result.json.
THEOREM ServedOutputsAreVerified == Spec => []ServedIsVerified
<1>1. DistributedInv => ServedIsVerified
  BY DEF DistributedInv, OutputsOK, ServedIsVerified
<1> QED
  BY <1>1, Invariant, PTL

\* A processing row names the allowed release that reconcile() closes.
THEOREM ProcessingNamesItsRelease == Spec => []ProcessingNamesRelease
<1>1. DistributedInv => ProcessingNamesRelease
  BY DEF DistributedInv
<1> QED
  BY <1>1, Invariant, PTL

-----------------------------------------------------------------------------
(* One message about the object, delivered any number of times: while one  *)
(* execution was started, the row, the release and the partition agree.    *)

Early == {"none", "received", "validating", "dispatching", "failed"}
Writing == {"move", "publish", "annotate", "note"}

ReceiptRow ==
  /\ arn = None => /\ job = None /\ ref = None
                   /\ status \in Early
                   /\ rpc = "idle"
  /\ arn # None => /\ status \in {"dispatched", "processing"} \cup TerminalRows
                   /\ distributed
                   /\ exec[arn] # "none"
                   /\ \A m \in Messages : mpc[m] = "done"

ReceiptMessage(m) ==
  /\ mseen[m] # None => mseen[m].arn = None /\ mpc[m] \in MessageSteps
  /\ mpc[m] = "dispatched" => exec[mattempt[m]] # "none"

ReceiptInvocation(i) ==
  /\ ipc[i] \in Writing => arn # None
  /\ iseen[i] # None => /\ ipc[i] \in {"move", "note"}
                        /\ iseen[i].arn = arn
                        /\ iseen[i].distributed

\* reconcile() goes on only with an execution that has ended.
ReceiptRecon ==
  /\ rpc # "idle" => rrow.arn = arn
  /\ rseen # None => rpc = "row" /\ rseen.arn = arn /\ rseen.distributed
  /\ rpc \in {"release", "settle", "row"} => exec[arn] \notin LiveExecutions

Receipt ==
  /\ ReceiptRow
  /\ \A m \in Messages : ReceiptMessage(m)
  /\ \A i \in Invocations : ReceiptInvocation(i)
  /\ ReceiptRecon

ReleaseOK(e) ==
  /\ decision[e] = "none" => release[e] = "none"
  /\ decision[e] = "blocked" => release[e] = "blocked"
  /\ exec[e] = "succeeded" => release[e] \in TerminalReleases

ReleaseRead(i) ==
  /\ ipc[i] = "settle" => release[iexec[i]] \in {"reserved"} \cup TerminalReleases
  /\ ipc[i] \in {"get"} \cup Writing /\ path[i] # "start" =>
       release[iexec[i]] \in TerminalReleases

Releases ==
  /\ \A e \in Executions : ReleaseOK(e)
  /\ \A i \in Invocations : ReleaseRead(i)

\* Unless an execution stopped waiting, it waits for what runs for it.
Awaits ==
  ~late =>
    /\ \A i \in Invocations : ipc[i] # "free" => awaited[iexec[i]] = i
    /\ \A e \in Executions : run[e] = "running" => exec[e] = "glue"

Sole(e) == ~late /\ \A f \in Executions : exec[f] # "none" => f = e

RowAgrees(e) ==
  /\ status = "completed" => release[e] = "completed"
  /\ partition.status = "ready" => status = "completed"
  /\ rseen # None => status # "completed"

InvocationAgrees(e, i) ==
  /\ ipc[i] = "settle" => release[e] = "reserved"
  /\ ipc[i] \in {"get"} \cup Writing /\ path[i] \notin {"start", "blocked"} =>
       release[e] = ReleaseStatus(i)
  /\ ipc[i] = "move" => status \in {"dispatched", "processing"}
  /\ ipc[i] \in {"publish", "annotate"} => status = iresult[i].status
  /\ ipc[i] = "note" => status = iseen[i].status

Agrees ==
  \A e \in Executions :
    Sole(e) => RowAgrees(e) /\ \A i \in Invocations : InvocationAgrees(e, i)

SoleInv == Receipt /\ Releases /\ Awaits /\ Agrees

\* Executions start once and end once; nothing that was late is forgotten.
ExecutionsGrow ==
  /\ late => late'
  /\ \A e \in Executions :
       /\ exec[e] # "none" => exec'[e] # "none"
       /\ exec[e] \notin LiveExecutions \cup {"none"} => exec'[e] \notin LiveExecutions

\* A release that is charged stays charged, one that is terminal terminal.
ReleasesGrow ==
  \A e \in Executions :
    /\ release[e] \in TerminalReleases => release'[e] \in TerminalReleases
    /\ release[e] = "reserved" => release'[e] \in {"reserved"} \cup TerminalReleases

LEMMA SoleBefore ==
  ASSUME ExecutionsGrow, NEW e \in Executions, Sole(e)'
  PROVE  Sole(e)
<1>1. ~late'
  BY DEF Sole
<1>2. ~late
  BY <1>1, Zenon DEF ExecutionsGrow
<1>3. \A f \in Executions : exec[f] # "none" => f = e
  BY DEF Sole, ExecutionsGrow
<1> QED
  BY <1>2, <1>3 DEF Sole

\* With one execution and nothing left behind, everything is about it, and
\* whatever runs for it runs alone.
LEMMA SoleFacts ==
  ASSUME DistributedInv, SoleInv, NEW e \in Executions, Sole(e)
  PROVE  /\ RowAgrees(e)
         /\ \A i \in Invocations : InvocationAgrees(e, i)
         /\ \A f \in Executions : run[f] # "none" => f = e
         /\ arn # None => arn = e
         /\ \A i \in Invocations : ipc[i] # "free" =>
              /\ iexec[i] = e /\ awaited[e] = i /\ exec[e] \in LambdaStates
              /\ rpc \notin {"release", "settle", "row"} /\ rseen = None
<1>1. RowAgrees(e) /\ \A i \in Invocations : InvocationAgrees(e, i)
  BY DEF SoleInv, Agrees
<1>2. \A f \in Executions : run[f] # "none" => f = e
  BY DEF Sole, DistributedInv, Control, ExecutionOK
<1>3. arn # None => arn = e
  BY DEF Sole, DistributedInv, RowTyped, SoleInv, Receipt, ReceiptRow
<1>4. ASSUME NEW i \in Invocations, ipc[i] # "free"
      PROVE  iexec[i] = e /\ awaited[e] = i /\ exec[e] \in LambdaStates
  <2>1. ~late
    BY DEF Sole
  <2>2. awaited[iexec[i]] = i
    BY <1>4, <2>1, Zenon DEF SoleInv, Awaits
  <2>3. iexec[i] \in Executions
    BY <1>4 DEF DistributedInv, Control, InvocationOK
  <2>4. exec[iexec[i]] \in LambdaStates
    BY <2>2, <2>3 DEF DistributedInv, Control, ExecutionOK
  <2>5. iexec[i] = e
    BY <2>3, <2>4 DEF Sole, LambdaStates
  <2> QED
    BY <2>2, <2>4, <2>5
<1>5. ASSUME NEW i \in Invocations, ipc[i] # "free"
      PROVE  rpc \notin {"release", "settle", "row"} /\ rseen = None
  <2>1. exec[e] \in LiveExecutions
    BY <1>4, <1>5 DEF LiveExecutions
  <2>2. rpc \in {"release", "settle", "row"} => arn # None /\ exec[arn] \notin LiveExecutions
    BY DEF SoleInv, Receipt, ReceiptRow, ReceiptRecon
  <2> QED
    BY <1>3, <2>1, <2>2 DEF SoleInv, Receipt, ReceiptRecon
<1> QED
  BY <1>1, <1>2, <1>3, <1>4, <1>5

\* What is recorded of a sole execution is its own.
LEMMA SoleOutputs ==
  ASSUME DistributedInv, SoleInv, NEW e \in Executions, Sole(e)
  PROVE  /\ status = "completed" => release[e] = "completed" /\ output[e] = ref
         /\ partition.status = "ready" => status = "completed" /\ partition.ref = ref
         /\ exec[e] = "succeeded" => release[e] \in TerminalReleases
<1>1. /\ RowAgrees(e)
      /\ \A f \in Executions : run[f] # "none" => f = e
  BY SoleFacts
<1>2. /\ ref # None => ref = e
      /\ status = "completed" => ref # None
      /\ partition.status = "ready" => partition.ref = e
      /\ release[e] = "completed" => output[e] = e
  BY <1>1, OutputsNow DEF DistributedInv
<1>3. exec[e] = "succeeded" => release[e] \in TerminalReleases
  BY DEF SoleInv, Releases, ReleaseOK
<1> QED
  BY <1>1, <1>2, <1>3 DEF RowAgrees

-----------------------------------------------------------------------------
(* A step of one invocation.                                               *)

LEMMA ReceiptKept ==
  ASSUME DistributedInv, Receipt, UNCHANGED <<row, queue, recon>>, ExecutionsGrow,
         \A i \in Invocations : SameLocals(i) \/ ReceiptInvocation(i)'
  PROVE  Receipt'
<1>1. /\ UNCHANGED <<status, distributed, arn, job, ref>>
      /\ UNCHANGED <<mpc, mseen, mattempt>> /\ UNCHANGED <<rpc, rrow, rseen>>
  BY DEF row, queue, recon
<1>2. arn # None => arn \in Executions
  BY DEF DistributedInv, RowTyped
<1>3. ReceiptRow'
  BY <1>1, <1>2 DEF Receipt, ReceiptRow, ExecutionsGrow
<1>4. \A m \in Messages : ReceiptMessage(m)'
  BY <1>1 DEF Receipt, ReceiptMessage, ExecutionsGrow, DistributedInv, AttemptsOK
<1>5. \A i \in Invocations : ReceiptInvocation(i)'
  BY <1>1 DEF Receipt, ReceiptInvocation, SameLocals
<1>6. ReceiptRecon'
  <2>1. rpc \in {"release", "settle", "row"} =>
          arn \in Executions /\ exec[arn] \notin LiveExecutions \cup {"none"}
    BY <1>2 DEF Receipt, ReceiptRow, ReceiptRecon
  <2> QED
    BY <1>1, <2>1 DEF Receipt, ReceiptRecon, ExecutionsGrow
<1> QED
  BY <1>3, <1>4, <1>5, <1>6 DEF Receipt

LEMMA ReleasesKept ==
  ASSUME DistributedInv, Releases, ReleasesGrow,
         \A e \in Executions : ReleaseOK(e)',
         \A i \in Invocations : SameLocals(i) \/ ReleaseRead(i)'
  PROVE  Releases'
<1>1. ASSUME NEW i \in Invocations, SameLocals(i)
      PROVE  ReleaseRead(i)'
  <2>1. ipc[i] # "free" => iexec[i] \in Executions
    BY DEF DistributedInv, Control, InvocationOK
  <2>2. ReleaseRead(i)
    BY DEF Releases
  <2> QED
    BY <1>1, <2>1, <2>2 DEF ReleaseRead, SameLocals, ReleasesGrow, Writing
<1> QED
  BY <1>1 DEF Releases

LEMMA SoleStep ==
  ASSUME DistributedInv, SoleInv, ExecutionsGrow,
         NEW i \in Invocations, ipc[i] # "free",
         \A j \in Invocations \ {i} : SameLocals(j),
         Receipt',
         ReleasesGrow, \A e \in Executions : ReleaseOK(e)', ReleaseRead(i)',
         Awaits',
         \A e \in Executions : Sole(e) => RowAgrees(e)' /\ InvocationAgrees(e, i)'
  PROVE  SoleInv'
<1>1. Releases'
  BY ReleasesKept DEF SoleInv
<1>2. ASSUME NEW e \in Executions, Sole(e)', NEW j \in Invocations \ {i}
      PROVE  InvocationAgrees(e, j)'
  <2>1. Sole(e)
    BY <1>2, SoleBefore
  <2>2. ipc[j] = "free"
    BY <2>1, SoleFacts
  <2>3. ipc'[j] = "free"
    BY <2>2 DEF SameLocals
  <2> QED
    BY <2>3 DEF InvocationAgrees, Writing
<1>3. Agrees'
  <2> SUFFICES ASSUME NEW e \in Executions, Sole(e)'
               PROVE  RowAgrees(e)' /\ \A j \in Invocations : InvocationAgrees(e, j)'
    BY DEF Agrees
  <2>1. Sole(e)
    BY SoleBefore
  <2> QED
    BY <1>2, <2>1
<1> QED
  BY <1>1, <1>3 DEF SoleInv

LEMMA EndsStep ==
  ASSUME DistributedInv, SoleInv, NEW i \in Invocations, ipc[i] # "free",
         NEW to, Ends(i, to), late => late',
         to \in {"failed", "succeeded", "glue", exec[iexec[i]]}
  PROVE  /\ ExecutionsGrow
         /\ \A j \in Invocations \ {i} : SameLocals(j)
         /\ ipc'[i] = "free" /\ iseen'[i] = None
         /\ \A e \in Executions : exec'[e] = "succeeded" =>
              exec[e] = "succeeded" \/ (to = "succeeded" /\ e = iexec[i])
         /\ Awaits'
<1> DEFINE e == iexec[i]
<1>1. /\ e \in Executions /\ InvocationOK(i) /\ ExecutionOK(e)
      /\ MachineTyped /\ LambdaTyped
  BY DEF DistributedInv, Control, InvocationOK
<1>2. /\ exec' = IF awaited[e] = i THEN [exec EXCEPT ![e] = to] ELSE exec
      /\ awaited' = IF awaited[e] = i THEN [awaited EXCEPT ![e] = None] ELSE awaited
      /\ run' = IF awaited[e] = i /\ to = "glue" THEN [run EXCEPT ![e] = "running"]
                                                  ELSE run
      /\ ipc' = [ipc EXCEPT ![i] = "free"]
      /\ iexec' = [iexec EXCEPT ![i] = None]
      /\ path' = [path EXCEPT ![i] = None]
      /\ iseen' = [iseen EXCEPT ![i] = None]
      /\ iresult' = [iresult EXCEPT ![i] = None]
  BY DEF Ends
<1>3. awaited[e] = i => exec[e] \in LambdaStates
  BY <1>1 DEF ExecutionOK
<1>4. /\ \A j \in Invocations \ {i} : SameLocals(j)
      /\ ipc'[i] = "free" /\ iseen'[i] = None
  BY <1>1, <1>2 DEF LambdaTyped, SameLocals
<1>5. \A f \in Executions :
        /\ exec'[f] = IF awaited[e] = i /\ f = e THEN to ELSE exec[f]
        /\ awaited'[f] = IF awaited[e] = i /\ f = e THEN None ELSE awaited[f]
        /\ run'[f] = IF awaited[e] = i /\ f = e /\ to = "glue" THEN "running"
                                                                ELSE run[f]
  BY <1>1, <1>2 DEF MachineTyped
<1> HIDE DEF e
<1>6. ExecutionsGrow
  <2>1. \A f \in Executions :
          /\ exec[f] # "none" => exec'[f] # "none"
          /\ exec[f] \notin LiveExecutions \cup {"none"} =>
               exec'[f] \notin LiveExecutions
    <3>1. awaited[e] = i => /\ exec[e] \in LiveExecutions
                            /\ to # "none"
      BY <1>3 DEF LambdaStates, LiveExecutions, e
    <3> QED
      BY <1>5, <3>1
  <2> QED
    BY <2>1, Zenon DEF ExecutionsGrow
<1>7. \A f \in Executions : exec'[f] = "succeeded" =>
        exec[f] = "succeeded" \/ (to = "succeeded" /\ f = e)
  BY <1>3, <1>5 DEF e, LambdaStates
<1>8. Awaits'
  <2> SUFFICES ASSUME ~late'
               PROVE  /\ \A j \in Invocations : ipc'[j] # "free" => awaited'[iexec'[j]] = j
                      /\ \A f \in Executions : run'[f] = "running" => exec'[f] = "glue"
    BY Zenon DEF Awaits
  <2>1. ~late
    OBVIOUS
  <2>2. /\ \A j \in Invocations : ipc[j] # "free" => awaited[iexec[j]] = j
        /\ \A f \in Executions : run[f] = "running" => exec[f] = "glue"
    BY <2>1, Zenon DEF SoleInv, Awaits
  <2>3. ASSUME NEW j \in Invocations, ipc'[j] # "free"
        PROVE  awaited'[iexec'[j]] = j
    <3>1. j # i /\ ipc[j] # "free" /\ iexec'[j] = iexec[j]
      BY <1>4, <2>3 DEF SameLocals
    <3>2. iexec[j] \in Executions /\ awaited[iexec[j]] = j
      BY <2>2, <3>1 DEF DistributedInv, Control, InvocationOK
    <3> QED
      BY <1>5, <3>1, <3>2
  <2>4. ASSUME NEW f \in Executions, run'[f] = "running"
        PROVE  exec'[f] = "glue"
    <3>1. awaited[e] = i => run[e] # "running"
      BY <1>1, <1>3, <2>2 DEF LambdaStates
    <3> QED
      BY <1>5, <2>2, <2>4, <3>1
  <2> QED
    BY <2>3, <2>4
<1> QED
  BY <1>4, <1>6, <1>7, <1>8 DEF e

\* The row, the ledger and the partition stay as they are.
LEMMA QuietStep ==
  ASSUME DistributedInv, SoleInv, ExecutionsGrow,
         NEW i \in Invocations, ipc[i] # "free",
         \A j \in Invocations \ {i} : SameLocals(j),
         UNCHANGED <<row, queue, ledger, partition, recon>>,
         \A e \in Executions : exec'[e] = "succeeded" =>
           exec[e] = "succeeded" \/ release[e] \in TerminalReleases,
         Awaits', ReceiptInvocation(i)', ReleaseRead(i)',
         \A e \in Executions : Sole(e) => InvocationAgrees(e, i)'
  PROVE  SoleInv'
<1>1. Receipt'
  BY ReceiptKept DEF SoleInv
<1>2. ReleasesGrow /\ \A e \in Executions : ReleaseOK(e)'
  BY DEF SoleInv, Releases, ReleaseOK, ReleasesGrow, ledger
<1>3. ASSUME NEW e \in Executions, Sole(e) PROVE RowAgrees(e)'
  <2>1. RowAgrees(e)
    BY <1>3, SoleFacts
  <2> QED
    BY <2>1 DEF RowAgrees, row, ledger, recon
<1> QED
  BY <1>1, <1>2, <1>3, SoleStep

LEMMA QuietRaises ==
  ASSUME DistributedInv, SoleInv, NEW i \in Invocations, ipc[i] # "free",
         Raises(i) \/ Ends(i, exec[iexec[i]]), late' = late,
         UNCHANGED <<row, queue, ledger, partition, recon>>
  PROVE  SoleInv'
<1>1. PICK to \in {"failed", exec[iexec[i]]} : Ends(i, to)
  BY DEF Raises
<1>2. late => late'
  BY Zenon
<1>3. /\ ExecutionsGrow
      /\ \A j \in Invocations \ {i} : SameLocals(j)
      /\ ipc'[i] = "free" /\ iseen'[i] = None
      /\ \A e \in Executions : exec'[e] = "succeeded" =>
           exec[e] = "succeeded" \/ (to = "succeeded" /\ e = iexec[i])
      /\ Awaits'
  BY <1>1, <1>2, EndsStep
<1>4. \A e \in Executions : exec'[e] = "succeeded" =>
        exec[e] = "succeeded" \/ release[e] \in TerminalReleases
  BY <1>1, <1>3 DEF SoleInv, Releases, ReleaseOK
<1>5. /\ ReceiptInvocation(i)' /\ ReleaseRead(i)'
      /\ \A e \in Executions : InvocationAgrees(e, i)'
  BY <1>3 DEF ReceiptInvocation, ReleaseRead, InvocationAgrees, Writing
<1> QED
  BY <1>3, <1>4, <1>5, QuietStep

\* The execution is told: Returns of a course that is not a failure of the
\* window or the staging.
LEMMA QuietReturns ==
  ASSUME DistributedInv, SoleInv, NEW i \in Invocations, ipc[i] # "free",
         Returns(i), late' = late,
         UNCHANGED <<row, queue, ledger, partition, recon>>,
         path[i] \notin {"start", "window", "staging"} =>
           release[iexec[i]] \in TerminalReleases
  PROVE  SoleInv'
<1>1. CASE path[i] \in {"window", "staging"}
  BY <1>1, QuietRaises DEF Returns
<1>2. CASE path[i] \notin {"window", "staging"}
  <2>1. PICK to \in {"glue", "succeeded"} :
          Ends(i, to) /\ (to = "succeeded" => path[i] # "start")
    BY <1>2 DEF Returns
  <2>2. late => late'
    BY Zenon
  <2>3. /\ ExecutionsGrow
        /\ \A j \in Invocations \ {i} : SameLocals(j)
        /\ ipc'[i] = "free" /\ iseen'[i] = None
        /\ \A e \in Executions : exec'[e] = "succeeded" =>
             exec[e] = "succeeded" \/ (to = "succeeded" /\ e = iexec[i])
        /\ Awaits'
    BY <2>1, <2>2, EndsStep
  <2>4. \A e \in Executions : exec'[e] = "succeeded" =>
          exec[e] = "succeeded" \/ release[e] \in TerminalReleases
    BY <1>2, <2>1, <2>3
  <2>5. /\ ReceiptInvocation(i)' /\ ReleaseRead(i)'
        /\ \A e \in Executions : InvocationAgrees(e, i)'
    BY <2>3 DEF ReceiptInvocation, ReleaseRead, InvocationAgrees, Writing
  <2> QED
    BY <2>3, <2>4, <2>5, QuietStep
<1> QED
  BY <1>1, <1>2

\* An invocation that goes on leaves the machine alone.
LEMMA GoesOn ==
  ASSUME SoleInv, late' = late, UNCHANGED <<exec, awaited, run>>,
         \A i \in Invocations : ipc'[i] # "free" =>
           ipc[i] # "free" /\ iexec'[i] = iexec[i]
  PROVE  ExecutionsGrow /\ Awaits'
<1>1. late => late'
  BY Zenon
<1>2. ExecutionsGrow
  BY <1>1 DEF ExecutionsGrow
<1>3. ASSUME ~late'
      PROVE  /\ \A j \in Invocations : ipc'[j] # "free" => awaited'[iexec'[j]] = j
             /\ \A f \in Executions : run'[f] = "running" => exec'[f] = "glue"
  <2>1. ~late
    BY <1>3
  <2>2. /\ \A j \in Invocations : ipc[j] # "free" => awaited[iexec[j]] = j
        /\ \A f \in Executions : run[f] = "running" => exec[f] = "glue"
    BY <2>1, Zenon DEF SoleInv, Awaits
  <2> QED
    BY <2>2
<1> QED
  BY <1>2, <1>3, Zenon DEF Awaits

-----------------------------------------------------------------------------
(* What the control plane does keeps the agreement.                        *)

\* An invocation that goes on and leaves row, ledger and partition alone.
LEMMA QuietGoes ==
  ASSUME DistributedInv, SoleInv, NEW i \in Invocations, ipc[i] # "free",
         late' = late, UNCHANGED <<exec, awaited, run, iexec>>,
         UNCHANGED <<row, queue, ledger, partition, recon>>,
         \A j \in Invocations \ {i} : SameLocals(j),
         ReceiptInvocation(i)', ReleaseRead(i)',
         \A e \in Executions : Sole(e) => InvocationAgrees(e, i)'
  PROVE  SoleInv'
<1>1. \A j \in Invocations : ipc'[j] # "free" => ipc[j] # "free"
  BY DEF SameLocals
<1>2. ExecutionsGrow /\ Awaits'
  BY <1>1, GoesOn
<1> QED
  BY <1>2, QuietStep

LEMMA NoFaultKeepsLate ==
  ASSUME NoFault \/ Faulty
  PROVE  late' = late
  BY DEF NoFault, Faulty, bounds

LEMMA SelectReleaseAgrees ==
  ASSUME DistributedInv, SoleInv, NEW i \in Invocations, SelectRelease(i)
  PROVE  SoleInv'
<1> DEFINE Stays == UNCHANGED <<exec, awaited, run, iexec, path, iseen, iresult>>
<1>1. /\ ipc[i] = "release" /\ late' = late
      /\ UNCHANGED <<row, queue, ledger, partition, recon>>
      /\ \/ release[iexec[i]] = "reserved" /\ IGoto(i, "settle") /\ Stays
         \/ /\ release[iexec[i]] = ReleaseStatus(i)
            /\ path[i] # "window" /\ IGoto(i, "get") /\ Stays
         \/ Raises(i)
  <2>1. late' = late
    BY NoFaultKeepsLate DEF SelectRelease
  <2>2. AfterRelease(i) => (path[i] # "window" /\ IGoto(i, "get") /\ Stays) \/ Raises(i)
    BY DEF AfterRelease, Returns
  <2> QED
    BY <2>1, <2>2 DEF SelectRelease
<1>2. /\ LambdaTyped /\ iexec[i] \in Executions
      /\ path[i] \in {"window", "staging", "manifest", "result", "failure"}
      /\ ReleaseStatus(i) \in TerminalReleases
  BY <1>1, ReleaseArguments DEF DistributedInv, Control, InvocationOK, PathsAt
<1>3. CASE /\ release[iexec[i]] = "reserved" /\ IGoto(i, "settle") /\ Stays
  <2>1. /\ \A j \in Invocations \ {i} : SameLocals(j)
        /\ ipc'[i] = "settle" /\ iexec'[i] = iexec[i] /\ release' = release
        /\ iseen'[i] = iseen[i] /\ arn' = arn
    BY <1>1, <1>2, <1>3 DEF LambdaTyped, SameLocals, IGoto, row, ledger
  <2>2. ReceiptInvocation(i)' /\ ReleaseRead(i)'
    BY <1>1, <1>3, <2>1 DEF SoleInv, Receipt, ReceiptInvocation, ReleaseRead, Writing
  <2>3. \A e \in Executions : Sole(e) => InvocationAgrees(e, i)'
    BY <1>1, <1>3, <2>1, SoleFacts DEF InvocationAgrees, Writing
  <2> QED
    BY <1>1, <1>3, <2>1, <2>2, <2>3, QuietGoes
<1>4. CASE /\ release[iexec[i]] = ReleaseStatus(i)
           /\ path[i] # "window" /\ IGoto(i, "get") /\ Stays
  <2>1. /\ \A j \in Invocations \ {i} : SameLocals(j)
        /\ ipc'[i] = "get" /\ iexec'[i] = iexec[i] /\ release' = release
        /\ iseen'[i] = iseen[i] /\ arn' = arn /\ ReleaseStatus(i)' = ReleaseStatus(i)
    BY <1>1, <1>2, <1>4 DEF LambdaTyped, SameLocals, IGoto, row, ledger, ReleaseStatus
  <2>2. ReceiptInvocation(i)' /\ ReleaseRead(i)'
    BY <1>1, <1>2, <1>4, <2>1
       DEF SoleInv, Receipt, ReceiptInvocation, ReleaseRead, Writing
  <2>3. \A e \in Executions : Sole(e) => InvocationAgrees(e, i)'
    BY <1>1, <1>4, <2>1, SoleFacts DEF InvocationAgrees, Writing
  <2> QED
    BY <1>1, <1>4, <2>1, <2>2, <2>3, QuietGoes
<1> QED
  BY <1>1, <1>3, <1>4, QuietRaises

\* Nothing is final before the execution is recorded.
LEMMA GetRowAgrees ==
  ASSUME DistributedInv, SoleInv, NEW i \in Invocations, GetRow(i)
  PROVE  SoleInv'
<1> DEFINE Stays == UNCHANGED <<exec, awaited, run, iexec, path, iresult>>
<1>1. /\ ipc[i] = "get" /\ late' = late
      /\ UNCHANGED <<row, queue, ledger, partition, recon>>
      /\ \/ IsReplay(i) /\ AfterRow(i)
         \/ /\ status \in {"dispatched", "processing"}
            /\ IGoto(i, "move") /\ Stays /\ iseen' = iseen
         \/ Raises(i)
  <2>1. late' = late
    BY NoFaultKeepsLate DEF GetRow
  <2> QED
    BY <2>1 DEF GetRow
<1>2. /\ LambdaTyped /\ iexec[i] \in Executions
      /\ path[i] \in {"blocked", "staging", "start", "manifest", "result", "failure"}
      /\ RowStatus(i) \in TerminalRows \cup {"processing"}
      /\ RowStatus(i) = "processing" <=> path[i] = "start"
      /\ RowJob(i) # None
      /\ path[i] = "result" => iresult[i].status \in TerminalRows
  <2>1. /\ iexec[i] \in Executions
        /\ path[i] \in {"blocked", "staging", "start", "manifest", "result", "failure"}
        /\ path[i] = "result" => iresult[i] \in Results
    BY <1>1 DEF DistributedInv, Control, InvocationOK, PathsAt
  <2>2. path[i] = "result" => iresult[i].status \in TerminalRows
    BY <2>1 DEF Results
  <2>3. RowStatus(i) = "processing" <=> path[i] = "start"
    BY <2>1, <2>2 DEF RowStatus, TerminalRows
  <2> QED
    BY <1>1, <2>1, <2>2, <2>3, RowArguments, NoneIsNoStatus DEF DistributedInv, Control
<1>3. ReceiptInvocation(i) /\ ReceiptRow /\ iseen[i] = None
      /\ (path[i] # "start" => release[iexec[i]] \in TerminalReleases)
  BY <1>1 DEF SoleInv, Receipt, ReceiptInvocation, Releases, ReleaseRead
<1>4. CASE IsReplay(i) /\ AfterRow(i)
  <2>1. CASE path[i] # "result"
    BY <1>1, <1>3, <1>4, <2>1, QuietReturns DEF AfterRow
  <2>2. CASE path[i] = "result"
    <3>1. PICK label \in {"publish", "annotate"} :
            IGoto(i, label) /\ iseen' = [iseen EXCEPT ![i] = None] /\ Stays
      BY <1>4, <2>2 DEF AfterRow
    <3>2. /\ status = iresult[i].status /\ job # None
      BY <1>2, <1>4, <2>2 DEF IsReplay, RowStatus
    <3>3. /\ \A j \in Invocations \ {i} : SameLocals(j)
          /\ ipc'[i] = label /\ iexec'[i] = iexec[i] /\ release' = release
          /\ iseen'[i] = None /\ arn' = arn /\ status' = status
          /\ path'[i] = path[i] /\ iresult'[i] = iresult[i]
          /\ ReleaseStatus(i)' = ReleaseStatus(i)
      BY <1>1, <1>2, <3>1 DEF LambdaTyped, SameLocals, IGoto, row, ledger, ReleaseStatus
    <3>4. ReceiptInvocation(i)' /\ ReleaseRead(i)'
      BY <1>3, <2>2, <3>1, <3>2, <3>3 DEF ReceiptInvocation, ReceiptRow, ReleaseRead
    <3>5. \A e \in Executions : Sole(e) => InvocationAgrees(e, i)'
      BY <1>1, <2>2, <3>1, <3>2, <3>3, SoleFacts DEF InvocationAgrees
    <3> QED
      BY <1>1, <3>1, <3>3, <3>4, <3>5, QuietGoes
  <2> QED
    BY <2>1, <2>2
<1>5. CASE /\ status \in {"dispatched", "processing"}
           /\ IGoto(i, "move") /\ Stays /\ iseen' = iseen
  <2>1. arn # None
    BY <1>3, <1>5 DEF ReceiptRow, Early
  <2>2. /\ \A j \in Invocations \ {i} : SameLocals(j)
        /\ ipc'[i] = "move" /\ iexec'[i] = iexec[i] /\ release' = release
        /\ iseen'[i] = None /\ arn' = arn /\ status' = status
        /\ path'[i] = path[i] /\ iresult'[i] = iresult[i]
        /\ ReleaseStatus(i)' = ReleaseStatus(i)
    BY <1>1, <1>2, <1>3, <1>5 DEF LambdaTyped, SameLocals, IGoto, row, ledger, ReleaseStatus
  <2>3. ReceiptInvocation(i)' /\ ReleaseRead(i)'
    BY <1>3, <2>1, <2>2 DEF ReceiptInvocation, ReleaseRead
  <2>4. \A e \in Executions : Sole(e) => InvocationAgrees(e, i)'
    BY <1>1, <1>5, <2>2, SoleFacts DEF InvocationAgrees
  <2> QED
    BY <1>1, <1>5, <2>2, <2>3, <2>4, QuietGoes
<1> QED
  BY <1>1, <1>4, <1>5, QuietRaises

LEMMA SelectForInvocationAgrees ==
  ASSUME DistributedInv, SoleInv, NEW i \in Invocations, SelectForInvocation(i)
  PROVE  SoleInv'
<1>1. /\ ipc[i] = "move" /\ late' = late
      /\ UNCHANGED <<row, queue, ledger, partition, recon>>
      /\ \/ /\ iseen' = [iseen EXCEPT ![i] = RowNow]
            /\ UNCHANGED <<exec, awaited, run, ipc, iexec, path, iresult>>
         \/ Raises(i)
  <2>1. late' = late
    BY NoFaultKeepsLate DEF SelectForInvocation
  <2> QED
    BY <2>1 DEF SelectForInvocation
<1>2. CASE /\ iseen' = [iseen EXCEPT ![i] = RowNow]
           /\ UNCHANGED <<exec, awaited, run, ipc, iexec, path, iresult>>
  <2>1. /\ \A j \in Invocations \ {i} : SameLocals(j)
        /\ iseen'[i] = RowNow /\ arn' = arn /\ status' = status
        /\ release' = release /\ ReleaseStatus(i)' = ReleaseStatus(i)
    BY <1>1, <1>2 DEF DistributedInv, Control, LambdaTyped, SameLocals, row, ledger,
                      ReleaseStatus
  <2>2. arn # None /\ distributed
    BY <1>1 DEF SoleInv, Receipt, ReceiptRow, ReceiptInvocation, Writing
  <2>3. ReceiptInvocation(i)' /\ ReleaseRead(i)'
    BY <1>1, <1>2, <2>1, <2>2
       DEF SoleInv, Releases, ReceiptInvocation, ReleaseRead, Writing, RowNow
  <2>4. \A e \in Executions : Sole(e) => InvocationAgrees(e, i)'
    BY <1>1, <1>2, <2>1, SoleFacts DEF InvocationAgrees
  <2> QED
    BY <1>1, <1>2, <2>1, <2>3, <2>4, QuietGoes
<1> QED
  BY <1>1, <1>2, QuietRaises

\* Before the release and the row are reached, a course promises nothing.
LEMMA CourseTaken ==
  ASSUME SoleInv, NEW i \in Invocations, UNCHANGED <<iseen, arn>>,
         ipc[i] \in {"reserve", "register", "stage", "load", "verify"},
         \/ ipc'[i] \in {"register", "stage", "verify", "release"}
         \/ ipc'[i] = "get" /\ path'[i] \in {"start", "blocked"}
  PROVE  /\ ReceiptInvocation(i)'
         /\ ipc'[i] # "get" \/ path'[i] # "blocked" => ReleaseRead(i)'
         /\ \A e \in Executions : InvocationAgrees(e, i)'
<1>1. ReceiptInvocation(i)'
  BY DEF SoleInv, Receipt, ReceiptInvocation, Writing
<1>2. ipc'[i] # "get" \/ path'[i] # "blocked" => ReleaseRead(i)'
  BY DEF ReleaseRead, Writing
<1>3. \A e \in Executions : InvocationAgrees(e, i)'
  BY DEF InvocationAgrees, Writing
<1> QED
  BY <1>1, <1>2, <1>3

\* stage, load and verify.
LEMMA StagingAgrees ==
  ASSUME DistributedInv, SoleInv, NEW i \in Invocations,
         Stage(i) \/ Load(i) \/ Verify(i)
  PROVE  SoleInv'
<1>1. LambdaTyped /\ late' = late
  BY NoFaultKeepsLate DEF DistributedInv, Control, Stage, Load, Verify
<1>2. UNCHANGED <<row, queue, machine, ledger, partition, iexec, iseen, recon>>
  BY DEF Stage, Load, Verify
<1>3. /\ ipc[i] \in {"stage", "load", "verify"}
      /\ \A j \in Invocations \ {i} : SameLocals(j)
      /\ \/ ipc'[i] \in {"verify", "release"}
         \/ ipc'[i] = "get" /\ path'[i] = "start"
  <2>1. CASE Stage(i)
    BY <1>1, <2>1 DEF Stage, LambdaTyped, ITakes, IGoto, SameLocals
  <2>2. CASE Load(i)
    BY <1>1, <2>2 DEF Load, LambdaTyped, ITakes, IGoto, SameLocals
  <2>3. CASE Verify(i)
    BY <1>1, <2>3 DEF Verify, LambdaTyped, ITakes, IGoto, SameLocals
  <2> QED
    BY <2>1, <2>2, <2>3
<1>4. /\ ReceiptInvocation(i)' /\ ReleaseRead(i)'
      /\ \A e \in Executions : InvocationAgrees(e, i)'
  BY <1>2, <1>3, CourseTaken DEF row
<1> QED
  BY <1>1, <1>2, <1>3, <1>4, QuietGoes DEF machine

LEMMA RegisterAgrees ==
  ASSUME DistributedInv, SoleInv, NEW i \in Invocations, Register(i)
  PROVE  SoleInv'
<1>1. LambdaTyped /\ PartitionTyped /\ late' = late
  BY NoFaultKeepsLate DEF DistributedInv, Control, Register
<1>2. /\ UNCHANGED <<row, queue, machine, ledger, iexec, iseen, iresult, recon>>
      /\ ipc[i] = "register"
      /\ partition'.status = "ready" => partition.status = "ready"
  BY <1>1 DEF Register, PartitionTyped
<1>3. /\ \A j \in Invocations \ {i} : SameLocals(j)
      /\ ipc'[i] \in {"stage", "release"}
  BY <1>1 DEF Register, LambdaTyped, ITakes, IGoto, SameLocals
<1>4. /\ ReceiptInvocation(i)' /\ ReleaseRead(i)'
      /\ \A e \in Executions : InvocationAgrees(e, i)'
  BY <1>2, <1>3, CourseTaken DEF row
<1>5. ExecutionsGrow /\ Awaits'
  <2>1. \A j \in Invocations : ipc'[j] # "free" => ipc[j] # "free"
    BY <1>2, <1>3 DEF SameLocals
  <2> QED
    BY <1>1, <1>2, <2>1, GoesOn DEF machine
<1>6. Receipt'
  BY <1>2, <1>3, <1>4, <1>5, ReceiptKept DEF SoleInv
<1>7. ReleasesGrow /\ \A e \in Executions : ReleaseOK(e)'
  BY <1>2 DEF SoleInv, Releases, ReleaseOK, ReleasesGrow, ledger, machine
<1>8. ASSUME NEW e \in Executions, Sole(e) PROVE RowAgrees(e)'
  <2>1. RowAgrees(e)
    BY <1>8, SoleFacts
  <2> QED
    BY <1>2, <2>1 DEF RowAgrees, row, ledger, recon
<1> QED
  BY <1>2, <1>3, <1>4, <1>5, <1>6, <1>7, <1>8, SoleStep

LEMMA ReserveAgrees ==
  ASSUME DistributedInv, SoleInv, NEW i \in Invocations, Reserve(i)
  PROVE  SoleInv'
<1> DEFINE e == iexec[i]
<1>1. /\ LambdaTyped /\ LedgerTyped /\ late' = late
      /\ ipc[i] = "reserve" /\ e \in Executions
      /\ UNCHANGED <<row, queue, machine, partition, iexec, iseen, iresult, recon>>
  BY NoFaultKeepsLate DEF DistributedInv, Control, InvocationOK, Reserve
<1>2. PICK d \in {"allowed", "blocked"} :
        \/ decision[e] = d /\ UNCHANGED ledger
        \/ /\ decision[e] = "none"
           /\ decision' = [decision EXCEPT ![e] = d]
           /\ release' = [release EXCEPT ![e] = IF d = "allowed" THEN "reserved"
                                                                 ELSE "blocked"]
  <2>1. decision[e] \in {"none", "allowed", "blocked"}
    BY <1>1 DEF LedgerTyped
  <2> QED
    BY <2>1 DEF Reserve, SetRelease
<1>3. /\ decision'[e] = d
      /\ \/ d = "allowed" /\ ITakes(i, "prepare", "register")
         \/ d = "blocked" /\ ITakes(i, "blocked", "get")
  <2>1. decision'[e] = d
    BY <1>1, <1>2 DEF LedgerTyped, ledger
  <2> QED
    BY <2>1 DEF Reserve
<1>4. /\ \A j \in Invocations \ {i} : SameLocals(j)
      /\ ipc'[i] = IF d = "allowed" THEN "register" ELSE "get"
      /\ path'[i] = IF d = "allowed" THEN "prepare" ELSE "blocked"
  BY <1>1, <1>3 DEF LambdaTyped, ITakes, IGoto, SameLocals
<1>5. \A f \in Executions :
        \/ decision'[f] = decision[f] /\ release'[f] = release[f]
        \/ /\ decision[f] = "none" /\ decision'[f] = d
           /\ release'[f] = IF d = "allowed" THEN "reserved" ELSE "blocked"
  BY <1>1, <1>2 DEF LedgerTyped, ledger
<1>6. \A f \in Executions : ReleaseOK(f)
  BY DEF SoleInv, Releases
<1>7. ReleasesGrow
  BY <1>5, <1>6 DEF ReleasesGrow, ReleaseOK, TerminalReleases
<1>8. \A f \in Executions : ReleaseOK(f)'
  <2> SUFFICES ASSUME NEW f \in Executions PROVE ReleaseOK(f)'
    OBVIOUS
  <2>1. exec' = exec
    BY <1>1 DEF machine
  <2>2. CASE decision'[f] = decision[f] /\ release'[f] = release[f]
    BY <1>6, <2>1, <2>2 DEF ReleaseOK
  <2>3. CASE /\ decision[f] = "none" /\ decision'[f] = d
             /\ release'[f] = IF d = "allowed" THEN "reserved" ELSE "blocked"
    BY <1>6, <2>1, <2>3 DEF ReleaseOK, TerminalReleases
  <2> QED
    BY <1>5, <2>2, <2>3
<1>9. ExecutionsGrow /\ Awaits'
  <2>1. \A j \in Invocations : ipc'[j] # "free" => ipc[j] # "free"
    BY <1>1, <1>4 DEF SameLocals
  <2> QED
    BY <1>1, <2>1, GoesOn DEF machine
<1>10. /\ ReceiptInvocation(i)'
       /\ ReleaseRead(i)'
       /\ \A f \in Executions : InvocationAgrees(f, i)'
  <2>1. /\ ReceiptInvocation(i)'
        /\ ipc'[i] # "get" \/ path'[i] # "blocked" => ReleaseRead(i)'
        /\ \A f \in Executions : InvocationAgrees(f, i)'
    BY <1>1, <1>4, CourseTaken DEF row
  <2>2. CASE d = "blocked"
    <3>1. release'[e] = "blocked" /\ iexec'[i] = e
      BY <1>1, <1>3, <1>8, <2>2 DEF ReleaseOK
    <3> HIDE DEF e
    <3> QED
      BY <1>4, <2>1, <2>2, <3>1 DEF ReleaseRead, TerminalReleases, Writing
  <2> QED
    BY <1>4, <2>1, <2>2
<1>11. Receipt'
  BY <1>1, <1>4, <1>9, <1>10, ReceiptKept DEF SoleInv
<1>12. ASSUME NEW f \in Executions, Sole(f) PROVE RowAgrees(f)'
  <2>1. RowAgrees(f)
    BY <1>12, SoleFacts
  <2>2. release[f] = "completed" => release'[f] = "completed"
    BY <1>5, <1>6 DEF ReleaseOK
  <2> QED
    BY <1>1, <2>1, <2>2 DEF RowAgrees, row, recon
<1> HIDE DEF e
<1> QED
  BY <1>1, <1>4, <1>7, <1>8, <1>9, <1>10, <1>11, <1>12, SoleStep

\* UPDATE ... WHERE status = 'reserved': a sole invocation finds what it read.
LEMMA UpdateReleaseAgrees ==
  ASSUME DistributedInv, SoleInv, NEW i \in Invocations, UpdateRelease(i)
  PROVE  SoleInv'
<1> DEFINE e == iexec[i]
           Stays == UNCHANGED <<exec, awaited, run, iexec, path, iseen, iresult>>
<1>1. /\ ipc[i] = "settle" /\ late' = late
      /\ UNCHANGED <<row, queue, result, decision, partition, recon>>
      /\ \/ path[i] # "window" /\ IGoto(i, "get") /\ Stays
         \/ Raises(i)
      /\ IF release[e] = "reserved"
         THEN release' = [release EXCEPT ![e] = ReleaseStatus(i)]
         ELSE release' = release
  <2>1. late' = late
    BY NoFaultKeepsLate DEF UpdateRelease
  <2>2. AfterRelease(i) => (path[i] # "window" /\ IGoto(i, "get") /\ Stays) \/ Raises(i)
    BY DEF AfterRelease, Returns
  <2> QED
    BY <2>1, <2>2 DEF UpdateRelease, SetRelease
<1>2. /\ LambdaTyped /\ LedgerTyped /\ e \in Executions
      /\ path[i] \in {"window", "staging", "manifest", "result", "failure"}
      /\ ReleaseStatus(i) \in TerminalReleases
      /\ release[e] \in {"reserved"} \cup TerminalReleases
  BY <1>1, ReleaseArguments
     DEF DistributedInv, Control, InvocationOK, PathsAt, SoleInv, Releases, ReleaseRead
<1>3. \A f \in Executions :
        release'[f] = IF f = e /\ release[e] = "reserved" THEN ReleaseStatus(i)
                                                          ELSE release[f]
  BY <1>1, <1>2 DEF LedgerTyped
<1>4. release'[e] \in TerminalReleases
  BY <1>2, <1>3
<1> HIDE DEF e
<1>5. ReleasesGrow
  BY <1>2, <1>3 DEF ReleasesGrow
<1>6. /\ ExecutionsGrow
      /\ \A j \in Invocations \ {i} : SameLocals(j)
      /\ Awaits'
      /\ \A f \in Executions : exec'[f] = "succeeded" => exec[f] = "succeeded"
      /\ \/ ipc'[i] = "free" /\ iseen'[i] = None
         \/ /\ ipc'[i] = "get" /\ iexec'[i] = e /\ iseen'[i] = iseen[i]
            /\ ReleaseStatus(i)' = ReleaseStatus(i)
  <2>1. CASE path[i] # "window" /\ IGoto(i, "get") /\ Stays
    <3>1. /\ \A j \in Invocations \ {i} : SameLocals(j)
          /\ ipc'[i] = "get" /\ iexec'[i] = e /\ iseen'[i] = iseen[i]
          /\ ReleaseStatus(i)' = ReleaseStatus(i)
          /\ exec' = exec
      BY <1>2, <2>1 DEF LambdaTyped, IGoto, SameLocals, ReleaseStatus, e
    <3>2. \A j \in Invocations : ipc'[j] # "free" => ipc[j] # "free"
      BY <1>1, <3>1 DEF SameLocals
    <3>3. ExecutionsGrow /\ Awaits'
      BY <1>1, <2>1, <3>2, GoesOn
    <3> QED
      BY <3>1, <3>3
  <2>2. CASE Raises(i)
    <3>1. late => late'
      BY <1>1, Zenon
    <3> QED
      BY <1>1, <2>2, <3>1, EndsStep DEF Raises
  <2> QED
    BY <1>1, <2>1, <2>2
<1>7. \A f \in Executions : ReleaseOK(f)'
  <2> SUFFICES ASSUME NEW f \in Executions PROVE ReleaseOK(f)'
    OBVIOUS
  <2>1. ReleaseOK(f)
    BY DEF SoleInv, Releases
  <2>2. release[f] = "reserved" => decision[f] \notin {"none", "blocked"}
    BY <2>1 DEF ReleaseOK
  <2> QED
    BY <1>1, <1>2, <1>3, <1>6, <2>1, <2>2 DEF ReleaseOK, TerminalReleases
<1>8. ReceiptInvocation(i)' /\ ReleaseRead(i)'
  <2>1. ReceiptInvocation(i)
    BY DEF SoleInv, Receipt
  <2> QED
    BY <1>1, <1>4, <1>6, <2>1 DEF ReceiptInvocation, ReleaseRead, Writing
<1>9. Receipt'
  BY <1>1, <1>6, <1>8, ReceiptKept DEF SoleInv
<1>10. ASSUME NEW f \in Executions, Sole(f)
       PROVE  RowAgrees(f)' /\ InvocationAgrees(f, i)'
  <2>1. /\ RowAgrees(f) /\ f = e /\ InvocationAgrees(f, i)
    BY <1>1, <1>10, SoleFacts DEF e
  <2>2. release[e] = "reserved"
    BY <1>1, <2>1 DEF InvocationAgrees
  <2>3. release'[e] = ReleaseStatus(i)
    BY <1>2, <1>3, <2>2
  <2>4. RowAgrees(f)'
    BY <1>1, <2>1, <2>2 DEF RowAgrees, row, recon
  <2>5. InvocationAgrees(f, i)'
    BY <1>6, <2>1, <2>3 DEF InvocationAgrees, Writing
  <2> QED
    BY <2>4, <2>5
<1> QED
  BY <1>1, <1>5, <1>6, <1>7, <1>8, <1>9, <1>10, SoleStep

\* The row of a recorded execution is written by whoever has read it.
LEMMA ReceiptWritten ==
  ASSUME DistributedInv, Receipt, ExecutionsGrow, UNCHANGED queue,
         arn # None, arn' = arn, distributed',
         status' \in {"dispatched", "processing"} \cup TerminalRows,
         \A i \in Invocations : SameLocals(i) \/ ReceiptInvocation(i)',
         ReceiptRecon'
  PROVE  Receipt'
<1>1. UNCHANGED <<mpc, mseen, mattempt>> /\ arn \in Executions
  BY DEF queue, DistributedInv, RowTyped
<1>2. ReceiptRow'
  BY <1>1 DEF Receipt, ReceiptRow, ExecutionsGrow
<1>3. \A m \in Messages : ReceiptMessage(m)'
  BY <1>1 DEF Receipt, ReceiptMessage, ExecutionsGrow, DistributedInv, AttemptsOK
<1>4. \A i \in Invocations : ReceiptInvocation(i)'
  BY DEF Receipt, ReceiptInvocation, SameLocals
<1> QED
  BY <1>2, <1>3, <1>4 DEF Receipt

LEMMA ReconSees ==
  ASSUME DistributedInv, Receipt, ExecutionsGrow, UNCHANGED recon, arn # None, arn' = arn
  PROVE  ReceiptRecon'
<1>1. UNCHANGED <<rpc, rrow, rseen>> /\ arn \in Executions
  BY DEF recon, DistributedInv, RowTyped
<1>2. exec[arn] # "none"
  BY DEF Receipt, ReceiptRow
<1> QED
  BY <1>1, <1>2 DEF Receipt, ReceiptRecon, ExecutionsGrow

\* The update that a sole invocation makes is the one its release says.
LEMMA UpdateForInvocationAgrees ==
  ASSUME DistributedInv, SoleInv, NEW i \in Invocations, UpdateForInvocation(i)
  PROVE  SoleInv'
<1> DEFINE e == iexec[i]
           Stays == UNCHANGED <<exec, awaited, run, iexec, path, iresult>>
<1>1. /\ ipc[i] = "move" /\ iseen[i] # None /\ late' = late
      /\ UNCHANGED <<queue, result, ledger, partition, recon>>
      /\ UpdateRow(iseen[i], RowStatus(i), IF path[i] = "start" THEN 1 ELSE 0, FALSE,
                   None, RowJob(i), OutputRef(i))
      /\ AfterRow(i)
  BY NoFaultKeepsLate DEF UpdateForInvocation
<1>2. /\ LambdaTyped /\ e \in Executions
      /\ path[i] \in {"blocked", "staging", "start", "manifest", "result", "failure"}
      /\ RowStatus(i) \in TerminalRows \cup {"processing"}
      /\ RowStatus(i) = "completed" => path[i] = "result" /\ iresult[i].status = "completed"
      /\ path[i] = "result" => RowStatus(i) = iresult[i].status
  <2>1. /\ e \in Executions
        /\ path[i] \in {"blocked", "staging", "start", "manifest", "result", "failure"}
    BY <1>1 DEF DistributedInv, Control, InvocationOK, PathsAt
  <2>2. RowStatus(i) = "completed" => path[i] = "result" /\ iresult[i].status = "completed"
    BY <2>1 DEF RowStatus
  <2>3. path[i] = "result" => RowStatus(i) = iresult[i].status
    BY DEF RowStatus
  <2> QED
    BY <1>1, <2>1, <2>2, <2>3, RowArguments DEF DistributedInv, Control
<1>3. /\ arn # None /\ iseen[i].arn = arn /\ iseen[i].distributed
      /\ path[i] # "start" => release[e] \in TerminalReleases
  BY <1>1 DEF SoleInv, Receipt, ReceiptInvocation, Releases, ReleaseRead, Writing
<1>4. /\ status' = RowStatus(i) /\ arn' = arn
      /\ distributed' = (iseen[i].distributed \/ FALSE)
  BY <1>1, <1>3 DEF UpdateRow
<1>5. distributed'
  BY <1>3, <1>4, Zenon
<1> HIDE DEF e
<1>6. /\ ExecutionsGrow
      /\ \A j \in Invocations \ {i} : SameLocals(j)
      /\ Awaits' /\ iseen'[i] = None
      /\ \A f \in Executions : exec'[f] = "succeeded" =>
           exec[f] = "succeeded" \/ (f = e /\ path[i] # "start")
      /\ \/ ipc'[i] = "free"
         \/ /\ path[i] = "result" /\ path'[i] = "result" /\ iexec'[i] = e
            /\ ipc'[i] \in {"publish", "annotate"}
            /\ iresult'[i] = iresult[i] /\ ReleaseStatus(i)' = ReleaseStatus(i)
  <2>1. CASE path[i] # "result"
    <3>1. PICK to \in {"glue", "succeeded", "failed"} :
            Ends(i, to) /\ (to = "succeeded" => path[i] # "start")
      BY <1>1, <2>1 DEF AfterRow, Returns, Raises
    <3>2. late => late'
      BY <1>1, Zenon
    <3> QED
      BY <1>1, <3>1, <3>2, EndsStep DEF e
  <2>2. CASE path[i] = "result"
    <3>1. PICK label \in {"publish", "annotate"} :
            IGoto(i, label) /\ iseen' = [iseen EXCEPT ![i] = None] /\ Stays
      BY <1>1, <2>2 DEF AfterRow
    <3>2. /\ \A j \in Invocations \ {i} : SameLocals(j)
          /\ ipc'[i] = label /\ iexec'[i] = e /\ iseen'[i] = None
          /\ iresult'[i] = iresult[i] /\ path'[i] = "result"
          /\ ReleaseStatus(i)' = ReleaseStatus(i) /\ exec' = exec
      BY <1>2, <2>2, <3>1 DEF LambdaTyped, IGoto, SameLocals, ReleaseStatus, e
    <3>3. \A j \in Invocations : ipc'[j] # "free" => ipc[j] # "free"
      BY <1>1, <3>2 DEF SameLocals
    <3>4. ExecutionsGrow /\ Awaits'
      BY <1>1, <3>1, <3>3, GoesOn
    <3> QED
      BY <2>2, <3>1, <3>2, <3>4
  <2> QED
    BY <2>1, <2>2
<1>7. release' = release /\ decision' = decision
  BY <1>1 DEF ledger
<1>8. ReleasesGrow /\ \A f \in Executions : ReleaseOK(f)'
  BY <1>3, <1>6, <1>7 DEF ReleasesGrow, SoleInv, Releases, ReleaseOK
<1>9. ReceiptInvocation(i)' /\ ReleaseRead(i)'
  BY <1>3, <1>4, <1>6, <1>7 DEF ReceiptInvocation, ReleaseRead, Writing
<1>10. Receipt'
  BY <1>1, <1>2, <1>3, <1>4, <1>5, <1>6, <1>9, ReceiptWritten, ReconSees DEF SoleInv
<1>11. ASSUME NEW f \in Executions, Sole(f)
       PROVE  RowAgrees(f)' /\ InvocationAgrees(f, i)'
  <2>1. RowAgrees(f) /\ f = e /\ InvocationAgrees(f, i) /\ rseen = None
    BY <1>1, <1>11, SoleFacts DEF e
  <2>2. /\ status \in {"dispatched", "processing"}
        /\ path[i] \notin {"start", "blocked"} => release[e] = ReleaseStatus(i)
    BY <1>1, <2>1 DEF InvocationAgrees, Writing
  <2>3. RowStatus(i) = "completed" => release[e] = "completed"
    BY <1>2, <2>2 DEF ReleaseStatus
  <2>4. RowAgrees(f)'
    BY <1>1, <1>4, <1>7, <2>1, <2>2, <2>3 DEF RowAgrees, recon
  <2>5. InvocationAgrees(f, i)'
    <3>1. CASE ipc'[i] = "free"
      BY <3>1 DEF InvocationAgrees, Writing
    <3>2. CASE /\ path[i] = "result" /\ ipc'[i] \in {"publish", "annotate"}
               /\ iresult'[i] = iresult[i] /\ ReleaseStatus(i)' = ReleaseStatus(i)
      <4>1. status' = iresult'[i].status /\ release'[f] = ReleaseStatus(i)'
        BY <1>2, <1>4, <1>7, <2>1, <2>2, <3>2
      <4> QED
        BY <3>2, <4>1 DEF InvocationAgrees
    <3> QED
      BY <1>6, <3>1, <3>2
  <2> QED
    BY <2>4, <2>5
<1> QED
  BY <1>1, <1>6, <1>8, <1>9, <1>10, <1>11, SoleStep

LEMMA PublishAgrees ==
  ASSUME DistributedInv, SoleInv, NEW i \in Invocations, Publish(i)
  PROVE  SoleInv'
<1> DEFINE mine == [status |-> "ready", ref |-> iresult[i].by, paid |-> iexec[i]]
<1>1. /\ ipc[i] = "publish" /\ late' = late
      /\ UNCHANGED <<row, queue, result, ledger, recon>>
      /\ \/ /\ partition' = mine /\ IGoto(i, "annotate")
            /\ UNCHANGED <<exec, awaited, run, iexec, path, iseen, iresult>>
         \/ partition' = partition /\ Raises(i)
  BY NoFaultKeepsLate DEF Publish
<1>2. /\ LambdaTyped /\ iexec[i] \in Executions /\ path[i] = "result"
      /\ iresult[i].status = "completed"
  BY <1>1 DEF DistributedInv, Control, InvocationOK, PathsAt
<1>3. CASE /\ partition' = mine /\ IGoto(i, "annotate")
           /\ UNCHANGED <<exec, awaited, run, iexec, path, iseen, iresult>>
  <2>1. /\ \A j \in Invocations \ {i} : SameLocals(j)
        /\ ipc'[i] = "annotate" /\ path'[i] = path[i] /\ iexec'[i] = iexec[i]
        /\ iseen'[i] = iseen[i] /\ iresult'[i] = iresult[i]
        /\ ReleaseStatus(i)' = ReleaseStatus(i)
    BY <1>2, <1>3 DEF LambdaTyped, IGoto, SameLocals, ReleaseStatus
  <2>2. UNCHANGED <<status, arn, release, decision, rseen>>
    BY <1>1 DEF row, ledger, recon
  <2>3. \A j \in Invocations : ipc'[j] # "free" => ipc[j] # "free"
    BY <1>1, <2>1 DEF SameLocals
  <2>4. ExecutionsGrow /\ Awaits'
    BY <1>1, <1>3, <2>3, GoesOn
  <2>5. ReceiptInvocation(i)' /\ ReleaseRead(i)'
    BY <1>1, <1>2, <2>1, <2>2
       DEF SoleInv, Receipt, Releases, ReceiptInvocation, ReleaseRead, Writing
  <2>6. Receipt'
    BY <1>1, <2>1, <2>4, <2>5, ReceiptKept DEF SoleInv
  <2>7. ReleasesGrow /\ \A f \in Executions : ReleaseOK(f)'
    BY <1>3, <2>2 DEF ReleasesGrow, SoleInv, Releases, ReleaseOK
  <2>8. ASSUME NEW f \in Executions, Sole(f)
        PROVE  RowAgrees(f)' /\ InvocationAgrees(f, i)'
    <3>1. RowAgrees(f) /\ InvocationAgrees(f, i)
      BY <1>1, <2>8, SoleFacts
    <3>2. status = "completed"
      BY <1>1, <1>2, <3>1 DEF InvocationAgrees
    <3> QED
      BY <1>1, <1>2, <2>1, <2>2, <3>1, <3>2 DEF RowAgrees, InvocationAgrees, Writing
  <2> HIDE DEF mine
  <2> QED
    BY <1>1, <2>1, <2>4, <2>5, <2>6, <2>7, <2>8, SoleStep
<1>4. CASE partition' = partition /\ Raises(i)
  BY <1>1, <1>4, QuietRaises
<1> QED
  BY <1>1, <1>3, <1>4

LEMMA GetToAnnotateAgrees ==
  ASSUME DistributedInv, SoleInv, NEW i \in Invocations, GetToAnnotate(i)
  PROVE  SoleInv'
<1>1. /\ ipc[i] = "annotate" /\ late' = late
      /\ UNCHANGED <<row, queue, result, ledger, partition, recon>>
      /\ \/ /\ iseen' = [iseen EXCEPT ![i] = RowNow] /\ IGoto(i, "note")
            /\ UNCHANGED <<exec, awaited, run, iexec, path, iresult>>
         \/ Raises(i)
  BY NoFaultKeepsLate DEF GetToAnnotate
<1>2. CASE /\ iseen' = [iseen EXCEPT ![i] = RowNow] /\ IGoto(i, "note")
           /\ UNCHANGED <<exec, awaited, run, iexec, path, iresult>>
  <2>1. /\ \A j \in Invocations \ {i} : SameLocals(j)
        /\ ipc'[i] = "note" /\ path'[i] = path[i] /\ iexec'[i] = iexec[i]
        /\ iseen'[i] = RowNow /\ ReleaseStatus(i)' = ReleaseStatus(i)
        /\ UNCHANGED <<status, arn, release>>
    BY <1>1, <1>2 DEF DistributedInv, Control, LambdaTyped, IGoto, SameLocals,
                      ReleaseStatus, row, ledger
  <2>2. arn # None /\ distributed
    BY <1>1 DEF SoleInv, Receipt, ReceiptRow, ReceiptInvocation, Writing
  <2>3. ReceiptInvocation(i)' /\ ReleaseRead(i)'
    BY <1>1, <2>1, <2>2 DEF SoleInv, Releases, ReceiptInvocation, ReleaseRead,
                            Writing, RowNow
  <2>4. \A e \in Executions : Sole(e) => InvocationAgrees(e, i)'
    BY <1>1, <2>1, SoleFacts DEF InvocationAgrees, Writing, RowNow
  <2> QED
    BY <1>1, <1>2, <2>1, <2>3, <2>4, QuietGoes
<1> QED
  BY <1>1, <1>2, QuietRaises

\* The status an annotation writes back is, for a sole invocation, the one
\* that is there.
LEMMA AnnotateAgrees ==
  ASSUME DistributedInv, SoleInv, NEW i \in Invocations, Annotate(i)
  PROVE  SoleInv'
<1>1. /\ ipc[i] = "note" /\ late' = late
      /\ UNCHANGED <<queue, result, ledger, partition, recon>>
      /\ \/ /\ UpdateRow(RowNow, iseen[i].status, 0, FALSE, None, None, None)
            /\ Returns(i)
         \/ UNCHANGED row /\ Raises(i)
  BY NoFaultKeepsLate DEF Annotate
<1>2. /\ iexec[i] \in Executions /\ path[i] = "result"
      /\ iseen[i].status \in TerminalRows
      /\ release[iexec[i]] \in TerminalReleases
      /\ arn # None /\ distributed
  BY <1>1 DEF DistributedInv, Control, InvocationOK, PathsAt, SoleInv, Receipt,
              ReceiptRow, ReceiptInvocation, Releases, ReleaseRead, Writing
<1>3. CASE UNCHANGED row /\ Raises(i)
  BY <1>1, <1>3, QuietRaises
<1>4. CASE /\ UpdateRow(RowNow, iseen[i].status, 0, FALSE, None, None, None)
           /\ Returns(i)
  <2>1. /\ status' = iseen[i].status /\ arn' = arn
        /\ distributed' = (distributed \/ FALSE)
    BY <1>4 DEF UpdateRow, RowNow
  <2>2. distributed'
    BY <1>2, <2>1, Zenon
  <2>3. Ends(i, "succeeded") /\ (late => late')
    BY <1>1, <1>2, <1>4, Zenon DEF Returns
  <2>4. /\ ExecutionsGrow
        /\ \A j \in Invocations \ {i} : SameLocals(j)
        /\ ipc'[i] = "free" /\ iseen'[i] = None
        /\ \A f \in Executions : exec'[f] = "succeeded" =>
             exec[f] = "succeeded" \/ f = iexec[i]
        /\ Awaits'
    BY <1>1, <2>3, EndsStep
  <2>5. release' = release /\ decision' = decision
    BY <1>1 DEF ledger
  <2>6. ReleasesGrow /\ \A f \in Executions : ReleaseOK(f)'
    BY <1>2, <2>4, <2>5 DEF ReleasesGrow, SoleInv, Releases, ReleaseOK
  <2>7. /\ ReceiptInvocation(i)' /\ ReleaseRead(i)'
        /\ \A f \in Executions : InvocationAgrees(f, i)'
    BY <2>4 DEF ReceiptInvocation, ReleaseRead, InvocationAgrees, Writing
  <2>8. Receipt'
    BY <1>1, <1>2, <2>1, <2>2, <2>4, <2>7, ReceiptWritten, ReconSees DEF SoleInv
  <2>9. ASSUME NEW f \in Executions, Sole(f) PROVE RowAgrees(f)'
    <3>1. RowAgrees(f) /\ InvocationAgrees(f, i)
      BY <2>9, SoleFacts
    <3>2. status' = status
      BY <1>1, <2>1, <3>1 DEF InvocationAgrees
    <3> QED
      BY <1>1, <2>5, <3>1, <3>2 DEF RowAgrees, recon
  <2> QED
    BY <1>1, <2>4, <2>6, <2>7, <2>8, <2>9, SoleStep
<1> QED
  BY <1>1, <1>3, <1>4

LEMMA InvocationDiesAgrees ==
  ASSUME DistributedInv, SoleInv, NEW i \in Invocations, InvocationDies(i)
  PROVE  SoleInv'
  BY QuietRaises, NoFaultKeepsLate DEF InvocationDies

-----------------------------------------------------------------------------
(* The state machine, the worker and reconcile().                          *)

\* Steps that leave the row, the ledger and the partition as they are.
LEMMA SameAgrees ==
  ASSUME SoleInv, ExecutionsGrow, UNCHANGED <<status, ledger, partition>>,
         rseen' # None => rseen # None,
         \A i \in Invocations : SameLocals(i) \/ ipc'[i] \in {"reserve", "load", "release"}
  PROVE  Agrees'
<1> SUFFICES ASSUME NEW e \in Executions, Sole(e)'
             PROVE  RowAgrees(e)' /\ \A i \in Invocations : InvocationAgrees(e, i)'
  BY DEF Agrees
<1>1. Sole(e)
  BY SoleBefore
<1>2. RowAgrees(e) /\ \A i \in Invocations : InvocationAgrees(e, i)
  BY <1>1 DEF SoleInv, Agrees
<1>3. RowAgrees(e)'
  BY <1>2 DEF RowAgrees, ledger
<1>4. ASSUME NEW i \in Invocations PROVE InvocationAgrees(e, i)'
  <2>1. CASE SameLocals(i)
    BY <1>2, <2>1 DEF InvocationAgrees, SameLocals, ReleaseStatus, ledger
  <2>2. CASE ipc'[i] \in {"reserve", "load", "release"}
    BY <2>2 DEF InvocationAgrees, Writing
  <2> QED
    BY <2>1, <2>2
<1> QED
  BY <1>3, <1>4

LEMMA InvokeAgrees ==
  ASSUME DistributedInv, SoleInv, NEW e \in Executions, NEW i \in Invocations,
         Invoke(e, i)
  PROVE  SoleInv'
<1>1. /\ LambdaTyped /\ MachineTyped /\ late' = late
      /\ exec[e] \in LambdaStates /\ awaited[e] = None /\ ipc[i] = "free"
      /\ awaited' = [awaited EXCEPT ![e] = i]
      /\ UNCHANGED <<row, queue, exec, run, result, ledger, partition, iseen,
                     iresult, recon>>
  BY NoFaultKeepsLate DEF DistributedInv, Control, Invoke
<1>2. /\ \A j \in Invocations \ {i} : SameLocals(j)
      /\ ipc'[i] \in {"reserve", "load", "release"} /\ iexec'[i] = e
  BY <1>1 DEF Invoke, LambdaTyped, SameLocals, LambdaStates
<1>3. ExecutionsGrow
  <2>1. late => late'
    BY <1>1, Zenon
  <2> QED
    BY <1>1, <2>1 DEF ExecutionsGrow
<1>4. ReceiptInvocation(i)' /\ ReleaseRead(i)'
  BY <1>1, <1>2
     DEF SoleInv, Receipt, ReceiptInvocation, ReleaseRead, Writing
<1>5. Receipt'
  BY <1>1, <1>2, <1>3, <1>4, ReceiptKept DEF SoleInv
<1>6. Releases'
  <2>1. ReleasesGrow /\ \A f \in Executions : ReleaseOK(f)'
    BY <1>1 DEF SoleInv, Releases, ReleaseOK, ReleasesGrow, ledger
  <2> QED
    BY <1>2, <1>4, <2>1, ReleasesKept DEF SoleInv
<1>7. Awaits'
  <2> SUFFICES ASSUME ~late'
               PROVE  /\ \A j \in Invocations : ipc'[j] # "free" => awaited'[iexec'[j]] = j
                      /\ \A f \in Executions : run'[f] = "running" => exec'[f] = "glue"
    BY Zenon DEF Awaits
  <2>1. ~late
    BY <1>1
  <2>2. /\ \A j \in Invocations : ipc[j] # "free" => awaited[iexec[j]] = j
        /\ \A f \in Executions : run[f] = "running" => exec[f] = "glue"
    BY <2>1, Zenon DEF SoleInv, Awaits
  <2>3. awaited'[e] = i
    BY <1>1 DEF MachineTyped
  <2>4. ASSUME NEW j \in Invocations \ {i}, ipc'[j] # "free"
        PROVE  awaited'[iexec'[j]] = j
    <3>1. ipc[j] # "free" /\ iexec'[j] = iexec[j]
      BY <1>2, <2>4 DEF SameLocals
    <3>2. iexec[j] \in Executions /\ awaited[iexec[j]] = j /\ iexec[j] # e
      BY <1>1, <2>2, <3>1, NoneIsNoStatus DEF DistributedInv, Control, InvocationOK
    <3> QED
      BY <1>1, <3>1, <3>2 DEF MachineTyped
  <2> QED
    BY <1>1, <1>2, <2>2, <2>3, <2>4
<1>8. Agrees'
  BY <1>1, <1>2, <1>3, SameAgrees DEF row, recon
<1> QED
  BY <1>5, <1>6, <1>7, <1>8 DEF SoleInv

\* A Glue run ends, or an execution stops waiting.
LEMMA MachineAgrees ==
  ASSUME DistributedInv, SoleInv, NEW e \in Executions,
         GlueEnds(e) \/ LosesContact(e) \/ Aborts(e)
  PROVE  SoleInv'
<1>1. /\ MachineTyped
      /\ UNCHANGED <<row, queue, ledger, partition, lambda, recon>>
      /\ \A f \in Executions :
           \/ exec'[f] = exec[f]
           \/ exec[f] \in LiveExecutions /\ exec'[f] \in {"fail", "finalize", "failed"}
  <2>1. MachineTyped
    BY DEF DistributedInv, Control
  <2>2. CASE GlueEnds(e)
    BY <2>1, <2>2 DEF GlueEnds, MachineTyped, LiveExecutions
  <2>3. CASE LosesContact(e)
    BY <2>1, <2>3 DEF LosesContact
  <2>4. CASE Aborts(e)
    BY <2>1, <2>4 DEF Aborts, MachineTyped
  <2> QED
    BY <2>1, <2>2, <2>3, <2>4
<1>2. ExecutionsGrow
  <2>1. late => late'
    BY Zenon DEF GlueEnds, LosesContact, Aborts, NoFault, Late, bounds
  <2>2. \A f \in Executions :
          /\ exec[f] # "none" => exec'[f] # "none"
          /\ exec[f] \notin LiveExecutions \cup {"none"} =>
               exec'[f] \notin LiveExecutions
    BY <1>1
  <2> QED
    BY <2>1, <2>2, Zenon DEF ExecutionsGrow
<1>3. \A i \in Invocations : SameLocals(i)
  BY <1>1 DEF SameLocals, lambda
<1>4. Receipt'
  BY <1>1, <1>2, <1>3, ReceiptKept DEF SoleInv
<1>5. Releases'
  <2>1. ReleasesGrow /\ \A f \in Executions : ReleaseOK(f)'
    BY <1>1 DEF SoleInv, Releases, ReleaseOK, ReleasesGrow, ledger
  <2> QED
    BY <1>3, <2>1, ReleasesKept DEF SoleInv
<1>6. Awaits'
  <2>1. CASE LosesContact(e) \/ Aborts(e)
    <3>1. late' = TRUE
      BY <2>1 DEF LosesContact, Aborts, Late
    <3> QED
      BY <3>1 DEF Awaits
  <2>2. CASE GlueEnds(e)
    <3>1. late' = late /\ awaited' = awaited /\ ipc' = ipc /\ iexec' = iexec
      BY <2>2, NoFaultKeepsLate DEF GlueEnds, lambda
    <3>2. \A f \in Executions :
            /\ f # e => run'[f] = run[f] /\ exec'[f] = exec[f]
            /\ f = e => run'[f] # "running"
      <4>1. PICK s \in Outcomes \cup {"failed"} :
              /\ run' = [run EXCEPT ![e] = s]
              /\ exec' = IF exec[e] # "glue" THEN exec
                         ELSE [exec EXCEPT ![e] = IF s = "failed" THEN "fail"
                                                                  ELSE "finalize"]
        BY <2>2 DEF GlueEnds
      <4>2. s # "running"
        BY <4>1, ConstantsAssumption
      <4> QED
        BY <1>1, <4>1, <4>2 DEF MachineTyped
    <3>3. ASSUME ~late'
          PROVE  /\ \A j \in Invocations : ipc'[j] # "free" => awaited'[iexec'[j]] = j
                 /\ \A f \in Executions : run'[f] = "running" => exec'[f] = "glue"
      <4>1. ~late
        BY <3>1, <3>3
      <4>2. /\ \A j \in Invocations : ipc[j] # "free" => awaited[iexec[j]] = j
            /\ \A f \in Executions : run[f] = "running" => exec[f] = "glue"
        BY <4>1, Zenon DEF SoleInv, Awaits
      <4> QED
        BY <3>1, <3>2, <4>2
    <3> QED
      BY <3>3, Zenon DEF Awaits
  <2> QED
    BY <2>1, <2>2
<1>7. Agrees'
  BY <1>1, <1>2, <1>3, SameAgrees DEF row, recon
<1> QED
  BY <1>4, <1>5, <1>6, <1>7 DEF SoleInv

\* While the row names no execution nothing is served.
LEMMA MessageStep ==
  ASSUME DistributedInv, SoleInv, late' = late, arn = None, status' # "completed",
         UNCHANGED <<awaited, run, ledger, partition, lambda, recon>>,
         \A e \in Executions : \/ exec'[e] = exec[e]
                               \/ exec[e] = "none" /\ exec'[e] = "prepare",
         Receipt'
  PROVE  SoleInv'
<1>1. \A i \in Invocations : SameLocals(i)
  BY DEF SameLocals, lambda
<1>2. ExecutionsGrow
  <2>1. late => late'
    BY Zenon
  <2>2. \A f \in Executions :
          /\ exec[f] # "none" => exec'[f] # "none"
          /\ exec[f] \notin LiveExecutions \cup {"none"} =>
               exec'[f] \notin LiveExecutions
    OBVIOUS
  <2> QED
    BY <2>1, <2>2, Zenon DEF ExecutionsGrow
<1>3. Releases'
  <2>1. ReleasesGrow /\ \A f \in Executions : ReleaseOK(f)'
    BY DEF SoleInv, Releases, ReleaseOK, ReleasesGrow, ledger
  <2> QED
    BY <1>1, <2>1, ReleasesKept DEF SoleInv
<1>4. Awaits'
  <2>1. ASSUME ~late'
        PROVE  /\ \A j \in Invocations : ipc'[j] # "free" => awaited'[iexec'[j]] = j
               /\ \A f \in Executions : run'[f] = "running" => exec'[f] = "glue"
    <3>1. ~late
      BY <2>1
    <3>2. /\ \A j \in Invocations : ipc[j] # "free" => awaited[iexec[j]] = j
          /\ \A f \in Executions : run[f] = "running" => exec[f] = "glue"
      BY <3>1, Zenon DEF SoleInv, Awaits
    <3> QED
      BY <3>2 DEF lambda
  <2> QED
    BY <2>1, Zenon DEF Awaits
<1>5. ASSUME NEW e \in Executions, Sole(e)'
      PROVE  RowAgrees(e)' /\ \A i \in Invocations : InvocationAgrees(e, i)'
  <2>1. Sole(e)
    BY <1>2, <1>5, SoleBefore
  <2>2. RowAgrees(e) /\ \A i \in Invocations : InvocationAgrees(e, i)
    BY <2>1 DEF SoleInv, Agrees
  <2>3. /\ status # "completed"
        /\ \A i \in Invocations : ipc[i] \notin Writing
    BY DEF SoleInv, Receipt, ReceiptRow, ReceiptInvocation, Early
  <2>4. RowAgrees(e)'
    BY <2>2, <2>3 DEF RowAgrees, recon
  <2>5. ASSUME NEW i \in Invocations PROVE InvocationAgrees(e, i)'
    BY <2>2, <2>3 DEF InvocationAgrees, Writing, ReleaseStatus, lambda, ledger
  <2> QED
    BY <2>4, <2>5
<1> QED
  BY <1>3, <1>4, <1>5 DEF SoleInv, Agrees

LEMMA ReceiptNotYet ==
  ASSUME Receipt, UNCHANGED <<arn, job, ref, lambda, recon>>, arn = None,
         status' \in Early, \A m \in Messages : ReceiptMessage(m)'
  PROVE  Receipt'
<1>1. ReceiptRow' /\ ReceiptRecon'
  BY DEF Receipt, ReceiptRow, ReceiptRecon, recon
<1>2. \A i \in Invocations : ReceiptInvocation(i)'
  BY DEF Receipt, ReceiptInvocation, lambda
<1> QED
  BY <1>1, <1>2 DEF Receipt

\* A message that is not done keeps the row from naming an execution.
LEMMA NotRecorded ==
  ASSUME SoleInv, NEW m \in Messages, mpc[m] # "done"
  PROVE  arn = None /\ status \in Early
  BY DEF SoleInv, Receipt, ReceiptRow

LEMMA QueueAgrees ==
  ASSUME DistributedInv, SoleInv, NEW m \in Messages,
         Claim(m) \/ Plan(m) \/ SelectForMessage(m) \/ WorkerDies(m)
  PROVE  SoleInv'
<1>1. /\ UNCHANGED <<attempts, distributed, arn, job, ref, machine, ledger,
                     partition, lambda, recon>>
      /\ late' = late /\ mpc[m] # "done"
      /\ status' = status \/ status' = "received"
  BY NoFaultKeepsLate
     DEF Claim, Plan, SelectForMessage, WorkerDies, row, MessageSteps
<1>2. /\ \A n \in Messages \ {m} : mpc'[n] = mpc[n] /\ mseen'[n] = mseen[n]
                                   /\ mattempt'[n] = mattempt[n]
      /\ mpc'[m] # "dispatched" \/ (mpc'[m] = mpc[m] /\ mattempt'[m] = mattempt[m])
      /\ mseen'[m] # None => /\ mseen'[m] = mseen[m] \/ mseen'[m] = RowNow
                             /\ mpc'[m] \in MessageSteps
  <2>1. QueueTyped /\ ReceiptMessage(m)
    BY DEF DistributedInv, SoleInv, Receipt
  <2>2. CASE Claim(m)
    BY <2>1, <2>2 DEF Claim, QueueTyped, MGoto, MRetry, ReceiptMessage, MessageSteps
  <2>3. CASE Plan(m)
    BY <2>1, <2>3 DEF Plan, QueueTyped, MGoto, ReceiptMessage, MessageSteps
  <2>4. CASE SelectForMessage(m)
    BY <2>1, <2>4 DEF SelectForMessage, QueueTyped, MGoto, MRetry, MessageSteps
  <2>5. CASE WorkerDies(m)
    BY <2>1, <2>5 DEF WorkerDies, QueueTyped, MGoto
  <2> QED
    BY <2>2, <2>3, <2>4, <2>5
<1>3. arn = None /\ status \in Early
  BY <1>1, NotRecorded
<1>4. \A n \in Messages : ReceiptMessage(n)'
  BY <1>1, <1>2, <1>3 DEF SoleInv, Receipt, ReceiptMessage, RowNow, machine
<1>5. Receipt'
  BY <1>1, <1>3, <1>4, ReceiptNotYet DEF SoleInv, Early
<1> QED
  BY <1>1, <1>3, <1>5, MessageStep DEF machine, Early

LEMMA RecoverStaleAgrees ==
  ASSUME DistributedInv, SoleInv, RecoverStale
  PROVE  SoleInv'
<1>1. /\ UNCHANGED <<attempts, distributed, arn, job, ref, queue, machine, ledger,
                     partition, lambda, recon>>
      /\ late' = late /\ ~distributed /\ status' = "failed"
  BY NoFaultKeepsLate DEF RecoverStale
<1>2. arn = None
  BY <1>1 DEF SoleInv, Receipt, ReceiptRow
<1>3. \A n \in Messages : ReceiptMessage(n)'
  BY <1>1 DEF SoleInv, Receipt, ReceiptMessage, machine, queue
<1>4. Receipt'
  BY <1>1, <1>2, <1>3, ReceiptNotYet DEF SoleInv, Early
<1> QED
  BY <1>1, <1>2, <1>4, MessageStep DEF machine

\* StartExecution starts the execution before the row can name it.
LEMMA SubmitAgrees ==
  ASSUME DistributedInv, SoleInv, NEW m \in Messages, Submit(m)
  PROVE  SoleInv'
<1> DEFINE e == mattempt[m]
<1>1. /\ mpc[m] = "submitting" /\ late' = late /\ e \in Executions
      /\ UNCHANGED <<row, mseen, awaited, run, result, ledger, partition, lambda, recon>>
      /\ QueueTyped /\ MachineTyped
  BY NoFaultKeepsLate DEF DistributedInv, Control, AttemptsOK, Submit
<1>2. /\ exec' = exec \/ (exec[e] = "none" /\ Start(e))
      /\ \/ MGoto(m, "dispatched") /\ exec'[e] # "none"
         \/ MGoto(m, "failing")
      /\ mattempt' = [mattempt EXCEPT ![m] = IF mpc'[m] = "dispatched" THEN e ELSE 0]
  BY <1>1 DEF Submit, Start, MachineTyped
<1>3. \A f \in Executions : \/ exec'[f] = exec[f]
                            \/ exec[f] = "none" /\ exec'[f] = "prepare"
  BY <1>1, <1>2 DEF Start, MachineTyped
<1>4. arn = None /\ status \in Early
  BY <1>1, NotRecorded
<1>5. \A n \in Messages : ReceiptMessage(n)'
  <2>1. ASSUME NEW n \in Messages \ {m} PROVE ReceiptMessage(n)'
    <3>1. /\ mpc'[n] = mpc[n] /\ mattempt'[n] = mattempt[n] /\ mseen'[n] = mseen[n]
      BY <1>1, <1>2 DEF QueueTyped, MGoto
    <3>2. mpc[n] = "dispatched" => mattempt[n] \in Executions
      BY DEF DistributedInv, AttemptsOK
    <3> QED
      BY <1>3, <3>1, <3>2 DEF SoleInv, Receipt, ReceiptMessage
  <2>2. ReceiptMessage(m)'
    <3>1. mseen'[m] = None
      BY <1>1 DEF SoleInv, Receipt, ReceiptMessage, MessageSteps
    <3>2. mpc'[m] = "dispatched" => mattempt'[m] = e /\ exec'[e] # "none"
      BY <1>1, <1>2 DEF QueueTyped, MGoto
    <3> HIDE DEF e
    <3> QED
      BY <3>1, <3>2 DEF ReceiptMessage
  <2> QED
    BY <2>1, <2>2
<1>6. Receipt'
  BY <1>1, <1>4, <1>5, ReceiptNotYet DEF SoleInv, row
<1> QED
  BY <1>1, <1>3, <1>4, <1>6, MessageStep DEF row, Early

\* The update that records the execution is the last thing its message does.
LEMMA UpdateForMessageAgrees ==
  ASSUME \A n, o \in Messages : n = o,
         DistributedInv, SoleInv, NEW m \in Messages, UpdateForMessage(m)
  PROVE  SoleInv'
<1>1. /\ mpc[m] \in MessageSteps /\ mseen[m] # None /\ late' = late
      /\ UNCHANGED <<machine, ledger, partition, lambda, recon>>
      /\ mseen' = [mseen EXCEPT ![m] = None]
      /\ QueueTyped
  BY NoFaultKeepsLate DEF DistributedInv, UpdateForMessage
<1>2. arn = None /\ status \in Early /\ mseen[m].arn = None
  BY <1>1, NotRecorded DEF SoleInv, Receipt, ReceiptMessage, MessageSteps
<1>3. /\ status' = Target(mpc[m]) /\ job' = job /\ ref' = ref
      /\ arn' = IF mpc[m] = "dispatched" THEN mattempt[m] ELSE None
      /\ distributed' = (mseen[m].distributed
                         \/ mpc[m] \in {"dispatching", "dispatched", "failing"})
  <2>1. mpc[m] = "dispatched" => mattempt[m] # None
    BY NoneIsNoStatus DEF DistributedInv, AttemptsOK
  <2> QED
    BY <1>2, <2>1 DEF UpdateForMessage, UpdateRow
<1>4. CASE mpc[m] # "dispatched"
  <2>1. arn' = None /\ status' \in Early
    BY <1>1, <1>3, <1>4 DEF Target, MessageSteps, Early
  <2>2. mpc'[m] # "dispatched" /\ mseen'[m] = None
    BY <1>1, <1>4 DEF UpdateForMessage, MGoto, MRetry, QueueTyped, MessageSteps
  <2>3. \A n \in Messages : ReceiptMessage(n)'
    BY <2>2 DEF ReceiptMessage
  <2>4. Receipt'
    BY <1>1, <1>2, <1>3, <2>1, <2>3, ReceiptNotYet DEF SoleInv
  <2> QED
    BY <1>1, <1>2, <2>1, <2>4, MessageStep DEF machine, Early
<1>5. CASE mpc[m] = "dispatched"
  <2>1. /\ arn' = mattempt[m] /\ arn' \in Executions /\ exec[arn'] # "none"
        /\ status' = "dispatched"
    BY <1>3, <1>5 DEF Target, SoleInv, Receipt, ReceiptMessage, DistributedInv, AttemptsOK
  <2>2. distributed'
    BY <1>3, <1>5, Zenon
  <2>3. \A n \in Messages : mpc'[n] = "done" /\ mseen'[n] = None
    BY <1>1, <1>5 DEF UpdateForMessage, MGoto, QueueTyped
  <2>4. ReceiptRow'
    BY <1>1, <2>1, <2>2, <2>3, NoneIsNoStatus DEF ReceiptRow, machine
  <2>5. \A n \in Messages : ReceiptMessage(n)'
    BY <2>3 DEF ReceiptMessage
  <2>6. \A i \in Invocations : ReceiptInvocation(i)'
    BY <1>1, <1>2, <2>1, NoneIsNoStatus
       DEF SoleInv, Receipt, ReceiptInvocation, Writing, lambda
  <2>7. ReceiptRecon'
    BY <1>1, <1>2 DEF SoleInv, Receipt, ReceiptRow, ReceiptRecon, recon
  <2>8. Receipt'
    BY <2>4, <2>5, <2>6, <2>7 DEF Receipt
  <2> QED
    BY <1>1, <1>2, <2>1, <2>8, MessageStep DEF machine
<1> QED
  BY <1>4, <1>5

LEMMA ReconcileSees ==
  ASSUME DistributedInv, SoleInv, UNCHANGED <<row, queue, machine, lambda>>,
         rpc' # "idle" => arn # None, ReceiptRecon'
  PROVE  Receipt'
<1>1. ReceiptRow'
  BY DEF SoleInv, Receipt, ReceiptRow, row, queue, machine
<1>2. \A m \in Messages : ReceiptMessage(m)'
  BY DEF SoleInv, Receipt, ReceiptMessage, queue, machine
<1>3. \A i \in Invocations : ReceiptInvocation(i)'
  BY DEF SoleInv, Receipt, ReceiptInvocation, row, lambda
<1> QED
  BY <1>1, <1>2, <1>3 DEF Receipt

\* reconcile() changes what it has found to be nobody else's.
LEMMA ReconcileStep ==
  ASSUME DistributedInv, SoleInv, late' = late,
         UNCHANGED <<machine, lambda, decision, partition>>,
         Receipt', ReleasesGrow,
         \A e \in Executions : release[e] # "reserved" => release'[e] = release[e],
         status' = status \/ (status' = "failed" /\ rseen # None),
         rseen' # None => rseen # None \/ status # "completed",
         UNCHANGED <<status, release>> \/ rpc \in {"settle", "row"}
  PROVE  SoleInv'
<1>1. \A i \in Invocations : SameLocals(i)
  BY DEF SameLocals, lambda
<1>2. ExecutionsGrow
  <2>1. late => late'
    BY Zenon
  <2> QED
    BY <2>1 DEF ExecutionsGrow, machine
<1>3. Releases'
  <2>1. ASSUME NEW e \in Executions PROVE ReleaseOK(e)'
    <3>1. ReleaseOK(e)
      BY DEF SoleInv, Releases
    <3>2. release[e] = "reserved" => decision[e] \notin {"none", "blocked"}
      BY <3>1 DEF ReleaseOK
    <3> QED
      BY <3>1, <3>2 DEF ReleaseOK, ReleasesGrow, machine
  <2> QED
    BY <1>1, <2>1, ReleasesKept DEF SoleInv
<1>4. Awaits'
  BY Zenon DEF SoleInv, Awaits, machine, lambda
<1>5. ASSUME NEW e \in Executions, Sole(e)'
      PROVE  RowAgrees(e)' /\ \A i \in Invocations : InvocationAgrees(e, i)'
  <2>1. Sole(e)
    BY <1>2, <1>5, SoleBefore
  <2>2. RowAgrees(e) /\ \A i \in Invocations : InvocationAgrees(e, i)
    BY <2>1 DEF SoleInv, Agrees
  <2>3. RowAgrees(e)'
    BY <2>2 DEF RowAgrees
  <2>4. ASSUME NEW i \in Invocations PROVE InvocationAgrees(e, i)'
    <3>1. CASE UNCHANGED <<status, release>>
      BY <2>2, <3>1 DEF InvocationAgrees, ReleaseStatus, lambda
    <3>2. CASE rpc \in {"settle", "row"}
      <4>1. ipc[i] = "free"
        BY <2>1, <3>2, SoleFacts
      <4> QED
        BY <4>1 DEF InvocationAgrees, Writing, lambda
    <3> QED
      BY <3>1, <3>2
  <2> QED
    BY <2>3, <2>4
<1> QED
  BY <1>3, <1>4, <1>5 DEF SoleInv, Agrees

LEMMA ListAgrees ==
  ASSUME DistributedInv, SoleInv, List
  PROVE  SoleInv'
<1>1. /\ late' = late /\ rrow' = [arn |-> arn, job |-> job, why |-> None]
      /\ UNCHANGED <<row, queue, machine, ledger, partition, lambda, rseen>>
      /\ rpc' = "listed" /\ rpc = "idle" /\ status \in {"dispatched", "processing"}
  BY NoFaultKeepsLate DEF List
<1>2. arn # None
  BY <1>1 DEF SoleInv, Receipt, ReceiptRow, Early
<1>3. ReceiptRecon'
  BY <1>1 DEF SoleInv, Receipt, ReceiptRecon, row
<1>4. Receipt'
  BY <1>1, <1>2, <1>3, ReconcileSees
<1> QED
  BY <1>1, <1>4, ReconcileStep DEF row, ledger, ReleasesGrow

LEMMA DescribeAgrees ==
  ASSUME DistributedInv, SoleInv, Describe
  PROVE  SoleInv'
<1>1. /\ late' = late /\ rpc = "listed" /\ ReconTyped
      /\ UNCHANGED <<row, queue, machine, ledger, partition, lambda>>
  BY NoFaultKeepsLate DEF Describe, DistributedInv
<1>2. arn # None /\ rrow.arn = arn /\ rseen = None
  BY <1>1 DEF SoleInv, Receipt, ReceiptRow, ReceiptRecon
<1>3. ReceiptRecon' /\ (rseen' # None => rseen # None)
  <2>1. CASE RStops
    BY <2>1 DEF RStops, ReceiptRecon
  <2>2. CASE ~RStops
    <3>1. /\ exec[arn] \notin LiveExecutions
          /\ rpc' \in {"release", "row"} /\ rseen' = rseen
          /\ \E w : rrow' = [rrow EXCEPT !.why = w]
      BY <1>2, <2>2 DEF Describe
    <3>2. rrow'.arn = arn
      BY <1>1, <1>2, <3>1 DEF ReconTyped
    <3> QED
      BY <1>1, <1>2, <3>1, <3>2 DEF ReceiptRecon, row, machine
  <2> QED
    BY <2>1, <2>2
<1>4. Receipt'
  BY <1>1, <1>2, <1>3, ReconcileSees
<1> QED
  BY <1>1, <1>3, <1>4, ReconcileStep DEF row, ledger, ReleasesGrow

LEMMA ReconcileReleaseAgrees ==
  ASSUME DistributedInv, SoleInv, ReconcileRelease
  PROVE  SoleInv'
<1> DEFINE e == rrow.job[2]
<1>1. /\ late' = late /\ rpc \in {"release", "settle"} /\ rpc' \in {"settle", "row"}
      /\ UNCHANGED <<row, queue, machine, partition, lambda, rrow, rseen, decision>>
      /\ \/ release' = release
         \/ /\ rpc = "settle" /\ release[e] = "reserved"
            /\ release' = [release EXCEPT ![e] = "failed"]
  BY NoFaultKeepsLate DEF ReconcileRelease, ledger, SetRelease
<1>2. arn # None /\ rseen = None
  BY <1>1 DEF SoleInv, Receipt, ReceiptRow, ReceiptRecon
<1>3. ReceiptRecon'
  BY <1>1, <1>2 DEF SoleInv, Receipt, ReceiptRecon, row, machine
<1>4. Receipt'
  BY <1>1, <1>2, <1>3, ReconcileSees
<1>5. /\ ReleasesGrow
      /\ \A f \in Executions : release[f] # "reserved" => release'[f] = release[f]
  <2>1. release \in [Executions -> TerminalReleases \cup {"none", "reserved"}]
    BY DEF DistributedInv, LedgerTyped
  <2> HIDE DEF e
  <2>2. \A f \in Executions :
          release'[f] = release[f] \/ (release[f] = "reserved" /\ release'[f] = "failed")
    BY <1>1, <2>1
  <2> QED
    BY <2>2 DEF ReleasesGrow, TerminalReleases
<1>6. UNCHANGED <<status, release>> \/ rpc \in {"settle", "row"}
  BY <1>1 DEF row
<1> QED
  BY <1>1, <1>2, <1>4, <1>5, <1>6, ReconcileStep DEF row

LEMMA ReconcileRowAgrees ==
  ASSUME DistributedInv, SoleInv, ReconcileRow
  PROVE  SoleInv'
<1>1. /\ rpc = "row" /\ late' = late
      /\ UNCHANGED <<queue, machine, ledger, partition, lambda>>
      /\ \/ /\ MayTransition(status, "failed") /\ rseen' = RowNow
            /\ UNCHANGED <<row, rpc, rrow>>
         \/ RStops /\ UNCHANGED row
         \/ /\ rseen # None /\ RStops
            /\ UpdateRow(rseen, "failed", 0, FALSE, None, None, None)
  BY NoFaultKeepsLate DEF ReconcileRow
<1>2. /\ arn # None /\ rrow.arn = arn /\ distributed
      /\ status \in {"dispatched", "processing"} \cup TerminalRows
      /\ exec[arn] \notin LiveExecutions
      /\ rseen # None => rseen.arn = arn /\ rseen.distributed
  BY <1>1 DEF SoleInv, Receipt, ReceiptRow, ReceiptRecon
<1>3. ReleasesGrow /\ release' = release /\ decision' = decision
  BY <1>1 DEF ReleasesGrow, ledger
<1>4. RStops => ReceiptRecon' /\ rseen' = None
  BY DEF RStops, ReceiptRecon
<1>5. CASE /\ MayTransition(status, "failed") /\ rseen' = RowNow
           /\ UNCHANGED <<row, rpc, rrow>>
  <2>1. status # "completed"
    BY <1>5 DEF MayTransition, AllowedTransitions
  <2>2. ReceiptRecon'
    BY <1>1, <1>2, <1>5 DEF ReceiptRecon, RowNow, row, machine
  <2>3. Receipt'
    BY <1>1, <1>2, <1>5, <2>2, ReconcileSees
  <2> QED
    BY <1>1, <1>3, <1>5, <2>1, <2>3, ReconcileStep DEF row
<1>6. CASE RStops /\ UNCHANGED row
  <2>1. Receipt'
    BY <1>1, <1>2, <1>4, <1>6, ReconcileSees
  <2> QED
    BY <1>1, <1>3, <1>4, <1>6, <2>1, ReconcileStep DEF row
<1>7. CASE /\ rseen # None /\ RStops
           /\ UpdateRow(rseen, "failed", 0, FALSE, None, None, None)
  <2>1. /\ status' = "failed" /\ arn' = arn
        /\ distributed' = (rseen.distributed \/ FALSE)
    BY <1>2, <1>7 DEF UpdateRow
  <2>2. distributed'
    BY <1>2, <1>7, <2>1, Zenon
  <2>3. ExecutionsGrow
    <3>1. late => late'
      BY <1>1, Zenon
    <3> QED
      BY <1>1, <3>1 DEF ExecutionsGrow, machine
  <2>4. \A i \in Invocations : SameLocals(i)
    BY <1>1 DEF SameLocals, lambda
  <2>5. Receipt'
    BY <1>1, <1>2, <1>4, <1>7, <2>1, <2>2, <2>3, <2>4, ReceiptWritten
       DEF SoleInv, TerminalRows
  <2> QED
    BY <1>1, <1>3, <1>4, <1>7, <2>1, <2>5, ReconcileStep
<1> QED
  BY <1>1, <1>5, <1>6, <1>7

LEMMA InitAgrees == Init => SoleInv
<1> SUFFICES ASSUME Init PROVE SoleInv
  OBVIOUS
<1>1. Receipt
  BY DEF Init, Receipt, ReceiptRow, ReceiptMessage, ReceiptInvocation,
         ReceiptRecon, Writing, Early
<1>2. Releases
  BY DEF Init, Releases, ReleaseOK, ReleaseRead, Writing
<1>3. Awaits
  BY DEF Init, Awaits
<1>4. Agrees
  BY DEF Init, Agrees, RowAgrees, InvocationAgrees, Writing
<1> QED
  BY <1>1, <1>2, <1>3, <1>4 DEF SoleInv

LEMMA StepAgrees ==
  ASSUME \A m, n \in Messages : m = n,
         DistributedInv, SoleInv, [Next]_vars
  PROVE  SoleInv'
<1>1. ASSUME NEW m \in Messages, Handle(m) \/ WorkerDies(m)
      PROVE  SoleInv'
  BY <1>1, QueueAgrees, UpdateForMessageAgrees, SubmitAgrees DEF Handle
<1>2. CASE RecoverStale
  BY <1>2, RecoverStaleAgrees
<1>3. ASSUME NEW e \in Executions,
             \/ \E i \in Invocations : Invoke(e, i)
             \/ GlueEnds(e) \/ LosesContact(e) \/ Aborts(e)
      PROVE  SoleInv'
  BY <1>3, InvokeAgrees, MachineAgrees
<1>4. ASSUME NEW i \in Invocations, Advance(i) \/ InvocationDies(i)
      PROVE  SoleInv'
  BY <1>4, SelectReleaseAgrees, UpdateReleaseAgrees, GetRowAgrees,
     SelectForInvocationAgrees, UpdateForInvocationAgrees, ReserveAgrees,
     RegisterAgrees, StagingAgrees, PublishAgrees, GetToAnnotateAgrees,
     AnnotateAgrees, InvocationDiesAgrees DEF Advance
<1>5. CASE Reconcile
  BY <1>5, ListAgrees, DescribeAgrees, ReconcileReleaseAgrees, ReconcileRowAgrees
     DEF Reconcile
<1>6. CASE UNCHANGED vars
  <2>1. /\ UNCHANGED <<row, queue, machine, ledger, partition, lambda, recon>>
        /\ UNCHANGED <<status, decision, release, rpc, rrow, rseen, exec>>
        /\ late' = late /\ arn' = arn
    BY <1>6 DEF vars, bounds, row, ledger, recon, machine
  <2>2. Receipt'
    BY <2>1, ReconcileSees DEF SoleInv, Receipt, ReceiptRow, ReceiptRecon
  <2> QED
    BY <2>1, <2>2, ReconcileStep DEF ReleasesGrow
<1> QED
  BY <1>1, <1>2, <1>3, <1>4, <1>5, <1>6 DEF Next

\* For one message about the object, however often it is delivered and
\* whatever fails: while one execution was started and none was left with
\* something running, the row, the release and the partition say the same.
THEOREM SoleExecutionIsConsistent ==
  ASSUME \A m, n \in Messages : m = n
  PROVE  Spec => []SoleExecutionAgrees
<1>1. DistributedInv /\ SoleInv => SoleExecutionAgrees
  <2> SUFFICES ASSUME DistributedInv, SoleInv,
                      NEW e \in Executions, ~late, Started = {e}
               PROVE  /\ status = "completed" => release[e] = "completed" /\ output[e] = ref
                      /\ partition.status = "ready" =>
                           status = "completed" /\ partition.ref = ref
                      /\ exec[e] = "succeeded" => release[e] \in TerminalReleases
    BY DEF SoleExecutionAgrees
  <2>1. \A f \in Executions : exec[f] # "none" => f = e
    BY DEF Started
  <2>2. Sole(e)
    BY <2>1 DEF Sole
  <2> QED
    BY <2>2, SoleOutputs
<1>2. DistributedInv /\ SoleInv /\ [Next]_vars => SoleInv'
  BY StepAgrees
<1> QED
  BY <1>1, <1>2, InitAgrees, Invariant, PTL DEF Spec

=============================================================================
