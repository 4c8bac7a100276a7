---------------------------- MODULE PrivacyWindow ----------------------------
(***************************************************************************)
(* One provider privacy window: its partitions are delivered, corrected,   *)
(* completed and sealed by control plane invocations, one per delivered    *)
(* object, while data-rights requests revoke it.                           *)
(*                                                                         *)
(*   register_partition     RegisterRead, RegisterWrite                    *)
(*   mark_partition_ready   ReadyRead, ReadyWrite, ReadyCommit             *)
(*   seal_window            SealRead, SealWrite                            *)
(*   revoke_scope / apply   Revoke, MarkApplied                            *)
(*                                                                         *)
(* Transactions run at READ COMMITTED.  register_partition and seal_window *)
(* hold the advisory lock of the window from their first read to their     *)
(* commit; mark_partition_ready and revoke_scope do not take it.  What a   *)
(* transaction writes is committed in one step, except that of             *)
(* mark_partition_ready, whose answer is counted before it commits.        *)
(*                                                                         *)
(* Windows meet only in revoke_scope, which treats each by itself: one is  *)
(* enough.  A partition row is current when it is not superseded.          *)
(***************************************************************************)
EXTENDS Naturals, FiniteSets

CONSTANTS
  Deliveries,   \* fingerprints of the objects delivered for the window
  Partitions,   \* partition_index 0 .. partition_count - 1
  PartitionOf,  \* the partition a delivery is for
  Supersedes,   \* the fingerprint a correction names; None for a snapshot
  Requests,     \* data-rights requests
  Overlapping,  \* those whose event time overlaps the window
  MaxFaults,    \* bound: control plane invocations that die
  None

ASSUME ConstantsAssumption ==
  /\ IsFiniteSet(Partitions)
  /\ None \notin Deliveries
  /\ PartitionOf \in [Deliveries -> Partitions]
  /\ Supersedes \in [Deliveries -> Deliveries \cup {None}]
  /\ Overlapping \subseteq Requests
  /\ MaxFaults \in Nat

VARIABLES
  window,      \* provider_privacy_windows.status
  partition,   \* provider_privacy_window_partitions.status, by fingerprint
  canonical,   \* provider_canonical_partitions.status, by fingerprint
  pc,          \* where the control plane is with each delivery
  seen,        \* register: the window status it read
  old,         \* register: the current fingerprint it read, to supersede
  matched,     \* ready: did its UPDATE match the partition row
  complete,    \* ready: did it count every partition as ready
  request,     \* a data-rights request: "revoked" is what apply() has done
               \* when revoke_scope returned, its row still says 'received'
  faults

rows    == <<window, partition, canonical>>
control == <<pc, seen, old, matched, complete>>
vars    == <<rows, control, request, faults>>

PcValues == {"new", "registering", "running", "marking", "committing",
             "sealing", "activating", "done", "failed"}

TypeOK ==
  /\ window \in {"none", "open", "sealed", "revoked"}
  /\ partition \in [Deliveries -> {"none", "registered", "ready", "superseded"}]
  /\ canonical \in [Deliveries -> {"none", "candidate", "active", "revoked"}]
  /\ pc \in [Deliveries -> PcValues]
  /\ seen \in [Deliveries -> {"none", "open", "sealed", "revoked"}]
  /\ old \in [Deliveries -> Deliveries \cup {None}]
  /\ matched \in [Deliveries -> BOOLEAN]
  /\ complete \in [Deliveries -> BOOLEAN]
  /\ request \in [Requests -> {"received", "revoked", "applied"}]
  /\ faults \in 0 .. MaxFaults

Init ==
  /\ window = "none"
  /\ partition = [f \in Deliveries |-> "none"]
  /\ canonical = [f \in Deliveries |-> "none"]
  /\ pc = [f \in Deliveries |-> "new"]
  /\ seen = [f \in Deliveries |-> "none"]
  /\ old = [f \in Deliveries |-> None]
  /\ matched = [f \in Deliveries |-> FALSE]
  /\ complete = [f \in Deliveries |-> FALSE]
  /\ request = [q \in Requests |-> "received"]
  /\ faults = 0

----------------------------------------------------------------------------
Current(f) == partition[f] \in {"registered", "ready"}

\* The current, ready fingerprints of every partition.
AllReady ==
  \A p \in Partitions :
    \E f \in Deliveries : PartitionOf[f] = p /\ partition[f] = "ready"

\* The advisory lock of the window.
Holds(f) == pc[f] \in {"registering", "activating"}
LockIsFree == \A f \in Deliveries : ~Holds(f)

\* mark_partition_ready has updated the row of f and not committed: another
\* UPDATE of that row waits for it.
RowIsLocked(f) == pc[f] = "committing" /\ matched[f]

Goto(f, label) == pc' = [pc EXCEPT ![f] = label]
NoFault == UNCHANGED faults

----------------------------------------------------------------------------
\* prepare: register_partition.

\* Which deliveries the window takes: none when it is revoked; when it is
\* sealed, corrections; one that replaces g must be an exact correction of g.
MayRegister(f) ==
  /\ window # "revoked"
  /\ window = "sealed" => Supersedes[f] # None
  /\ \A g \in Deliveries :
       Current(g) /\ PartitionOf[g] = PartitionOf[f] => Supersedes[f] = g

CurrentOf(f) ==
  LET now == {g \in Deliveries : Current(g) /\ PartitionOf[g] = PartitionOf[f]}
  IN  IF now = {} THEN None ELSE CHOOSE g \in now : TRUE

\* Mutant: register_partition without _lock.
RegisterUnlocked(f) ==
  /\ pc[f] = "new"
  /\ MayRegister(f)
  /\ seen' = [seen EXCEPT ![f] = window]
  /\ old' = [old EXCEPT ![f] = CurrentOf(f)]
  /\ Goto(f, "registering")
  /\ NoFault
  /\ UNCHANGED <<rows, matched, complete, request>>

RegisterRead(f) ==
  /\ pc[f] = "new"
  /\ LockIsFree
  /\ \/ /\ MayRegister(f)
        /\ seen' = [seen EXCEPT ![f] = window]
        /\ old' = [old EXCEPT ![f] = CurrentOf(f)]
        /\ Goto(f, "registering")
     \/ /\ ~MayRegister(f)
        /\ Goto(f, "failed")
        /\ UNCHANGED <<seen, old>>
  /\ NoFault
  /\ UNCHANGED <<rows, matched, complete, request>>

Reopens(f) == old[f] # None /\ seen[f] = "sealed"

\* Mutant: a correction reopens the window and leaves the rest of it active.
ReopenedKeepsActive(f) ==
  [g \in Deliveries |->
     IF g = old[f] /\ canonical[g] \in {"candidate", "active"} THEN "revoked"
     ELSE canonical[g]]

\* A correction of a sealed window takes the whole window out of service; the
\* output it supersedes is revoked.
CanonicalAfterCorrection(f) ==
  [g \in Deliveries |->
     IF g = old[f] /\ canonical[g] \in {"candidate", "active"} THEN "revoked"
     ELSE IF Reopens(f) /\ canonical[g] = "active" THEN "candidate"
     ELSE canonical[g]]

RegisterWrite(f) ==
  /\ pc[f] = "registering"
  /\ old[f] # None => ~RowIsLocked(old[f])
  /\ window' = IF seen[f] = "none" THEN "open"
               ELSE IF Reopens(f) /\ window = "sealed" THEN "open"
               ELSE window
  /\ partition' = [g \in Deliveries |-> IF g = f THEN "registered"
                                        ELSE IF g = old[f] THEN "superseded"
                                        ELSE partition[g]]
  /\ canonical' = CanonicalAfterCorrection(f)
  /\ Goto(f, "running")
  /\ NoFault
  /\ UNCHANGED <<seen, old, matched, complete, request>>

----------------------------------------------------------------------------
\* finalize: mark_partition_ready, then seal_window if that counted every
\* partition as ready.

\* The Glue job failed, or its manifest did not verify.
JobFails(f) ==
  /\ pc[f] = "running"
  /\ Goto(f, "failed")
  /\ NoFault
  /\ UNCHANGED <<rows, seen, old, matched, complete, request>>

\* A ready partition is replayed (after a retried invocation) and counted
\* again; a superseded one is not found.
ReadyRead(f) ==
  /\ pc[f] = "running"
  /\ \/ partition[f] = "registered" /\ Goto(f, "marking")
     \/ partition[f] = "ready" /\ Goto(f, IF AllReady THEN "sealing" ELSE "done")
     \/ partition[f] = "superseded" /\ Goto(f, "failed")
  /\ NoFault
  /\ UNCHANGED <<rows, seen, old, matched, complete, request>>

\* UPDATE ... WHERE status = 'registered' AND is_current = 1 (it may match
\* nothing by now), INSERT the candidate, count the ready partitions.
ReadyWrite(f) ==
  /\ pc[f] = "marking"
  /\ matched' = [matched EXCEPT ![f] = partition[f] = "registered"]
  /\ complete' = [complete EXCEPT ![f] =
                    \A p \in Partitions :
                      \E g \in Deliveries :
                        /\ PartitionOf[g] = p
                        /\ \/ partition[g] = "ready"
                           \/ g = f /\ partition[f] = "registered"]
  /\ Goto(f, "committing")
  /\ NoFault
  /\ UNCHANGED <<rows, seen, old, request>>

ReadyCommit(f) ==
  /\ pc[f] = "committing"
  /\ partition' = [partition EXCEPT ![f] = IF matched[f] THEN "ready" ELSE @]
  /\ canonical' = [canonical EXCEPT ![f] = "candidate"]
  /\ Goto(f, IF complete[f] THEN "sealing" ELSE "done")
  /\ NoFault
  /\ UNCHANGED <<window, seen, old, matched, complete, request>>

\* A sealed window is replayed; one that is revoked or no longer complete is
\* refused.
SealRead(f) ==
  /\ pc[f] = "sealing"
  /\ LockIsFree
  /\ \/ window = "sealed" /\ Goto(f, "done")
     \/ window = "open" /\ AllReady /\ Goto(f, "activating")
     \/ window = "open" /\ ~AllReady /\ Goto(f, "failed")
     \/ window = "revoked" /\ Goto(f, "failed")
  /\ NoFault
  /\ UNCHANGED <<rows, seen, old, matched, complete, request>>

\* Mutants: only the output of the delivery that sealed the window is
\* activated; a window that is no longer open is sealed all the same.
SealActivatesOne(f) ==
  /\ pc[f] = "activating"
  /\ window' = IF window = "open" THEN "sealed" ELSE window
  /\ canonical' = [canonical EXCEPT ![f] = "active"]
  /\ Goto(f, "done")
  /\ NoFault
  /\ UNCHANGED <<partition, seen, old, matched, complete, request>>

SealUnconditionally(f) ==
  /\ pc[f] = "activating"
  /\ window' = "sealed"
  /\ canonical' = [g \in Deliveries |->
                     IF canonical[g] = "candidate" THEN "active"
                     ELSE canonical[g]]
  /\ Goto(f, "done")
  /\ NoFault
  /\ UNCHANGED <<partition, seen, old, matched, complete, request>>

\* UPDATE the window WHERE status = 'open', then every candidate.
SealWrite(f) ==
  /\ pc[f] = "activating"
  /\ window' = IF window = "open" THEN "sealed" ELSE window
  /\ canonical' = [g \in Deliveries |->
                     IF canonical[g] = "candidate" THEN "active"
                     ELSE canonical[g]]
  /\ Goto(f, "done")
  /\ NoFault
  /\ UNCHANGED <<partition, seen, old, matched, complete, request>>

\* The invocation dies, its transaction rolled back or already committed (an
\* answer lost after "done"); the state machine retries the same task.
InvocationDies(f) ==
  /\ pc[f] \notin {"new", "running", "failed"}
  /\ faults < MaxFaults
  /\ faults' = faults + 1
  /\ Goto(f, IF pc[f] = "registering" THEN "new" ELSE "running")
  /\ UNCHANGED <<rows, seen, old, matched, complete, request>>

----------------------------------------------------------------------------
\* Data rights: revoke_scope in one transaction, then 'applied' in another.
\* revoke_scope also revokes what is active in windows that are revoked
\* already, whatever the event time of the request.

Revoke(q) ==
  /\ request[q] = "received"
  /\ window' = IF q \in Overlapping /\ window \in {"open", "sealed"}
                 THEN "revoked" ELSE window
  /\ canonical' = [g \in Deliveries |->
                     IF window' = "revoked" /\ canonical[g] = "active"
                       THEN "revoked" ELSE canonical[g]]
  /\ request' = [request EXCEPT ![q] = "revoked"]
  /\ NoFault
  /\ UNCHANGED <<partition, control>>

MarkApplied(q) ==
  /\ request[q] = "revoked"
  /\ request' = [request EXCEPT ![q] = "applied"]
  /\ NoFault
  /\ UNCHANGED <<rows, control>>

\* apply() dies between the two and is called again.
ApplyDies(q) ==
  /\ request[q] = "revoked"
  /\ faults < MaxFaults
  /\ faults' = faults + 1
  /\ request' = [request EXCEPT ![q] = "received"]
  /\ UNCHANGED <<rows, control>>

----------------------------------------------------------------------------
Prepare(f) == RegisterRead(f) \/ RegisterWrite(f)

Finalize(f) == \/ ReadyRead(f)
               \/ ReadyWrite(f)
               \/ ReadyCommit(f)
               \/ SealRead(f)
               \/ SealWrite(f)

Next == \/ \E f \in Deliveries :
             Prepare(f) \/ Finalize(f) \/ JobFails(f) \/ InvocationDies(f)
        \/ \E q \in Requests : Revoke(q) \/ MarkApplied(q) \/ ApplyDies(q)

Spec == Init /\ [][Next]_vars

\* An invocation that was started finishes its calls; nothing makes a request
\* arrive or a job fail.
FairSpec == Spec /\ \A f \in Deliveries : WF_vars(Prepare(f) \/ Finalize(f))

----------------------------------------------------------------------------
\* Properties.

\* "A window is publishable only after every current partition has completed
\* its privacy transformation": no correction slips in between the check and
\* the seal, and no partition has two current deliveries.
SealedIsComplete ==
  /\ window = "sealed" => AllReady /\ \A f \in Deliveries : Current(f) =>
                                        partition[f] = "ready"
  /\ \A f, g \in Deliveries :
       Current(f) /\ Current(g) /\ PartitionOf[f] = PartitionOf[g] => f = g

\* "keeps every partition as a non-serving candidate until all expected
\* entity-disjoint partitions in the privacy window are complete": while a
\* window is open, for the first time or again for a correction, nothing in it
\* is served.
OpenServesNothing ==
  \A f \in Deliveries : canonical[f] = "active" => window \in {"sealed", "revoked"}

\* "activates the complete window atomically": in a sealed window the output
\* of every current delivery is served.
SealedServesCurrent ==
  window = "sealed" =>
    \A f \in Deliveries : Current(f) => canonical[f] = "active"

\* Revocation is for good: neither a correction nor a seal that was already
\* under way brings a revoked window or a revoked output back.
RevocationIsFinal ==
  [][/\ window = "revoked" => window' = "revoked"
     /\ \A f \in Deliveries :
          canonical[f] = "revoked" => canonical'[f] = "revoked"]_vars

\* The three below state what the repository says and the code does not do.

\* "affected windows are revoked", and the answer of apply() says
\* activation_blocked: a revoked window serves nothing.
RevokedServesNothing ==
  window = "revoked" => \A f \in Deliveries : canonical[f] # "active"

\* A correction "must name the exact fingerprint it supersedes": what it
\* supersedes is not served.
SupersededIsNotServed ==
  \A f \in Deliveries : partition[f] = "superseded" => canonical[f] # "active"

\* "activates the complete window": a window whose partitions are all ready is
\* sealed in the end, if nothing is corrected or revoked.
CompleteWindowIsSealed == AllReady ~> window # "open"

=============================================================================
