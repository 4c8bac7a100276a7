-------------------------- MODULE ProviderIngestion --------------------------
(***************************************************************************)
(* In-process provider ingestion: workers that poll an at-least-once queue *)
(* of object notifications, the object gateway each of them runs, the      *)
(* state table they share, stale-row recovery and controlled replay.       *)
(*                                                                         *)
(*   run_once / process_message   provider_ingestion_worker_service.py     *)
(*   ingest_object                provider_object_ingestion_gateway_...    *)
(*   claim_object / transition    provider_ingestion_state_service.py      *)
(*   enqueue                      provider_replay_service.py               *)
(*                                                                         *)
(* A database call is one action, except transition(), which reads the row *)
(* and updates it by ingestion_id in one transaction that locks nothing in *)
(* between (READ COMMITTED): SelectRow and UpdateRow.                      *)
(*                                                                         *)
(* A row is reduced to its status and whether updated_at is already behind *)
(* the stale cutoff.  Every failure the in-process path records is in      *)
(* RETRYABLE_GATEWAY_REASONS, so reason codes are not needed.              *)
(***************************************************************************)
EXTENDS Naturals, ProviderIngestionState

CONSTANTS
  Workers,          \* worker processes
  Objects,          \* provider object fingerprints
  Notifications,    \* object-created messages the provider bucket emits
  Replays,          \* controlled replays, each with the message it enqueues
  ObjectOf,         \* the object a message is about
  MaxReceiveCount,  \* ProviderWorkerConfig.max_receive_count
  MaxFaults,        \* bound: crashes and failed queue or database calls
  MaxDelays,        \* bound: timeouts that expire under a live worker
  None

Messages == Notifications \cup Replays

ASSUME ConstantsAssumption ==
  /\ Notifications \cap Replays = {}
  /\ ObjectOf \in [Messages -> Objects]
  /\ MaxReceiveCount \in Nat \ {0}
  /\ MaxFaults \in Nat
  /\ MaxDelays \in Nat
  /\ None \notin Messages

VARIABLES
  status,       \* provider_ingestion_objects.status, by fingerprint
  stale,        \* is updated_at of that row behind the stale cutoff
  canonical,    \* is there a canonical output object for this fingerprint
  place,        \* where a message is
  receives,     \* ApproximateReceiveCount
  deadLetters,  \* how many copies of a message the DLQ holds
  pc,           \* where each worker is
  held,         \* the message it is processing
  handle,       \* the receipt handle: the receive count it got it with
  target,       \* the status its transition() call is to write
  after,        \* where the gateway goes on after that transition
  action,       \* what process_message decided to do with the message
  replay,       \* progress of each controlled replay
  author,       \* history: the message whose handling last wrote the row
  faults, delays

objects == <<status, stale, canonical, author>>
queue   == <<place, receives, deadLetters>>
worker  == <<pc, held, handle, target, after, action>>

vars == <<objects, queue, worker, replay, faults, delays>>

Places == {"unsent", "queued", "inflight", "deleted"}

\* TERMINAL_ACK_STATUSES ("dispatched" is not reached in process).
AckStatuses == {"completed", "blocked", "quarantined", "dispatched"}

\* Mutant: a failed result is acknowledged.
FailedAcknowledged(s) ==
  IF s \in AckStatuses \cup {"failed"} THEN "ack" ELSE "retry"

\* What process_message does with a gateway result in status s.
QueueActionFor(s) == IF s \in AckStatuses THEN "ack" ELSE "retry"

PcValues == {"idle", "polling", "resolving", "claiming", "selecting",
             "updating", "loading", "privacy", "writing", "settling",
             "deleting"}

ReplayStages == {"none", "resetting", "verifying", "pending", "sent", "queued"}

TypeOK ==
  /\ status \in [Objects -> Statuses \cup {"absent"}]
  /\ stale \in [Objects -> BOOLEAN]
  /\ canonical \in [Objects -> BOOLEAN]
  /\ place \in [Messages -> Places]
  /\ receives \in [Messages -> Nat]
  /\ deadLetters \in [Messages -> Nat]
  /\ pc \in [Workers -> PcValues]
  /\ held \in [Workers -> Messages \cup {None}]
  /\ handle \in [Workers -> Nat]
  /\ target \in [Workers -> Statuses \cup {"none"}]
  /\ after \in [Workers -> PcValues]
  /\ action \in [Workers -> {"none", "ack", "retry", "dead_letter"}]
  /\ replay \in [Replays -> ReplayStages]
  /\ author \in [Objects -> Messages \cup {None}]
  /\ faults \in 0 .. MaxFaults
  /\ delays \in 0 .. MaxDelays

Init ==
  /\ status = [o \in Objects |-> "absent"]
  /\ stale = [o \in Objects |-> FALSE]
  /\ canonical = [o \in Objects |-> FALSE]
  /\ place = [m \in Messages |->
                IF m \in Notifications THEN "queued" ELSE "unsent"]
  /\ receives = [m \in Messages |-> 0]
  /\ deadLetters = [m \in Messages |-> 0]
  /\ pc = [w \in Workers |-> "idle"]
  /\ held = [w \in Workers |-> None]
  /\ handle = [w \in Workers |-> 0]
  /\ target = [w \in Workers |-> "none"]
  /\ after = [w \in Workers |-> "idle"]
  /\ action = [w \in Workers |-> "none"]
  /\ replay = [r \in Replays |-> "none"]
  /\ author = [o \in Objects |-> None]
  /\ faults = 0
  /\ delays = 0

----------------------------------------------------------------------------
\* Worker bookkeeping.

ObjectAt(w) == ObjectOf[held[w]]

Goto(w, label) ==
  /\ pc' = [pc EXCEPT ![w] = label]
  /\ UNCHANGED <<held, handle, target, after, action>>

\* Enter transition(status = to); on success the gateway goes on at `then`.
Transition(w, to, then) ==
  /\ pc' = [pc EXCEPT ![w] = "selecting"]
  /\ target' = [target EXCEPT ![w] = to]
  /\ after' = [after EXCEPT ![w] = then]
  /\ UNCHANGED <<held, handle, action>>

\* process_message has its answer and turns to the queue.
SettleWith(w, decision) ==
  /\ pc' = [pc EXCEPT ![w] = "settling"]
  /\ action' = [action EXCEPT ![w] = decision]
  /\ target' = [target EXCEPT ![w] = "none"]
  /\ after' = [after EXCEPT ![w] = "idle"]
  /\ UNCHANGED <<held, handle>>

\* The message is dealt with, or lost sight of.
Finish(w) ==
  /\ pc' = [pc EXCEPT ![w] = "idle"]
  /\ held' = [held EXCEPT ![w] = None]
  /\ handle' = [handle EXCEPT ![w] = 0]
  /\ target' = [target EXCEPT ![w] = "none"]
  /\ after' = [after EXCEPT ![w] = "idle"]
  /\ action' = [action EXCEPT ![w] = "none"]

\* A write to the row of o: it sets the status and updated_at.
WriteRow(o, s) == /\ status' = [status EXCEPT ![o] = s]
                  /\ stale' = [stale EXCEPT ![o] = FALSE]

Fault == faults < MaxFaults /\ faults' = faults + 1
NoFault == UNCHANGED <<faults, delays>>

----------------------------------------------------------------------------
\* run_once: recover stale rows, then ask the queue for a message.

\* Mutant: only processing rows are recovered.
ProcessingStaleRow(o) == stale[o] /\ status[o] = "processing"

StaleRow(o) == stale[o] /\ status[o] \in Recoverable
RecoveredStatus == "failed"

RecoverStaleInProgress(w) ==
  /\ pc[w] = "idle"
  /\ status' = [o \in Objects |->
                  IF StaleRow(o) THEN RecoveredStatus ELSE status[o]]
  /\ stale' = [o \in Objects |-> IF StaleRow(o) THEN FALSE ELSE stale[o]]
  /\ Goto(w, "polling")
  /\ NoFault
  /\ UNCHANGED <<canonical, author, queue, replay>>

ReceiveMessage(w) ==
  /\ pc[w] = "polling"
  /\ \E m \in Messages :
       /\ place[m] = "queued"
       /\ place' = [place EXCEPT ![m] = "inflight"]
       /\ receives' = [receives EXCEPT ![m] = @ + 1]
       /\ held' = [held EXCEPT ![w] = m]
       /\ handle' = [handle EXCEPT ![w] = receives[m] + 1]
  /\ pc' = [pc EXCEPT ![w] = "resolving"]
  /\ NoFault
  /\ UNCHANGED <<objects, deadLetters, target, after, action, replay>>

ReceiveNothing(w) ==
  /\ pc[w] = "polling"
  /\ \A m \in Messages : place[m] # "queued"
  /\ Goto(w, "idle")
  /\ NoFault
  /\ UNCHANGED <<objects, queue, replay>>

\* Parse the event, head the object, resolve its contract.  Each of the three
\* may fail for good (dead letter) or for now (retry).
ResolveMessage(w) ==
  /\ pc[w] = "resolving"
  /\ \/ Goto(w, "claiming") /\ UNCHANGED faults
     \/ \E decision \in {"retry", "dead_letter"} :
          SettleWith(w, decision) /\ Fault
  /\ UNCHANGED <<objects, queue, replay, delays>>

----------------------------------------------------------------------------
\* ingest_object(retry_failed = True), up to the first transition.

\* INSERT ... ON CONFLICT DO NOTHING: this worker owns a new row.
ClaimNewObject(w) ==
  /\ pc[w] = "claiming"
  /\ status[ObjectAt(w)] = "absent"
  /\ WriteRow(ObjectAt(w), "received")
  /\ author' = [author EXCEPT ![ObjectAt(w)] = held[w]]
  /\ Transition(w, "validating", "loading")
  /\ NoFault
  /\ UNCHANGED <<canonical, queue, replay>>

\* Mutant: wait for whoever has the object instead of returning its state.
WaitForOwner(w) ==
  /\ pc[w] = "claiming"
  /\ status[ObjectAt(w)] \in AckStatuses \cup {"failed"}
  /\ IF status[ObjectAt(w)] = "failed"
       THEN Transition(w, "validating", "loading")
       ELSE SettleWith(w, QueueActionFor(status[ObjectAt(w)]))
  /\ NoFault
  /\ UNCHANGED <<objects, queue, replay>>

\* The row exists: a failed one is retried, any other is returned as it is.
ClaimDuplicate(w) ==
  /\ pc[w] = "claiming"
  /\ status[ObjectAt(w)] # "absent"
  /\ IF status[ObjectAt(w)] = "failed"
       THEN Transition(w, "validating", "loading")
       ELSE SettleWith(w, QueueActionFor(status[ObjectAt(w)]))
  /\ NoFault
  /\ UNCHANGED <<objects, queue, replay>>

----------------------------------------------------------------------------
\* transition(): SELECT, check, UPDATE ... WHERE ingestion_id = ...

SelectRow(w) ==
  /\ pc[w] = "selecting"
  /\ IF MayTransition(status[ObjectAt(w)], target[w])
       THEN Goto(w, "updating")
       ELSE SettleWith(w, "dead_letter")  \* ValueError is not transient
  /\ NoFault
  /\ UNCHANGED <<objects, queue, replay>>

UpdateRow(w) ==
  /\ pc[w] = "updating"
  /\ WriteRow(ObjectAt(w), target[w])
  /\ author' = [author EXCEPT ![ObjectAt(w)] = held[w]]
  /\ IF after[w] = "settling"
       THEN SettleWith(w, QueueActionFor(target[w]))
       ELSE Goto(w, after[w])
  /\ NoFault
  /\ UNCHANGED <<canonical, queue, replay>>

\* A database error in claim_object() or transition() leaves the row as it
\* was, escapes the gateway and is retried as provider_gateway_unavailable.
DatabaseUnavailable(w) ==
  /\ pc[w] \in {"claiming", "selecting"}
  /\ SettleWith(w, "retry")
  /\ Fault
  /\ UNCHANGED <<objects, queue, replay, delays>>

----------------------------------------------------------------------------
\* The rest of ingest_object.

\* Validate the contract, read and decode the object.
LoadObject(w) ==
  /\ pc[w] = "loading"
  /\ \/ Transition(w, "processing", "privacy")
     \/ Transition(w, "quarantined", "settling")
     \/ Transition(w, "failed", "settling")
  /\ NoFault
  /\ UNCHANGED <<objects, queue, replay>>

RunPrivacyPipeline(w) ==
  /\ pc[w] = "privacy"
  /\ \/ Goto(w, "writing")
     \/ Transition(w, "blocked", "settling")
     \/ Transition(w, "failed", "settling")
  /\ NoFault
  /\ UNCHANGED <<objects, queue, replay>>

\* Mutant: an exception from put_object is taken for success.
WriteErrorIgnored(w) ==
  /\ pc[w] = "writing"
  /\ \E written \in {TRUE, canonical[ObjectAt(w)]} :
       canonical' = [canonical EXCEPT ![ObjectAt(w)] = written]
  /\ Transition(w, "completed", "settling")
  /\ NoFault
  /\ UNCHANGED <<status, stale, author, queue, replay>>

\* put_object, then completed; or the safe-schema check rejects the rows; or
\* the call raises or returns no reference, with or without its effect.
WriteCanonical(w) ==
  /\ pc[w] = "writing"
  /\ \/ /\ canonical' = [canonical EXCEPT ![ObjectAt(w)] = TRUE]
        /\ Transition(w, "completed", "settling")
     \/ /\ Transition(w, "quarantined", "settling")
        /\ UNCHANGED canonical
     \/ /\ \E written \in {TRUE, canonical[ObjectAt(w)]} :
             canonical' = [canonical EXCEPT ![ObjectAt(w)] = written]
        /\ Transition(w, "failed", "settling")
  /\ NoFault
  /\ UNCHANGED <<status, stale, author, queue, replay>>

----------------------------------------------------------------------------
\* _acknowledge, _retry_or_dead_letter, _dead_letter.

\* delete_message with the handle of an older receive may do nothing.
Deleted(w) ==
  \/ place' = [place EXCEPT ![held[w]] = "deleted"]
  \/ handle[w] # receives[held[w]] /\ UNCHANGED place

MayRetry(w) == /\ action[w] = "retry"
               /\ handle[w] < MaxReceiveCount

Acknowledge(w) ==
  /\ pc[w] = "settling"
  /\ action[w] = "ack"
  /\ Deleted(w)
  /\ Finish(w)
  /\ NoFault
  /\ UNCHANGED <<objects, receives, deadLetters, replay>>

\* change_visibility: the message comes back when the delay has passed.
ScheduleRetry(w) ==
  /\ pc[w] = "settling"
  /\ MayRetry(w)
  /\ Finish(w)
  /\ NoFault
  /\ UNCHANGED <<objects, queue, replay>>

\* Mutant: the dead letter is not sent before the message is deleted.
DeletedWithoutDlq(w) ==
  /\ pc[w] = "settling"
  /\ action[w] # "ack"
  /\ ~MayRetry(w)
  /\ Goto(w, "deleting")
  /\ NoFault
  /\ UNCHANGED <<objects, queue, replay>>

SendToDlq(w) ==
  /\ pc[w] = "settling"
  /\ action[w] # "ack"
  /\ ~MayRetry(w)
  /\ deadLetters' = [deadLetters EXCEPT ![held[w]] = @ + 1]
  /\ Goto(w, "deleting")
  /\ NoFault
  /\ UNCHANGED <<objects, place, receives, replay>>

DeleteDeadLettered(w) ==
  /\ pc[w] = "deleting"
  /\ Deleted(w)
  /\ Finish(w)
  /\ NoFault
  /\ UNCHANGED <<objects, receives, deadLetters, replay>>

\* The queue call raises (queue_action_failed), or the process dies.
AbandonMessage(w) ==
  /\ pc[w] \notin {"idle", "polling"}
  /\ Finish(w)
  /\ Fault
  /\ UNCHANGED <<objects, queue, replay, delays>>

----------------------------------------------------------------------------
\* Time.  A timeout that expires while a worker is still on the message or on
\* the object is a delay, and delays are bounded.

Delayed(busy) == /\ busy => delays < MaxDelays
                 /\ delays' = IF busy THEN delays + 1 ELSE delays

VisibilityTimeout(m) ==
  /\ place[m] = "inflight"
  /\ place' = [place EXCEPT ![m] = "queued"]
  /\ Delayed(\E w \in Workers : held[w] = m)
  /\ UNCHANGED <<objects, receives, deadLetters, worker, replay, faults>>

OnObject(w, o) == held[w] # None /\ ObjectAt(w) = o

RowAges(o) ==
  /\ status[o] \in Recoverable
  /\ ~stale[o]
  /\ stale' = [stale EXCEPT ![o] = TRUE]
  /\ Delayed(\E w \in Workers : OnObject(w, o))
  /\ UNCHANGED <<status, canonical, author, queue, worker, replay, faults>>

----------------------------------------------------------------------------
\* Controlled replay: prepare_controlled_replay (read, then reset and record
\* the replay), send_message, mark_replay_enqueued.

ReplayRead(r) ==
  /\ replay[r] = "none"
  /\ status[ObjectOf[r]] \in Replayable
  /\ replay' = [replay EXCEPT ![r] =
                  IF status[ObjectOf[r]] \in Resettable
                    THEN "resetting" ELSE "verifying"]
  /\ NoFault
  /\ UNCHANGED <<objects, queue, worker>>

ReplayPrepared(r) ==
  /\ \/ /\ replay[r] = "resetting"
        /\ WriteRow(ObjectOf[r], "failed")
        /\ author' = [author EXCEPT ![ObjectOf[r]] = r]
     \/ replay[r] = "verifying" /\ UNCHANGED <<status, stale, author>>
  /\ replay' = [replay EXCEPT ![r] = "pending"]
  /\ NoFault
  /\ UNCHANGED <<canonical, queue, worker>>

ReplaySend(r) ==
  /\ replay[r] = "pending"
  /\ replay' = [replay EXCEPT ![r] = "sent"]
  /\ place' = [place EXCEPT ![r] = "queued"]
  /\ NoFault
  /\ UNCHANGED <<objects, receives, deadLetters, worker>>

MarkReplayEnqueued(r) ==
  /\ replay[r] = "sent"
  /\ replay' = [replay EXCEPT ![r] = "queued"]
  /\ NoFault
  /\ UNCHANGED <<objects, queue, worker>>

----------------------------------------------------------------------------
Poll(w) == \/ RecoverStaleInProgress(w)
           \/ ReceiveMessage(w)
           \/ ReceiveNothing(w)

Gateway(w) == \/ ClaimNewObject(w)
              \/ ClaimDuplicate(w)
              \/ SelectRow(w)
              \/ UpdateRow(w)
              \/ LoadObject(w)
              \/ RunPrivacyPipeline(w)
              \/ WriteCanonical(w)

Settle(w) == \/ Acknowledge(w)
             \/ ScheduleRetry(w)
             \/ SendToDlq(w)
             \/ DeleteDeadLettered(w)

WorkerStep(w) == Poll(w) \/ ResolveMessage(w) \/ Gateway(w) \/ Settle(w)

WorkerFault(w) == DatabaseUnavailable(w) \/ AbandonMessage(w)

ReplayStep(r) == \/ ReplayRead(r)
                 \/ ReplayPrepared(r)
                 \/ ReplaySend(r)
                 \/ MarkReplayEnqueued(r)

Next == \/ \E w \in Workers : WorkerStep(w) \/ WorkerFault(w)
        \/ \E m \in Messages : VisibilityTimeout(m)
        \/ \E o \in Objects : RowAges(o)
        \/ \E r \in Replays : ReplayStep(r)

Spec == Init /\ [][Next]_vars

\* A worker process keeps calling run_once and each call returns; timeouts
\* expire.  Nothing makes an operator start or finish a replay, and nothing
\* makes a fault happen.
Fairness == /\ \A w \in Workers : WF_vars(WorkerStep(w))
            /\ \A m \in Messages : WF_vars(VisibilityTimeout(m))
            /\ \A o \in Objects : WF_vars(RowAges(o))

FairSpec == Spec /\ Fairness

----------------------------------------------------------------------------
\* Properties.

\* A row says "completed" only when a canonical output object exists for its
\* fingerprint, whichever of several workers wrote the row last and whichever
\* wrote the object (ingest_object writes the object before the last
\* transition, and a failed attempt may or may not have left one behind).
CompletedHasOutput ==
  \A o \in Objects : status[o] = "completed" => canonical[o]

Final(s) == s \in AckStatuses
Claimed(o) == status[o] # "absent"

\* Somebody will still look at this message: the queue holds it, an operator
\* does (the DLQ), or a committed replay is about to send it.
Pursued(m) == \/ place[m] \in {"queued", "inflight"}
              \/ deadLetters[m] > 0
              \/ m \in Replays /\ replay[m] = "pending"

\* No object is left behind: as long as no visibility timeout has expired
\* under a live worker, an object whose row is claimed and not final has a
\* message that is still pursued.  It is what makes "acknowledge on a final
\* status, dead-letter before delete" (process_message) add up when several
\* messages about one object are handled at once, with crashes.
NoObjectLeftBehind ==
  delays = 0 =>
    \A o \in Objects :
      Claimed(o) /\ ~Final(status[o]) =>
        \E m \in Messages : ObjectOf[m] = o /\ Pursued(m)

\* The queue is drained: each message that was sent is deleted in the end,
\* acknowledged or dead-lettered, through retries, crashes and failed queue
\* calls (the receive count bounds the retries).
MessagesAreSettled ==
  \A m \in Messages : place[m] = "queued" ~> place[m] = "deleted"

\* A worker's death never leaves an object in the middle: "Stale validating or
\* processing records are changed to a retryable failed state" (runbook), even
\* when no message about the object is left in the queue.
StaleRowsAreRecovered ==
  \A o \in Objects : status[o] \in Recoverable
                        ~> status[o] \notin Recoverable

\* The three below state what the repository says and the code does not do.

\* "A duplicate S3 event therefore observes the existing record instead of
\* executing downstream privacy or canonical-write side effects again"
\* (ProviderIngestionStateService): two workers are never both in the privacy
\* pipeline or the canonical write of one object.
SideEffectsExclusive ==
  \A v, w \in Workers :
    /\ v # w
    /\ {pc[v], pc[w]} \subseteq {"privacy", "writing"}
    => ObjectAt(v) # ObjectAt(w)

\* ALLOWED_TRANSITIONS has nothing after "completed": a completed object stays
\* completed.
CompletedIsFinal ==
  [][\A o \in Objects :
       status[o] = "completed" => status'[o] = "completed"]_vars

\* "S3/database/network timeouts and gateway infrastructure failures retry"
\* (runbook): an object that has been claimed does not stay "received".
ClaimedObjectsAdvance ==
  \A o \in Objects : status[o] = "received"
                        ~> status[o] # "received"

=============================================================================
