----------------------- MODULE ProviderIngestionState -----------------------
(***************************************************************************)
(* The durable lifecycle of one provider object: the status column of      *)
(* provider_ingestion_objects and the rules that                           *)
(* app/services/provider_ingestion_state_service.py applies to it.  The    *)
(* modules that move a row (workers, control plane, reconciliation,        *)
(* controlled replay) extend this one.                                     *)
(***************************************************************************)
\* VALID_STATUSES
Statuses == {"received", "validating", "dispatching", "dispatched",
             "processing", "completed", "blocked", "quarantined", "failed"}

\* ALLOWED_TRANSITIONS
AllowedTransitions ==
  [received    |-> {"validating", "failed"},
   validating  |-> {"dispatching", "processing", "blocked", "quarantined",
                    "failed"},
   dispatching |-> {"dispatched", "failed"},
   dispatched  |-> {"processing", "completed", "blocked", "quarantined",
                    "failed"},
   processing  |-> {"completed", "blocked", "quarantined", "failed"},
   completed   |-> {},
   blocked     |-> {},
   quarantined |-> {},
   failed      |-> {"validating"}]

\* The check that transition() makes on the row it has just read.
MayTransition(from, to) == to = from \/ to \in AllowedTransitions[from]

\* The statuses recover_stale_in_progress() looks for, and the ones
\* prepare_controlled_replay() accepts and resets.
Recoverable == {"validating", "dispatching", "processing"}
Replayable  == {"failed", "blocked", "quarantined", "completed"}
Resettable  == {"failed", "blocked", "quarantined"}
=============================================================================
