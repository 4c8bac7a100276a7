--------------------------- MODULE FreshDataTrigger ---------------------------
(***************************************************************************)
(* ProductionFreshDataTriggerService.run_once(): the poll that turns       *)
(* completed provider ingestions into fresh-data workflows.  It lists the  *)
(* newest Limit completed rows, walks them oldest first, and has each one  *)
(* executed (FreshDataWorkflow).  Nothing marks a row as handled: the      *)
(* durable workflow makes a second execution a replay, and a handled row   *)
(* keeps its place in the list.                                            *)
(***************************************************************************)
EXTENDS Naturals, Sequences, SequencesExt

CONSTANTS
  Deliveries, \* provider ingestions that complete sooner or later
  Bad,        \* those whose receipt no request can be built from
  Limit,      \* rows listed by one poll
  MaxAborts   \* bound on polls cut short by an exception or a crash

ASSUME TriggerAssumption ==
  /\ Bad \subseteq Deliveries
  /\ Limit \in Nat \ {0}
  /\ MaxAborts \in Nat

VARIABLES
  completed, \* completed ingestion rows, in the order of their updated_at
  batch,     \* rows the running poll has still to walk, oldest first
  triggered, \* deliveries whose workflow has been executed
  refused,   \* deliveries reported under "failures"
  aborts     \* polls cut short so far

poller == <<completed, batch, triggered, refused, aborts>>

PollerInit ==
  /\ completed = << >>
  /\ batch = << >>
  /\ triggered = {}
  /\ refused = {}
  /\ aborts = 0

\* Module 1 completes a delivery (see ProviderIngestion).  The time it is
\* completed at and its commit are one step, and the row is not written again.
Complete(d) ==
  /\ d \notin ToSet(completed)
  /\ completed' = Append(completed, d)
  /\ UNCHANGED <<batch, triggered, refused, aborts>>

\* list_recent: ORDER BY updated_at DESC LIMIT :limit, then reversed().
Newest(rows) ==
  SubSeq(rows, IF Len(rows) > Limit THEN Len(rows) - Limit + 1 ELSE 1, Len(rows))

\* Mutant for InOrder: the rows are walked as list_recent returns them.
PollNewestFirst ==
  /\ batch = << >>
  /\ completed # << >>
  /\ batch' = Reverse(Newest(completed))
  /\ UNCHANGED <<completed, triggered, refused, aborts>>

\* A poll of an empty list changes nothing.
Poll ==
  /\ batch = << >>
  /\ completed # << >>
  /\ batch' = Newest(completed)
  /\ UNCHANGED <<completed, triggered, refused, aborts>>

\* Mutant for EveryDeliveryIsTriggered: a bad receipt ends the poll.
RefuseEndsPoll ==
  /\ batch # << >>
  /\ Head(batch) \in Bad
  /\ refused' = refused \cup {Head(batch)}
  /\ batch' = << >>
  /\ UNCHANGED <<completed, triggered, aborts>>

\* A KeyError, ValueError or RuntimeError of one row is reported and the walk
\* goes on.
Refuse ==
  /\ batch # << >>
  /\ Head(batch) \in Bad
  /\ refused' = refused \cup {Head(batch)}
  /\ batch' = Tail(batch)
  /\ UNCHANGED <<completed, triggered, aborts>>

\* Mutant for PollerTypeOK: the request factory accepts any receipt.
TriggerUnchecked ==
  /\ batch # << >>
  /\ triggered' = triggered \cup {Head(batch)}
  /\ batch' = Tail(batch)
  /\ UNCHANGED <<completed, refused, aborts>>

\* The request is executed; if execute() raises, that is reported, but the
\* workflow of the delivery exists.
Trigger ==
  /\ batch # << >>
  /\ Head(batch) \notin Bad
  /\ triggered' = triggered \cup {Head(batch)}
  /\ batch' = Tail(batch)
  /\ UNCHANGED <<completed, refused, aborts>>

\* Any other exception, or a crash of the worker, ends the poll.
Abort ==
  /\ batch # << >>
  /\ aborts < MaxAborts
  /\ aborts' = aborts + 1
  /\ batch' = << >>
  /\ UNCHANGED <<completed, triggered, refused>>

PollerNext ==
  \/ \E d \in Deliveries : Complete(d)
  \/ Poll \/ Refuse \/ Trigger \/ Abort

PollerSpec == PollerInit /\ [][PollerNext]_poller

\* The worker polls again and again and finishes what it lists.
FairPollerSpec == PollerSpec /\ WF_poller(Poll) /\ WF_poller(Refuse \/ Trigger)

-----------------------------------------------------------------------------
\* Every variable has its type: rows complete once, and only good receipts are
\* triggered.
PollerTypeOK ==
  /\ completed \in Seq(Deliveries) /\ IsInjective(completed)
  /\ batch \in Seq(Deliveries)
  /\ triggered \subseteq Deliveries \ Bad
  /\ refused \subseteq Bad
  /\ aborts \in 0 .. MaxAborts

\* "a bad receipt is isolated without preventing other completed receipts from
\* being examined", and "Oldest-first prevents a high-frequency provider from
\* starving earlier deliveries": every good delivery that completes is
\* triggered, whatever bad receipts and aborted polls come in between.
\* production_fresh_data_trigger_service.py, run_once.
EveryDeliveryIsTriggered ==
  \A d \in Deliveries \ Bad : d \in ToSet(completed) ~> d \in triggered

\* While the completed rows fit in one poll, no delivery is triggered before an
\* older good one, across polls, aborts and completions that arrive during a
\* poll.  (With more rows the oldest are not listed at all.)
\* production_fresh_data_trigger_service.py, run_once.
InOrder ==
  Len(completed) <= Limit =>
    \A i, j \in DOMAIN completed :
      i < j /\ completed[j] \in triggered => completed[i] \in triggered \cup Bad
=============================================================================
