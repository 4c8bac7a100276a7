-------------------------- MODULE FreshDataOutcome --------------------------
(***************************************************************************)
(* What the fresh-data workflow promises to the outside, whatever workers, *)
(* leases and crashes do inside: one request gets at most one verdict, the *)
(* verdict never changes, and a request is handed to human review only     *)
(* when the feature set it was computed from has been published.  The      *)
(* feature set may be published without a review ever coming of it.        *)
(***************************************************************************)
VARIABLES
  features,  \* "none" or "published"
  outcome    \* "pending", "review" or "stopped"

vars == <<features, outcome>>

Init ==
  /\ features = "none"
  /\ outcome = "pending"

Publish ==
  /\ features = "none"
  /\ features' = "published"
  /\ UNCHANGED outcome

\* Hand the request to human review: needs the published feature set.
Review ==
  /\ outcome = "pending"
  /\ features = "published"
  /\ outcome' = "review"
  /\ UNCHANGED features

\* Blocked, quarantined or failed: for the outside the request is over.
Stop ==
  /\ outcome = "pending"
  /\ outcome' = "stopped"
  /\ UNCHANGED features

Next == Publish \/ Review \/ Stop

Spec == Init /\ [][Next]_vars
=============================================================================
