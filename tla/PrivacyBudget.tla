---------------------------- MODULE PrivacyBudget ----------------------------
(***************************************************************************)
(* The privacy budget of the distributed provider path: the table          *)
(* provider_privacy_releases and the two calls that write it,              *)
(*                                                                         *)
(*   reserve         one transaction, under a PostgreSQL advisory lock on  *)
(*                   the budget scope (LockScope, ReadScope,               *)
(*                   InsertRelease)                                        *)
(*   mark_terminal   one transaction that locks nothing: it reads the      *)
(*                   release and updates it WHERE status = 'reserved'      *)
(*                   (ReadRelease, UpdateRelease)                          *)
(*                                                                         *)
(* The table, the sums over it and what all of this promises are in        *)
(* PrivacyLedger.                                                          *)
(***************************************************************************)
EXTENDS PrivacyLedger

CONSTANTS
  Callers,      \* concurrent control plane invocations
  None

ASSUME ConstantsAssumption ==
  /\ IsFiniteSet(Releases)
  /\ None \notin Releases
  /\ ScopeOf \in [Releases -> Scopes]
  /\ GroupOf \in [Releases -> Groups]
  /\ PartitionOf \in [Releases -> Partitions]
  /\ MaxEpsilon \in Nat \ {0}
  /\ Budget \in [Scopes -> Nat]

VARIABLES
  pc,         \* where each caller is in its transaction
  release,    \* the release it is about
  asked,      \* reserve: the epsilon of its request
  used,       \* reserve: used_before
  charge,     \* reserve: charged_epsilon, before the budget check
  outcome     \* mark_terminal: the status it is to write

caller == <<pc, release, asked, used, charge, outcome>>
vars   == <<rows, caller>>

TypeOK ==
  /\ decision \in [Releases -> Decisions]
  /\ status \in [Releases -> {"none", "reserved"} \cup Terminal]
  /\ epsilon \in [Releases -> 0 .. MaxEpsilon]
  /\ charged \in [Releases -> 0 .. MaxEpsilon]
  /\ pc \in [Callers -> {"idle", "locked", "inserting", "marking"}]
  /\ release \in [Callers -> Releases \cup {None}]
  /\ asked \in [Callers -> 0 .. MaxEpsilon]
  /\ used \in [Callers -> Nat]
  /\ charge \in [Callers -> 0 .. MaxEpsilon]
  /\ outcome \in [Callers -> Terminal \cup {"none"}]

Init ==
  /\ LedgerInit
  /\ pc = [c \in Callers |-> "idle"]
  /\ release = [c \in Callers |-> None]
  /\ asked = [c \in Callers |-> 0]
  /\ used = [c \in Callers |-> 0]
  /\ charge = [c \in Callers |-> 0]
  /\ outcome = [c \in Callers |-> "none"]

----------------------------------------------------------------------------
\* The charge that reserve() computes from its SELECTs.

\* Mutants: any partition of a group that is already charged is free; the
\* queries on the group leave the scope out.
ChargedOncePerGroup(r, e) == IF AllowedInGroup(r) = {} THEN e ELSE 0

ChargedAcrossScopes(r, e) ==
  LET group == {q \in UNION {Allowed(s) : s \in Scopes} :
                  GroupOf[q] = GroupOf[r]}
  IN  IF group # {} /\ \A q \in group : PartitionOf[q] # PartitionOf[r]
        THEN 0 ELSE e

\* Parallel composition: the other partitions of a charged group are free, a
\* second release of the same partition is not.
ChargeFor(r, e) ==
  IF AllowedInGroup(r) # {} /\ AllowedInPartition(r) = {} THEN 0 ELSE e

----------------------------------------------------------------------------
Return(c) ==
  /\ pc' = [pc EXCEPT ![c] = "idle"]
  /\ release' = [release EXCEPT ![c] = None]
  /\ asked' = [asked EXCEPT ![c] = 0]
  /\ used' = [used EXCEPT ![c] = 0]
  /\ charge' = [charge EXCEPT ![c] = 0]
  /\ outcome' = [outcome EXCEPT ![c] = "none"]

Holds(c, s) == pc[c] \in {"locked", "inserting"} /\ ScopeOf[release[c]] = s

\* Mutant: the lock is on the release instead of its scope.
LockRelease(c, r, e) ==
  /\ pc[c] = "idle"
  /\ \A d \in Callers :
       ~(pc[d] \in {"locked", "inserting"} /\ release[d] = r)
  /\ pc' = [pc EXCEPT ![c] = "locked"]
  /\ release' = [release EXCEPT ![c] = r]
  /\ asked' = [asked EXCEPT ![c] = e]
  /\ UNCHANGED <<rows, used, charge, outcome>>

\* pg_advisory_xact_lock(scope): held until the transaction ends.
LockScope(c, r, e) ==
  /\ pc[c] = "idle"
  /\ \A d \in Callers : ~Holds(d, ScopeOf[r])
  /\ pc' = [pc EXCEPT ![c] = "locked"]
  /\ release' = [release EXCEPT ![c] = r]
  /\ asked' = [asked EXCEPT ![c] = e]
  /\ UNCHANGED <<rows, used, charge, outcome>>

\* A release that exists is replayed (or refused, if its parameters changed),
\* a group whose parameters changed is refused; otherwise the charge is known.
ReadScope(c) ==
  /\ pc[c] = "locked"
  /\ LET r == release[c]
         e == asked[c]
     IN  \/ /\ decision[r] # "none" \/ ParametersChanged(r, e)
            /\ Return(c)
         \/ /\ decision[r] = "none"
            /\ ~ParametersChanged(r, e)
            /\ used' = [used EXCEPT ![c] = Used(ScopeOf[r])]
            /\ charge' = [charge EXCEPT ![c] = ChargeFor(r, e)]
            /\ pc' = [pc EXCEPT ![c] = "inserting"]
            /\ UNCHANGED <<release, asked, outcome>>
  /\ UNCHANGED rows

\* Mutant: a reservation that fills the budget is refused.
BelowBudget(c) == used[c] + charge[c] < Budget[ScopeOf[release[c]]]

WithinBudget(c) == used[c] + charge[c] <= Budget[ScopeOf[release[c]]]

\* INSERT and commit; (ingestion_id, dispatch_attempt) is UNIQUE.
InsertRelease(c) ==
  /\ pc[c] = "inserting"
  /\ LET r == release[c]
     IN  IF decision[r] = "none"
           THEN /\ epsilon' = [epsilon EXCEPT ![r] = asked[c]]
                /\ IF WithinBudget(c)
                     THEN /\ decision' = [decision EXCEPT ![r] = "allowed"]
                          /\ status' = [status EXCEPT ![r] = "reserved"]
                          /\ charged' = [charged EXCEPT ![r] = charge[c]]
                     ELSE /\ decision' = [decision EXCEPT ![r] = "blocked"]
                          /\ status' = [status EXCEPT ![r] = "blocked"]
                          /\ UNCHANGED charged
           ELSE UNCHANGED rows
  /\ Return(c)

\* mark_terminal on a release that is still reserved; on any other it returns
\* or raises and changes nothing.
ReadRelease(c, r, s) ==
  /\ pc[c] = "idle"
  /\ status[r] = "reserved"
  /\ pc' = [pc EXCEPT ![c] = "marking"]
  /\ release' = [release EXCEPT ![c] = r]
  /\ outcome' = [outcome EXCEPT ![c] = s]
  /\ UNCHANGED <<rows, asked, used, charge>>

\* Mutants: the UPDATE names the release only; a failed release is refunded.
UpdateUnconditionally(c) ==
  /\ pc[c] = "marking"
  /\ status' = [status EXCEPT ![release[c]] = outcome[c]]
  /\ UNCHANGED <<decision, epsilon, charged>>
  /\ Return(c)

FailedRefunded(c) ==
  /\ pc[c] = "marking"
  /\ LET r == release[c]
     IN  IF status[r] = "reserved"
           THEN /\ status' = [status EXCEPT ![r] = outcome[c]]
                /\ charged' = [charged EXCEPT ![r] =
                                 IF outcome[c] = "failed" THEN 0 ELSE @]
           ELSE UNCHANGED <<status, charged>>
  /\ UNCHANGED <<decision, epsilon>>
  /\ Return(c)

UpdateRelease(c) ==
  /\ pc[c] = "marking"
  /\ LET r == release[c]
     IN  IF status[r] = "reserved"
           THEN status' = [status EXCEPT ![r] = outcome[c]]
           ELSE UNCHANGED status
  /\ UNCHANGED <<decision, epsilon, charged>>
  /\ Return(c)

\* The connection or the process is lost: the transaction is rolled back.
Rollback(c) ==
  /\ pc[c] # "idle"
  /\ Return(c)
  /\ UNCHANGED rows

Next ==
  \E c \in Callers :
    \/ \E r \in Releases, e \in Epsilons : LockScope(c, r, e)
    \/ ReadScope(c)
    \/ InsertRelease(c)
    \/ \E r \in Releases, s \in Terminal : ReadRelease(c, r, s)
    \/ UpdateRelease(c)
    \/ Rollback(c)

Spec == Init /\ [][Next]_vars

----------------------------------------------------------------------------
\* Properties.

\* Once a reservation is committed its decision, parameters and charge stay as
\* they are: "A failed release remains charged conservatively".
ReservationsAreFrozen ==
  [][\A r \in Releases :
       decision[r] # "none" =>
         /\ decision'[r] = decision[r]
         /\ epsilon'[r] = epsilon[r]
         /\ charged'[r] = charged[r]]_vars

\* "A terminal privacy release cannot be replaced", also when two control plane
\* calls both read it as reserved.  (KeepsTheLedger implies it.)
TerminalReleaseIsFinal ==
  [][\A r \in Releases :
       status[r] \in Terminal => status'[r] = status[r]]_vars

\* Reservations and terminal marks change the table as if each happened at one
\* moment (PrivacyLedger): no sum a reservation was decided on is stale when it
\* inserts, neither one it was admitted on nor one it was refused on, and of two
\* terminal marks of a release one takes effect.
KeepsTheLedger == LedgerSpec

=============================================================================
