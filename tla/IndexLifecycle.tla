--------------------------- MODULE IndexLifecycle ---------------------------
(***************************************************************************)
(* The governed lifecycle of the retrieval index versions of one tenant    *)
(* (production_module2_index_lifecycle_service.py) on PostgreSQL: the      *)
(* service's operations over the transactional repository, with the        *)
(* constraints migration 0011 puts on the table.                           *)
(*                                                                         *)
(* A lifecycle transition is one UPDATE guarded by the expected status, so *)
(* it is one action.  A switch (activation or rollback) is one transaction *)
(* of several statements under READ COMMITTED, so each statement is an     *)
(* action: what a transaction has updated is locked, invisible to the      *)
(* others until it commits, and forgotten when it aborts.                  *)
(*                                                                         *)
(* Abstracted: the build itself, the reports (valid and ready, or the call *)
(* raises before touching anything), and of an event row all but the       *)
(* status it announces.                                                    *)
(***************************************************************************)
EXTENDS Naturals, FiniteSets

CONSTANTS
    Manifests,        \* the manifests operators hold
    VersionOf(_),     \* the index version a manifest names
    ForProduction(_), \* its data_use_mode is 'production'
    Operators,        \* callers of promote_to_active and rollback, one transaction each
    None

Versions == {VersionOf(m) : m \in Manifests}

ASSUME NoneAssumption == None \notin Manifests

Status == {"absent", "candidate", "building", "built", "validated", "failed",
           "shadow", "active", "retired"}
\* Versions a query may be, or may have been, answered from.
Servable == {"shadow", "active", "retired"}

VARIABLES
    status,    \* committed status of each version's row ("absent": no row)
    manifest,  \* the manifest the row was registered with
    event,     \* next_status of the newest event row of the version
    passed,    \* history: the versions whose validation passed
    pc,        \* the statement each operator's transaction is at
    kind,      \* "activation" or "rollback"
    target,    \* the version it switches to
    rows,      \* the active rows its retire statement saw when it started
    retired    \* the rows it has retired, locked until it ends

table == <<status, manifest, event, passed>>
vars == <<status, manifest, event, passed, pc, kind, target, rows, retired>>

Init ==
    /\ status = [v \in Versions |-> "absent"]
    /\ manifest = [v \in Versions |-> None]
    /\ event = [v \in Versions |-> "absent"]
    /\ passed = {}
    /\ pc = [p \in Operators |-> "idle"]
    /\ kind = [p \in Operators |-> None]
    /\ target = [p \in Operators |-> None]
    /\ rows = [p \in Operators |-> {}]
    /\ retired = [p \in Operators |-> {}]

----------------------------------------------------------------------------
(* The steps up to shadow serving.                                         *)

\* register_candidate: an existing row is left as it is, and a row with
\* another manifest makes the call raise.
RegisterCandidate(m) ==
    /\ status[VersionOf(m)] = "absent"
    /\ status' = [status EXCEPT ![VersionOf(m)] = "candidate"]
    /\ manifest' = [manifest EXCEPT ![VersionOf(m)] = m]
    /\ UNCHANGED <<event, passed, pc, kind, target, rows, retired>>

\* Mutant: the event names the status before the UPDATE.
EventBeforeUpdate(m, expected, next) ==
    /\ manifest[VersionOf(m)] = m
    /\ status[VersionOf(m)] = expected
    /\ status' = [status EXCEPT ![VersionOf(m)] = next]
    /\ event' = [event EXCEPT ![VersionOf(m)] = expected]
    /\ UNCHANGED <<manifest, pc, kind, target, rows, retired>>

\* _transition: the caller's manifest must be the registered one (which never
\* changes), and the UPDATE finds the row only in the expected status.
Transition(m, expected, next) ==
    /\ manifest[VersionOf(m)] = m
    /\ status[VersionOf(m)] = expected
    /\ status' = [status EXCEPT ![VersionOf(m)] = next]
    /\ event' = [event EXCEPT ![VersionOf(m)] = next]
    /\ UNCHANGED <<manifest, pc, kind, target, rows, retired>>

MarkBuilding(m) == Transition(m, "candidate", "building") /\ UNCHANGED passed

MarkBuilt(m) == Transition(m, "building", "built") /\ UNCHANGED passed

RecordValidation(m) ==
    \/ /\ Transition(m, "built", "validated")
       /\ passed' = passed \cup {VersionOf(m)}
    \/ /\ Transition(m, "built", "failed")
       /\ UNCHANGED passed

PromoteToShadow(m) == Transition(m, "validated", "shadow") /\ UNCHANGED passed

----------------------------------------------------------------------------
(* The atomic switch.                                                      *)

\* The rows a transaction has updated and not yet committed: the active row
\* it retires, and its target once that is updated too.
Locked(p) == retired[p] \cup (IF pc[p] = "commit" THEN {target[p]} ELSE {})

FreeFor(p, v) == \A q \in Operators \ {p} : v \notin Locked(q)

Begin(p, k, v) ==
    /\ pc[p] = "idle"
    /\ pc' = [pc EXCEPT ![p] = "retire"]
    /\ kind' = [kind EXCEPT ![p] = k]
    /\ target' = [target EXCEPT ![p] = v]
    /\ UNCHANGED <<status, manifest, event, passed, rows, retired>>

\* promote_to_active and the SELECT of _atomic_switch.  The manifest is the
\* caller's: on this path it is never compared with the registered one.
PromoteToActive(p, m) ==
    /\ ForProduction(m)
    /\ status[VersionOf(m)] = "shadow"
    /\ Begin(p, "activation", VersionOf(m))

\* Mutant: any version that is not active may be rolled back to.
RollbackUnlessActive(p, m) ==
    /\ status[VersionOf(m)] \notin {"absent", "active"}
    /\ Begin(p, "rollback", VersionOf(m))

\* rollback and the SELECT of _atomic_switch.
Rollback(p, m) ==
    /\ status[VersionOf(m)] \in {"retired", "shadow"}
    /\ Begin(p, "rollback", VersionOf(m))

\* UPDATE ... SET status = 'retired' WHERE status = 'active': the statement
\* takes its snapshot ...
RetireScan(p) ==
    /\ pc[p] = "retire"
    /\ rows' = [rows EXCEPT ![p] = {v \in Versions : status[v] = "active"}]
    /\ pc' = [pc EXCEPT ![p] = "retiring"]
    /\ UNCHANGED <<status, manifest, event, passed, kind, target, retired>>

\* Mutant: the retire statement commits on its own.
RetireCommitted(p) ==
    /\ pc[p] = "retiring"
    /\ \A v \in rows[p] : FreeFor(p, v)
    /\ retired' = [retired EXCEPT ![p] = {v \in rows[p] : status[v] = "active"}]
    /\ status' = [v \in Versions |-> IF v \in rows[p] THEN "retired" ELSE status[v]]
    /\ pc' = [pc EXCEPT ![p] = "activate"]
    /\ UNCHANGED <<manifest, event, passed, kind, target, rows>>

\* ... waits for the transactions that hold those rows, and tests them again.
RetireRows(p) ==
    /\ pc[p] = "retiring"
    /\ \A v \in rows[p] : FreeFor(p, v)
    /\ retired' = [retired EXCEPT ![p] = {v \in rows[p] : status[v] = "active"}]
    /\ pc' = [pc EXCEPT ![p] = "activate"]
    /\ UNCHANGED <<status, manifest, event, passed, kind, target, rows>>

\* UPDATE ... SET status = 'active' WHERE the key matches: it waits for a
\* transaction that holds the row, and does not look at the row's status.
ActivateRow(p) ==
    /\ pc[p] = "activate"
    /\ FreeFor(p, target[p])
    /\ pc' = [pc EXCEPT ![p] = "commit"]
    /\ UNCHANGED <<status, manifest, event, passed, kind, target, rows, retired>>

\* Mutant: no unique index on the active version.
NoUniqueIndex(p) == {}

\* The other active rows the unique index finds for this transaction.
Rivals(p) ==
    {v \in Versions \ ({target[p]} \cup retired[p]) : status[v] = "active"}

EndOf(p) ==
    /\ pc' = [pc EXCEPT ![p] = "idle"]
    /\ kind' = [kind EXCEPT ![p] = None]
    /\ target' = [target EXCEPT ![p] = None]
    /\ rows' = [rows EXCEPT ![p] = {}]
    /\ retired' = [retired EXCEPT ![p] = {}]

\* No other active row: the event is inserted and the transaction commits.
Commit(p) ==
    /\ pc[p] = "commit"
    /\ Rivals(p) = {}
    /\ status' = [v \in Versions |-> IF v = target[p] THEN "active"
                                     ELSE IF v \in retired[p] THEN "retired"
                                     ELSE status[v]]
    /\ event' = [event EXCEPT ![target[p]] = "active"]
    /\ EndOf(p)
    /\ UNCHANGED <<manifest, passed>>

\* A committed rival: uq_audience_retrieval_active_index rejects the update
\* and the transaction rolls back.  (A rival that another transaction is
\* retiring makes this one wait for its end.)
UniqueViolation(p) ==
    /\ pc[p] = "commit"
    /\ \E v \in Rivals(p) : FreeFor(p, v)
    /\ EndOf(p)
    /\ UNCHANGED table

\* Mutant: nobody looks for deadlocks.
NoDeadlockDetection(p, q) == FALSE

\* p cannot go on before q ends.
WaitsFor(p, q) ==
    \/ pc[p] = "retiring" /\ rows[p] \cap Locked(q) # {}
    \/ pc[p] = "activate" /\ target[p] \in Locked(q)
    \/ pc[p] = "commit" /\ Rivals(p) \cap Locked(q) # {}

\* The server's deadlock detector ends one of two that wait for each other.
DeadlockVictim(p) ==
    /\ \E q \in Operators \ {p} : WaitsFor(p, q) /\ WaitsFor(q, p)
    /\ EndOf(p)
    /\ UNCHANGED table

\* A lost connection or a dying caller: the transaction rolls back.
Abort(p) ==
    /\ pc[p] # "idle"
    /\ EndOf(p)
    /\ UNCHANGED table

----------------------------------------------------------------------------

Lifecycle(m) ==
    \/ RegisterCandidate(m) \/ MarkBuilding(m) \/ MarkBuilt(m)
    \/ RecordValidation(m) \/ PromoteToShadow(m)

Statement(p) ==
    RetireScan(p) \/ RetireRows(p) \/ ActivateRow(p) \/ Commit(p) \/ UniqueViolation(p)

Next ==
    \/ \E m \in Manifests : Lifecycle(m)
    \/ \E p \in Operators :
         \/ \E m \in Manifests : PromoteToActive(p, m) \/ Rollback(p, m)
         \/ Statement(p)
         \/ DeadlockVictim(p)
         \/ Abort(p)

\* The server runs the statements of an open transaction, grants its locks in
\* the order they were asked for (hence strong fairness: a waiter is not
\* overtaken for ever) and looks for deadlocks.
Fairness ==
    \A p \in Operators :
        /\ SF_vars(Statement(p))
        /\ WF_vars(DeadlockVictim(p))

Spec == Init /\ [][Next]_vars

FairSpec == Spec /\ Fairness

----------------------------------------------------------------------------
(* Properties.                                                             *)

\* Types of the table and of the transactions.
TableTyped ==
    /\ status \in [Versions -> Status]
    /\ manifest \in [Versions -> Manifests \cup {None}]
    /\ event \in [Versions -> Status]
    /\ passed \subseteq Versions

SwitchTyped ==
    /\ pc \in [Operators -> {"idle", "retire", "retiring", "activate", "commit"}]
    /\ kind \in [Operators -> {"activation", "rollback", None}]
    /\ target \in [Operators -> Versions \cup {None}]
    /\ \A p \in Operators : pc[p] # "idle" => target[p] \in Versions
    /\ rows \in [Operators -> SUBSET Versions]
    /\ retired \in [Operators -> SUBSET Versions]

\* The type invariant of the table and of the running switches.
TypeOK == TableTyped /\ SwitchTyped

\* Whatever switches run together, the tenant never has two active versions:
\* a switch retires only what its statement's snapshot showed, the rest is
\* left to the partial unique index.
OneActive ==
    \A v, w \in Versions : status[v] = "active" /\ status[w] = "active" => v = w

\* Only a version whose validation passed is ever shadow served, activated or
\* kept for a rollback, although the UPDATE that activates it tests no status:
\* what a switch read earlier may be stale, but never that stale.
ServedWasValidated ==
    \A v \in Versions : status[v] \in Servable => v \in passed

\* A version stops being active only by being retired in the same commit that
\* makes another one active: no failure in a switch leaves the tenant without
\* the index it was served from.
ServingContinues ==
    [][\A v \in Versions :
          status[v] = "active" /\ status'[v] # "active" =>
             /\ status'[v] = "retired"
             /\ \E w \in Versions : status[w] # "active" /\ status'[w] = "active"]_vars

\* The newest event of a version announces its status, except that a switch
\* writes no event for the version it retires: a registered row with another
\* status than its trail is one that was active and is now retired.
TrailFollows ==
    \A v \in Versions :
        \/ event[v] = status[v]
        \/ event[v] = "absent" /\ status[v] = "candidate"
        \/ event[v] = "active" /\ status[v] = "retired"

\* Every switch that starts ends, also when two of them wait for each other.
SwitchEnds == \A p \in Operators : pc[p] # "idle" ~> pc[p] = "idle"

=============================================================================
