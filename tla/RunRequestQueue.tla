-------------------------- MODULE RunRequestQueue --------------------------
(***************************************************************************)
(* The Run Control ledger: the table account_run_requests, the part of     *)
(* ig_runs the ledger reads, and the SQL functions that are the only       *)
(* writers of the ledger.  Each function runs in one transaction, so each  *)
(* is one action; its callers (dashboard, dispatcher, runner) are left     *)
(* open here: any worker may call any function with any argument.          *)
(*                                                                         *)
(* Data abstraction.  A lease timestamp is NULL ("none"), in the future    *)
(* ("live") or in the past ("expired"); LeaseLapses is the passage of      *)
(* time.  A request is named by its idempotency key: a repeated create     *)
(* with the same key returns the existing row and is a stuttering step.    *)
(* created_at is a creation stamp, which is all ORDER BY looks at.         *)
(***************************************************************************)
EXTENDS Naturals, FiniteSets

CONSTANTS
    Accounts,        \* ig_accounts rows
    Requests,        \* requests that may ever be created
    Runs,            \* ig_runs ids that may ever be inserted
    Workers,         \* dispatcher worker ids
    AccountOf,       \* account of each request
    Priority,        \* priority column of each request
    LoginRequests,   \* requests of a login run type
    Outcomes,        \* terminal statuses callers give complete_...
    RunOutcomes,     \* terminal statuses callers PATCH into ig_runs
    AllowedFor,      \* requests whose run type a worker is configured to claim
    NoWorker, NoRun, \* SQL NULL in claimed_by and run_id
    NoAccount        \* account of a run that is not inserted yet

TerminalStatus == {"completed", "failed", "canceled", "blocked"}
RunTerminal == {"completed", "failed", "stopped", "blocked"}

ASSUME LedgerAssumption ==
    /\ AccountOf \in [Requests -> Accounts]
    /\ Priority \in [Requests -> Nat]
    /\ LoginRequests \subseteq Requests
    /\ AllowedFor \in [Workers -> SUBSET Requests]
    /\ Outcomes \subseteq TerminalStatus
    /\ RunOutcomes \subseteq RunTerminal
    /\ NoWorker \notin Workers
    /\ NoRun \notin Runs
    /\ NoAccount \notin Accounts

VARIABLES
    status,       \* status column; "absent" before the row exists
    claimedBy,    \* claimed_by
    lease,        \* lease_expires_at
    cancelAsked,  \* cancel_requested_at IS NOT NULL
    runOf,        \* run_id
    createdAt,    \* created_at as a stamp, 0 before the row exists
    clock,        \* stamps given out
    igStatus,     \* ig_runs.status; "absent" before the row exists
    igAccount     \* ig_runs.account_id

ledgerVars == <<status, claimedBy, lease, cancelAsked, runOf, createdAt, clock>>
runVars == <<igStatus, igAccount>>
queueVars == <<ledgerVars, runVars>>

InFlight == {"claimed", "starting", "running"}
ActiveStatus == {"queued"} \union InFlight

Active(r) == status[r] \in ActiveStatus

\* account_has_active_ig_run
HasActiveRun(a) == \E run \in Runs : igAccount[run] = a /\ igStatus[run] = "running"

-----------------------------------------------------------------------------
LedgerInit ==
    /\ status = [r \in Requests |-> "absent"]
    /\ claimedBy = [r \in Requests |-> NoWorker]
    /\ lease = [r \in Requests |-> "none"]
    /\ cancelAsked = [r \in Requests |-> FALSE]
    /\ runOf = [r \in Requests |-> NoRun]
    /\ createdAt = [r \in Requests |-> 0]
    /\ clock = 0
    /\ igStatus = [run \in Runs |-> "absent"]
    /\ igAccount = [run \in Runs |-> NoAccount]

-----------------------------------------------------------------------------
(***************************************************************************)
(* create_account_run_request.  Login run types skip the active-run check. *)
(* The exists() check and the partial unique index on the active statuses  *)
(* refuse a second active request of an account.                           *)
(***************************************************************************)
CreateIgnoringActive(r) ==
    /\ status[r] = "absent"
    /\ r \in LoginRequests \/ ~HasActiveRun(AccountOf[r])
    /\ status' = [status EXCEPT ![r] = "queued"]
    /\ clock' = clock + 1
    /\ createdAt' = [createdAt EXCEPT ![r] = clock + 1]
    /\ UNCHANGED <<claimedBy, lease, cancelAsked, runOf, runVars>>

Create(r) ==
    /\ status[r] = "absent"
    /\ r \in LoginRequests \/ ~HasActiveRun(AccountOf[r])
    /\ \A q \in Requests : Active(q) => AccountOf[q] # AccountOf[r]
    /\ status' = [status EXCEPT ![r] = "queued"]
    /\ clock' = clock + 1
    /\ createdAt' = [createdAt EXCEPT ![r] = clock + 1]
    /\ UNCHANGED <<claimedBy, lease, cancelAsked, runOf, runVars>>

(***************************************************************************)
(* reclaim_stale_account_run_requests: its two UPDATEs.                    *)
(***************************************************************************)
StaleClaimOnly(r) ==
    /\ status[r] = "claimed"
    /\ runOf[r] = NoRun
    /\ lease[r] = "expired"
    /\ ~cancelAsked[r]

StaleClaim(r) ==
    /\ status[r] \in {"claimed", "starting"}
    /\ runOf[r] = NoRun
    /\ lease[r] = "expired"
    /\ ~cancelAsked[r]

StaleRunning(r) ==
    /\ status[r] = "running"
    /\ runOf[r] = NoRun
    /\ lease[r] = "expired"
    /\ ~cancelAsked[r]

ReclaimedStatus ==
    [r \in Requests |-> IF StaleClaim(r) THEN "queued"
                        ELSE IF StaleRunning(r) THEN "failed" ELSE status[r]]
ReclaimedOwner ==
    [r \in Requests |-> IF StaleClaim(r) THEN NoWorker ELSE claimedBy[r]]
ReclaimedLease ==
    [r \in Requests |-> IF StaleClaim(r) \/ StaleRunning(r) THEN "none" ELSE lease[r]]

Reclaim ==
    /\ \E r \in Requests : StaleClaim(r) \/ StaleRunning(r)
    /\ status' = ReclaimedStatus
    /\ claimedBy' = ReclaimedOwner
    /\ lease' = ReclaimedLease
    /\ UNCHANGED <<cancelAsked, runOf, createdAt, clock, runVars>>

(***************************************************************************)
(* claim_next_account_run_request: reclaim, then take the first eligible   *)
(* queued row by priority desc, created_at asc.  Skipping rows that are    *)
(* locked by a concurrent transaction only reorders whole transactions.    *)
(***************************************************************************)
ClaimableDespiteRun(w, r) ==
    /\ ReclaimedStatus[r] = "queued"
    /\ ~cancelAsked[r]
    /\ r \in AllowedFor[w]

Claimable(w, r) ==
    /\ ReclaimedStatus[r] = "queued"
    /\ ~cancelAsked[r]
    /\ r \in AllowedFor[w]
    /\ ~HasActiveRun(AccountOf[r])

Precedes(q, r) ==
    \/ Priority[q] > Priority[r]
    \/ Priority[q] = Priority[r] /\ createdAt[q] < createdAt[r]

Claim(w, r) ==
    /\ Claimable(w, r)
    /\ \A q \in Requests : Claimable(w, q) => ~Precedes(q, r)
    /\ status' = [ReclaimedStatus EXCEPT ![r] = "claimed"]
    /\ claimedBy' = [ReclaimedOwner EXCEPT ![r] = w]
    /\ lease' = [ReclaimedLease EXCEPT ![r] = "live"]
    /\ UNCHANGED <<cancelAsked, runOf, createdAt, clock, runVars>>

(***************************************************************************)
(* mark_account_run_request_starting                                       *)
(***************************************************************************)
CanMarkStarting(w, r) ==
    /\ status[r] = "claimed"
    /\ claimedBy[r] = w
    /\ lease[r] # "expired"
    /\ ~cancelAsked[r]

MarkStarting(w, r) ==
    /\ CanMarkStarting(w, r)
    /\ status' = [status EXCEPT ![r] = "starting"]
    /\ lease' = [lease EXCEPT ![r] = "live"]
    /\ UNCHANGED <<claimedBy, cancelAsked, runOf, createdAt, clock, runVars>>

(***************************************************************************)
(* link_account_run_request_run: no lease and no cancel test.              *)
(***************************************************************************)
CanLink(w, r) == status[r] \in {"claimed", "starting"} /\ claimedBy[r] = w

Link(w, r, run) ==
    /\ CanLink(w, r)
    /\ status' = [status EXCEPT ![r] = "running"]
    /\ runOf' = [runOf EXCEPT ![r] = run]
    /\ lease' = [lease EXCEPT ![r] = "live"]
    /\ UNCHANGED <<claimedBy, cancelAsked, createdAt, clock, runVars>>

(***************************************************************************)
(* complete_account_run_request: owner and in-flight only, no lease test.  *)
(***************************************************************************)
CompleteAnyTime(w, r, s) ==
    /\ claimedBy[r] = w
    /\ status' = [status EXCEPT ![r] = s]
    /\ lease' = [lease EXCEPT ![r] = "none"]
    /\ UNCHANGED <<claimedBy, cancelAsked, runOf, createdAt, clock, runVars>>

CompleteKeepingLease(w, r, s) ==
    /\ status[r] \in InFlight
    /\ claimedBy[r] = w
    /\ status' = [status EXCEPT ![r] = s]
    /\ UNCHANGED <<claimedBy, lease, cancelAsked, runOf, createdAt, clock, runVars>>

CanComplete(w, r) == status[r] \in InFlight /\ claimedBy[r] = w

Complete(w, r, s) ==
    /\ CanComplete(w, r)
    /\ status' = [status EXCEPT ![r] = s]
    /\ lease' = [lease EXCEPT ![r] = "none"]
    /\ UNCHANGED <<claimedBy, cancelAsked, runOf, createdAt, clock, runVars>>

(***************************************************************************)
(* cancel_account_run_request: final before the run is linked, a flag for  *)
(* the cooperative stop afterwards.                                        *)
(***************************************************************************)
CancelByFlag(r) ==
    /\ Active(r)
    /\ cancelAsked' = [cancelAsked EXCEPT ![r] = TRUE]
    /\ UNCHANGED <<status, lease, claimedBy, runOf, createdAt, clock, runVars>>

CancelAsStopped(r) ==
    /\ Active(r)
    /\ cancelAsked' = [cancelAsked EXCEPT ![r] = TRUE]
    /\ IF status[r] = "running"
         THEN UNCHANGED <<status, lease>>
         ELSE /\ status' = [status EXCEPT ![r] = "stopped"]
              /\ lease' = [lease EXCEPT ![r] = "none"]
    /\ UNCHANGED <<claimedBy, runOf, createdAt, clock, runVars>>

Cancel(r) ==
    /\ Active(r)
    /\ cancelAsked' = [cancelAsked EXCEPT ![r] = TRUE]
    /\ IF status[r] = "running"
         THEN UNCHANGED <<status, lease>>
         ELSE /\ status' = [status EXCEPT ![r] = "canceled"]
              /\ lease' = [lease EXCEPT ![r] = "none"]
    /\ UNCHANGED <<claimedBy, runOf, createdAt, clock, runVars>>

(***************************************************************************)
(* renew_account_run_request_lease_v1: exact request, owner and run.       *)
(***************************************************************************)
CanRenew(w, r, run) ==
    /\ status[r] \in InFlight
    /\ claimedBy[r] = w
    /\ runOf[r] = run

Renew(w, r, run) ==
    /\ CanRenew(w, r, run)
    /\ lease' = [lease EXCEPT ![r] = "live"]
    /\ UNCHANGED <<status, claimedBy, cancelAsked, runOf, createdAt, clock, runVars>>

(***************************************************************************)
(* ig_runs: the insert of create_run and the PATCH of update_run, which    *)
(* looks at nothing but the id.                                            *)
(***************************************************************************)
InsertRun(run, a) ==
    /\ igStatus[run] = "absent"
    /\ igStatus' = [igStatus EXCEPT ![run] = "running"]
    /\ igAccount' = [igAccount EXCEPT ![run] = a]
    /\ UNCHANGED ledgerVars

PatchRun(run, s) ==
    /\ igStatus[run] # "absent"
    /\ igStatus' = [igStatus EXCEPT ![run] = s]
    /\ UNCHANGED <<ledgerVars, igAccount>>

\* Time passes the lease timestamp of r.
LeaseLapses(r) ==
    /\ lease[r] = "live"
    /\ lease' = [lease EXCEPT ![r] = "expired"]
    /\ UNCHANGED <<status, claimedBy, cancelAsked, runOf, createdAt, clock, runVars>>

-----------------------------------------------------------------------------
LedgerNext ==
    \/ \E r \in Requests : Create(r) \/ Cancel(r) \/ LeaseLapses(r)
    \/ Reclaim
    \/ \E w \in Workers, r \in Requests :
         \/ Claim(w, r)
         \/ MarkStarting(w, r)
         \/ \E s \in Outcomes : Complete(w, r, s)
         \/ \E run \in Runs : Link(w, r, run) \/ Renew(w, r, run)
    \/ \E run \in Runs, a \in Accounts : InsertRun(run, a)
    \/ \E run \in Runs, s \in RunOutcomes : PatchRun(run, s)

LedgerSpec == LedgerInit /\ [][LedgerNext]_queueVars

-----------------------------------------------------------------------------
LedgerTypeOK ==
    /\ status \in [Requests -> {"absent"} \union ActiveStatus \union TerminalStatus]
    /\ claimedBy \in [Requests -> Workers \union {NoWorker}]
    /\ lease \in [Requests -> {"none", "live", "expired"}]
    /\ cancelAsked \in [Requests -> BOOLEAN]
    /\ runOf \in [Requests -> Runs \union {NoRun}]
    /\ createdAt \in [Requests -> Nat]
    /\ clock \in Nat
    /\ igStatus \in [Runs -> {"absent", "running"} \union RunTerminal]
    /\ igAccount \in [Runs -> Accounts \union {NoAccount}]

\* An in-flight row has an owner and a lease time, every other row has no
\* lease, and a new or queued one no owner and no run; a run id appears with
\* running and not before.  Reclaim, link, complete and cancel each write only
\* some of these columns.  In particular the second UPDATE of
\* reclaim_stale_account_run_requests (running without a run) matches nothing.
ColumnsAgree ==
    \A r \in Requests :
        /\ status[r] \in InFlight <=> lease[r] # "none"
        /\ status[r] \in InFlight => claimedBy[r] # NoWorker
        /\ status[r] \in {"absent", "queued"} => claimedBy[r] = NoWorker /\ runOf[r] = NoRun
        /\ status[r] \in {"claimed", "starting"} => runOf[r] = NoRun
        /\ status[r] = "running" => runOf[r] # NoRun

\* At most one request of an account is queued, claimed, starting or running,
\* through reclaims and late completions too.
OneActivePerAccount ==
    \A q, r \in Requests :
        Active(q) /\ Active(r) /\ AccountOf[q] = AccountOf[r] => q = r

\* A request somebody asked to cancel is either final or already linked to its
\* run: it is never again waiting, claimable, or about to be launched.
CancelDecides ==
    \A r \in Requests : cancelAsked[r] => status[r] \in {"running"} \union TerminalStatus

\* The outcome of a request is written once: no late completion, cancel,
\* reclaim or link rewrites a terminal row, and no row changes its run.
FinalOutcomeStep ==
    \A r \in Requests :
        /\ status[r] \in TerminalStatus => status'[r] = status[r]
        /\ runOf[r] # NoRun => runOf'[r] = runOf[r]

FinalOutcome == [][FinalOutcomeStep]_queueVars

\* The ledger implements the abstract account slot: a request waits for, owns,
\* or runs in its account's only slot, is given back only before it is bound
\* to a run, and leaves the slot exactly when it settles.
PhaseOf(s) ==
    CASE s = "absent" -> "new"
      [] s = "queued" -> "waiting"
      [] s \in {"claimed", "starting"} -> "owned"
      [] s = "running" -> "bound"
      [] OTHER -> "settled"

Slot == INSTANCE AccountSlot WITH
    phase <- [r \in Requests |-> PhaseOf(status[r])],
    bound <- runOf

SlotPromise == Slot!Spec
=============================================================================
