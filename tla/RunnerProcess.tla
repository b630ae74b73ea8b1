--------------------------- MODULE RunnerProcess ---------------------------
(***************************************************************************)
(* The worker subprocess (runner.py), from its launch to its exit, as far  *)
(* as the Run Control protocol sees it.  A child is named by the ig_runs   *)
(* id it will insert, so child g writes row g and no other.                *)
(*                                                                         *)
(*   boot      before create_run                                           *)
(*   link      its ig_runs row is inserted, the request is not linked yet  *)
(*   unlinked  create_run or the link failed                               *)
(*   gate      linked: the cancel checks before the phone is touched       *)
(*   work      the session drives the phone                                *)
(*   cleanup   _return_with_cleanup closes the apps                        *)
(*   close     terminal status published, request not yet completed        *)
(*   exit0/1   exited with a zero or a non-zero code                       *)
(*                                                                         *)
(* A signal takes the child to exit1: before the handler is installed      *)
(* SIGTERM kills it at once, afterwards the handler drains and raises      *)
(* SystemExit, which main does not catch, and after the grace period the   *)
(* dispatcher kills it.  None of the three publishes a status.             *)
(***************************************************************************)
EXTENDS RunRequestQueue

CONSTANTS
    Me,               \* the worker id of the dispatcher and of its children
    BindingAccounts,  \* accounts for which Follow persistence needs a linked run
    LaunchMayFail,    \* may create_run, the link or the cancel check fail
    MaxFaults         \* bound on the injected failures of a behaviour

ASSUME RunnerAssumption ==
    /\ Me \in Workers
    /\ BindingAccounts \subseteq Accounts
    /\ LaunchMayFail \in BOOLEAN
    /\ MaxFaults \in Nat

VARIABLES
    cpc,      \* where child g is; "none" before it is launched
    creq,     \* the request it serves
    cres,     \* the run status it decided on
    csig,     \* it was sent SIGTERM
    faults    \* failures injected so far

childVars == <<cpc, creq, cres, csig>>

NoRequest == "no request"

Exited == {"exit0", "exit1"}
Live(g) == cpc[g] \notin {"none"} \union Exited
Driving(g) == cpc[g] \in {"work", "cleanup"}

\* is_account_run_request_cancel_requested
CancelRequested(r) == cancelAsked[r] \/ status[r] = "canceled"

\* complete_account_run_request returns no row when it does not apply.
TryComplete(w, r, s) ==
    IF CanComplete(w, r) THEN Complete(w, r, s) ELSE UNCHANGED queueVars

RequestStatusFor(runStatus) ==
    CASE runStatus = "completed" -> "completed"
      [] runStatus = "stopped" -> "canceled"
      [] runStatus = "blocked" -> "blocked"
      [] OTHER -> "failed"

Goto(g, pc) ==
    /\ cpc' = [cpc EXCEPT ![g] = pc]
    /\ UNCHANGED <<creq, csig>>

Fault == faults < MaxFaults /\ faults' = faults + 1

-----------------------------------------------------------------------------
ChildInit ==
    /\ cpc = [g \in Runs |-> "none"]
    /\ creq = [g \in Runs |-> NoRequest]
    /\ cres = [g \in Runs |-> "none"]
    /\ csig = [g \in Runs |-> FALSE]
    /\ faults = 0

\* Popen in _handle_claimed_request.
SpawnChild(g, r) ==
    /\ cpc[g] = "none"
    /\ cpc' = [cpc EXCEPT ![g] = "boot"]
    /\ creq' = [creq EXCEPT ![g] = r]
    /\ UNCHANGED <<cres, csig>>

\* _terminate_subprocess: SIGTERM.
HandlerInstalled(g) == cpc[g] \in {"work", "cleanup", "close"}

Terminate(g) ==
    /\ IF HandlerInstalled(g)
         THEN csig' = [csig EXCEPT ![g] = TRUE] /\ UNCHANGED cpc
         ELSE cpc' = [cpc EXCEPT ![g] = "exit1"] /\ UNCHANGED csig
    /\ UNCHANGED <<creq, cres>>

\* No eligible target, an unhealthy host, an invalid argument: exit before
\* create_run.
ChildBail(g) ==
    /\ cpc[g] = "boot"
    /\ \E code \in Exited : Goto(g, code)
    /\ UNCHANGED <<queueVars, cres, faults>>

ChildCreateRun(g) ==
    /\ cpc[g] = "boot"
    /\ InsertRun(g, AccountOf[creq[g]])
    /\ Goto(g, "link")
    /\ UNCHANGED <<cres, faults>>

\* create_run fails: _safe_supabase_call returns None.  An account whose Follow
\* persistence is enabled exits at once, any other goes on without a run.
ChildCreateRunFails(g) ==
    /\ LaunchMayFail
    /\ cpc[g] = "boot"
    /\ Goto(g, IF AccountOf[creq[g]] \in BindingAccounts THEN "exit1" ELSE "unlinked")
    /\ Fault
    /\ UNCHANGED <<queueVars, cres>>

\* The same for the link; the account that exits closes its run row first.
LinkMissed(g) ==
    IF AccountOf[creq[g]] \in BindingAccounts
      THEN PatchRun(g, "failed") /\ Goto(g, "exit1")
      ELSE UNCHANGED queueVars /\ Goto(g, "unlinked")

ChildLink(g) ==
    /\ cpc[g] = "link"
    /\ IF CanLink(Me, creq[g])
         THEN Link(Me, creq[g], g) /\ Goto(g, "gate")
         ELSE LinkMissed(g)
    /\ UNCHANGED <<cres, faults>>

ChildLinkFails(g) ==
    /\ LaunchMayFail
    /\ cpc[g] = "link"
    /\ LinkMissed(g)
    /\ Fault
    /\ UNCHANGED cres

(***************************************************************************)
(* _abort_if_run_request_canceled, called three times before the phone is  *)
(* touched.  Its "stopped" status is only remembered as pending: statuses  *)
(* are deferred until _return_with_cleanup, and this path returns without  *)
(* it, so the ig_runs row is left as it is.                                *)
(***************************************************************************)
ChildAborts(g) == TryComplete(Me, creq[g], "canceled") /\ Goto(g, "exit0")

\* Only the persistence binding of the Follow engine keeps an unlinked worker
\* off the phone.
ChildGoesOnUnlinked(g) ==
    /\ cpc[g] = "unlinked"
    /\ IF CancelRequested(creq[g])
         THEN ChildAborts(g)
         ELSE UNCHANGED queueVars /\ Goto(g, "work")
    /\ UNCHANGED <<cres, faults>>

\* A dispatched worker configures the Follow engine and binds its persistence
\* before the phone, whatever its account; without a run, or without its link,
\* this fails and main returns 96, the row left as it is.  The first of the
\* cancel checks comes before.
ChildUnlinked(g) ==
    /\ cpc[g] = "unlinked"
    /\ IF CancelRequested(creq[g])
         THEN ChildAborts(g)
         ELSE UNCHANGED queueVars /\ Goto(g, "exit1")
    /\ UNCHANGED <<cres, faults>>

ChildGate(g) ==
    /\ cpc[g] = "gate"
    /\ IF CancelRequested(creq[g])
         THEN ChildAborts(g)
         ELSE UNCHANGED queueVars /\ Goto(g, "work")
    /\ UNCHANGED <<cres, faults>>

\* A check that raises counts as no cancel.
ChildGateFails(g) ==
    /\ LaunchMayFail
    /\ cpc[g] = "gate"
    /\ Goto(g, "work")
    /\ Fault
    /\ UNCHANGED <<queueVars, cres>>

\* One of the fail-closed returns between the cancel checks and the phone.
ChildSetupFails(g) ==
    /\ cpc[g] = "gate"
    /\ Goto(g, "exit1")
    /\ UNCHANGED <<queueVars, cres, faults>>

ChildEndWork(g) ==
    /\ cpc[g] = "work"
    /\ \E s \in RunOutcomes : cres' = [cres EXCEPT ![g] = s]
    /\ Goto(g, "cleanup")
    /\ UNCHANGED <<queueVars, faults>>

ExitCode(g) == IF cres[g] = "completed" THEN "exit0" ELSE "exit1"

\* _return_with_cleanup: close the apps, then PATCH the pending status.
ChildPublish(g) ==
    /\ cpc[g] = "cleanup"
    /\ PatchRun(g, cres[g])
    /\ Goto(g, "close")
    /\ UNCHANGED <<cres, faults>>

\* The PATCH is not persisted: the request is not touched either.
ChildPublishFails(g) ==
    /\ cpc[g] = "cleanup"
    /\ Goto(g, ExitCode(g))
    /\ Fault
    /\ UNCHANGED <<queueVars, cres>>

\* _terminalize_run_request_after_cleanup, then exit.
ChildClose(g) ==
    /\ cpc[g] = "close"
    /\ TryComplete(Me, creq[g], RequestStatusFor(cres[g]))
    /\ Goto(g, ExitCode(g))
    /\ UNCHANGED <<cres, faults>>

ChildCloseFails(g) ==
    /\ cpc[g] = "close"
    /\ Goto(g, ExitCode(g))
    /\ Fault
    /\ UNCHANGED <<queueVars, cres>>

ChildStopped(g) ==
    /\ Live(g)
    /\ csig[g]
    /\ Goto(g, "exit1")
    /\ UNCHANGED <<queueVars, cres, faults>>

\* An uncaught exception or a kill from outside.
ChildDies(g) ==
    /\ Live(g)
    /\ Goto(g, "exit1")
    /\ Fault
    /\ UNCHANGED <<queueVars, cres>>

\* Everything a child does by itself; only the length of its work is unbounded.
ChildProceeds(g) ==
    \/ ChildBail(g)
    \/ ChildCreateRun(g)
    \/ ChildLink(g)
    \/ ChildUnlinked(g)
    \/ ChildGate(g)
    \/ ChildSetupFails(g)
    \/ ChildPublish(g)
    \/ ChildClose(g)
    \/ ChildStopped(g)

ChildFails(g) ==
    \/ ChildCreateRunFails(g)
    \/ ChildLinkFails(g)
    \/ ChildGateFails(g)
    \/ ChildPublishFails(g)
    \/ ChildCloseFails(g)
    \/ ChildDies(g)

ChildStep(g) == ChildProceeds(g) \/ ChildEndWork(g) \/ ChildFails(g)
=============================================================================
