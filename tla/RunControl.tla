----------------------------- MODULE RunControl -----------------------------
(***************************************************************************)
(* The Run Control plane at work: one dispatcher process with its startup  *)
(* sequence, its polling loop and its pool of dispatch tasks, the workers  *)
(* it launches (RunnerProcess), the ledger they share (RunRequestQueue)    *)
(* and the phones' locks (DeviceLease), under cancels from the dashboard,  *)
(* leases that run out, failed calls, dying workers and dispatcher         *)
(* crashes.                                                                *)
(*                                                                         *)
(* A dispatch task is one call of _handle_claimed_request on the executor: *)
(*   gates     before mark_account_run_request_starting                    *)
(*   starting  assignment, policy and device checks, then the phone's lock *)
(*   launch    the lock is dealt with, Popen comes next                    *)
(*   wait      _wait_for_subprocess polls child and request                *)
(*   stopping  SIGTERM was sent, waiting for the exit                      *)
(*   release   the child exited, the lock is still held                    *)
(*   finalize  _finalize_manual_run_after_subprocess                       *)
(*   reconcile the request is completed, the linked run comes next         *)
(***************************************************************************)
EXTENDS RunnerProcess

CONSTANTS
    Phones,
    PhoneOf,            \* the assigned phone of each account
    AutoRequests,       \* requests issued by Auto Restart
    BoundRequests,      \* requests whose issuer binds the phone's lock first
    Slots,              \* the executor's workers, max_concurrent_subprocesses
    AllowExistingQueue, \* RUN_CONTROL_DISPATCHER_ALLOW_EXISTING_QUEUE
    ChildrenSurvive,    \* workers outlive a crashed dispatcher
    TaskCallsMayFail,   \* may a remote call of a task raise
    SlowBoot,           \* a boot may outlast the lease of its claim and the watchdog
    MaxRestarts         \* bound on dispatcher crashes and stops

ASSUME ControlAssumption ==
    /\ PhoneOf \in [Accounts -> Phones]
    /\ AutoRequests \subseteq BoundRequests
    /\ BoundRequests \subseteq Requests
    /\ NoRequest \notin Requests
    /\ AllowExistingQueue \in BOOLEAN
    /\ ChildrenSurvive \in BOOLEAN
    /\ TaskCallsMayFail \in BOOLEAN
    /\ SlowBoot \in BOOLEAN
    /\ MaxRestarts \in Nat

VARIABLES
    holder,    \* the request each phone's lock is bound to
    tpc,       \* where the task of each slot is; "free" without one
    treq,      \* its request
    tchild,    \* its child, NoRun before the launch
    tout,      \* "late" after a watchdog stop, the outcome from finalize on
    trun,      \* the linked run it read in finalize
    mpc,       \* the dispatcher's main thread
    mreq,      \* the request an orphan reconciliation is about to complete
    restarts

taskVars == <<tpc, treq, tchild, tout, trun>>
mainVars == <<mpc, mreq, restarts>>
vars == <<queueVars, childVars, faults, holder, taskVars, mainVars>>

Lock == INSTANCE DeviceLease WITH Holders <- Requests, NoHolder <- NoRequest

PhoneFor(r) == PhoneOf[AccountOf[r]]
Busy(s) == tpc[s] # "free"
Serves(s, r) == Busy(s) /\ treq[s] = r

\* The child of the task is in its session: the one phase that may last long
\* when SlowBoot does not hold.
InSession(s) ==
    /\ tpc[s] \in {"wait", "stopping"}
    /\ cpc[tchild[s]] \in {"gate", "work", "cleanup", "close"}

-----------------------------------------------------------------------------
Init ==
    /\ LedgerInit
    /\ ChildInit
    /\ Lock!LeaseInit
    /\ tpc = [s \in Slots |-> "free"]
    /\ treq = [s \in Slots |-> NoRequest]
    /\ tchild = [s \in Slots |-> NoRun]
    /\ tout = [s \in Slots |-> "none"]
    /\ trun = [s \in Slots |-> NoRun]
    /\ mpc = "down"
    /\ mreq = NoRequest
    /\ restarts = 0

-----------------------------------------------------------------------------
(* The dashboard, the scheduler and Auto Restart.                          *)

\* The issuers that bind the phone's lock do it together with the creation
\* and cancel the request when the phone is taken.
Submit(r) ==
    /\ Create(r)
    /\ IF r \in BoundRequests
         THEN Lock!CanAcquire(PhoneFor(r)) /\ Lock!GrantTo(PhoneFor(r), r)
         ELSE UNCHANGED holder
    /\ UNCHANGED <<childVars, faults, taskVars, mainVars>>

CancelRequest(r) ==
    /\ Cancel(r)
    /\ UNCHANGED <<childVars, faults, holder, taskVars, mainVars>>

-----------------------------------------------------------------------------
(* Dispatch tasks.                                                         *)

TaskGoto(s, pc) ==
    /\ tpc' = [tpc EXCEPT ![s] = pc]
    /\ UNCHANGED <<treq, tchild, tout, trun>>

TaskEnds(s) ==
    /\ tpc' = [tpc EXCEPT ![s] = "free"]
    /\ treq' = [treq EXCEPT ![s] = NoRequest]
    /\ tchild' = [tchild EXCEPT ![s] = NoRun]
    /\ tout' = [tout EXCEPT ![s] = "none"]
    /\ trun' = [trun EXCEPT ![s] = NoRun]

\* Launch not allowed, package contract, assignment, protection lists,
\* commercial policy: blocked, and the lock is left alone.
TaskRefuses(s) ==
    /\ tpc[s] \in {"gates", "starting"}
    /\ TryComplete(Me, treq[s], "blocked")
    /\ TaskEnds(s)
    /\ UNCHANGED <<childVars, faults, holder, mainVars>>

\* mark_account_run_request_starting; a canceled or lapsed claim ends the task.
TaskMarks(s) ==
    /\ tpc[s] = "gates"
    /\ IF CanMarkStarting(Me, treq[s])
         THEN MarkStarting(Me, treq[s]) /\ TaskGoto(s, "starting")
         ELSE UNCHANGED queueVars /\ TaskEnds(s)
    /\ UNCHANGED <<childVars, faults, holder, mainVars>>

\* validate_auto_restart_request_at_claim refuses: blocked and released.
TaskRefusesResume(s) ==
    /\ tpc[s] = "starting"
    /\ treq[s] \in AutoRequests
    /\ TryComplete(Me, treq[s], "blocked")
    /\ Lock!Release(PhoneFor(treq[s]), treq[s])
    /\ TaskEnds(s)
    /\ UNCHANGED <<childVars, faults, mainVars>>

\* Auto Restart: transfer and renew, whose answers are not looked at.
TaskTakesResumeLock(s) ==
    /\ tpc[s] = "starting"
    /\ treq[s] \in AutoRequests
    /\ TaskGoto(s, "launch")
    /\ UNCHANGED <<queueVars, childVars, faults, holder, mainVars>>

TaskTakesAnyLock(s) ==
    /\ tpc[s] = "starting"
    /\ treq[s] \notin AutoRequests
    /\ Lock!GrantTo(PhoneFor(treq[s]), treq[s])
    /\ TaskGoto(s, "launch")
    /\ UNCHANGED <<queueVars, childVars, faults, mainVars>>

\* Everyone else: transfer the bound lock, or acquire a free one, or block.
TaskTakesLock(s) ==
    LET r == treq[s]
        d == PhoneFor(r)
    IN /\ tpc[s] = "starting"
       /\ r \notin AutoRequests
       /\ IF Lock!CanTransfer(d, r) \/ Lock!CanAcquire(d)
            THEN /\ Lock!GrantTo(d, r)
                 /\ TaskGoto(s, "launch")
                 /\ UNCHANGED queueVars
            ELSE /\ TryComplete(Me, r, "blocked")
                 /\ TaskEnds(s)
                 /\ UNCHANGED holder
       /\ UNCHANGED <<childVars, faults, mainVars>>

TaskLaunches(s, g) ==
    /\ tpc[s] = "launch"
    /\ SpawnChild(g, treq[s])
    /\ tpc' = [tpc EXCEPT ![s] = "wait"]
    /\ tchild' = [tchild EXCEPT ![s] = g]
    /\ UNCHANGED <<queueVars, faults, holder, treq, tout, trun, mainVars>>

TaskSeesExit(s) ==
    /\ tpc[s] \in {"wait", "stopping"}
    /\ cpc[tchild[s]] \in Exited
    /\ TaskGoto(s, "release")
    /\ UNCHANGED <<queueVars, childVars, faults, holder, mainVars>>

\* The polling loop sees the cancel, or its watchdog deadline, and signals.
SignalChild(s) == Terminate(tchild[s])

TaskSeesCancelWithoutSignal(s) ==
    /\ tpc[s] = "wait"
    /\ cpc[tchild[s]] \notin Exited
    /\ CancelRequested(treq[s])
    /\ TaskGoto(s, "stopping")
    /\ UNCHANGED <<queueVars, childVars, faults, holder, mainVars>>

TaskSeesCancel(s) ==
    /\ tpc[s] = "wait"
    /\ cpc[tchild[s]] \notin Exited
    /\ CancelRequested(treq[s])
    /\ SignalChild(s)
    /\ TaskGoto(s, "stopping")
    /\ UNCHANGED <<queueVars, faults, holder, mainVars>>

TaskTimesOutWithoutSignal(s) ==
    /\ tpc[s] = "wait"
    /\ cpc[tchild[s]] \notin Exited
    /\ tpc' = [tpc EXCEPT ![s] = "stopping"]
    /\ tout' = [tout EXCEPT ![s] = "late"]
    /\ UNCHANGED <<queueVars, childVars, faults, holder, treq, tchild, trun, mainVars>>

TaskTimesOut(s) ==
    /\ tpc[s] = "wait"
    /\ cpc[tchild[s]] \notin Exited
    /\ SlowBoot \/ InSession(s)
    /\ SignalChild(s)
    /\ tpc' = [tpc EXCEPT ![s] = "stopping"]
    /\ tout' = [tout EXCEPT ![s] = "late"]
    /\ UNCHANGED <<queueVars, faults, holder, treq, tchild, trun, mainVars>>

TaskReleases(s) ==
    /\ tpc[s] = "release"
    /\ Lock!Release(PhoneFor(treq[s]), treq[s])
    /\ TaskGoto(s, "finalize")
    /\ UNCHANGED <<queueVars, childVars, faults, mainVars>>

(***************************************************************************)
(* _finalize_manual_run_after_subprocess for an account session without a  *)
(* business deadline.  A watchdog stop fails, a cancel is authoritative    *)
(* whatever the exit code, a zero exit completes only with a satisfied     *)
(* phase contract in the run the child published, all else fails.          *)
(***************************************************************************)
ContractMayHold(run) == run # NoRun /\ igStatus[run] = "completed"

VerdictsByExitCode(s) ==
    IF tout[s] = "late" THEN {"failed"}
    ELSE IF CancelRequested(treq[s]) THEN {"canceled"}
    ELSE IF cpc[tchild[s]] = "exit0" THEN {"completed"}
    ELSE {"failed"}

Verdicts(s) ==
    IF tout[s] = "late" THEN {"failed"}
    ELSE IF CancelRequested(treq[s]) THEN {"canceled"}
    ELSE IF cpc[tchild[s]] = "exit0" /\ ContractMayHold(runOf[treq[s]])
      THEN {"completed", "failed"}
    ELSE {"failed"}

TaskFinalizes(s) ==
    /\ tpc[s] = "finalize"
    /\ \E v \in Verdicts(s) :
         /\ TryComplete(Me, treq[s], v)
         /\ tout' = [tout EXCEPT ![s] = v]
    /\ tpc' = [tpc EXCEPT ![s] = "reconcile"]
    /\ trun' = [trun EXCEPT ![s] = runOf[treq[s]]]
    /\ UNCHANGED <<childVars, faults, holder, treq, tchild, mainVars>>

\* _reconcile_linked_run: an active run takes the outcome, a terminal one is
\* left alone, a request without a run has nothing to reconcile.
RunStatusAsIs(requestStatus) == requestStatus

RunStatusFor(requestStatus) ==
    IF requestStatus = "canceled" THEN "stopped" ELSE requestStatus

TaskReconcilesAlways(s) ==
    /\ tpc[s] = "reconcile"
    /\ IF trun[s] # NoRun
         THEN PatchRun(trun[s], RunStatusFor(tout[s]))
         ELSE UNCHANGED queueVars
    /\ TaskEnds(s)
    /\ UNCHANGED <<childVars, faults, holder, mainVars>>

TaskReconcilesFailures(s) ==
    /\ tpc[s] = "reconcile"
    /\ IF trun[s] # NoRun /\ igStatus[trun[s]] = "running" /\ tout[s] = "failed"
         THEN PatchRun(trun[s], RunStatusFor(tout[s]))
         ELSE UNCHANGED queueVars
    /\ TaskEnds(s)
    /\ UNCHANGED <<childVars, faults, holder, mainVars>>

TaskReconciles(s) ==
    /\ tpc[s] = "reconcile"
    /\ IF trun[s] # NoRun /\ igStatus[trun[s]] = "running"
         THEN PatchRun(trun[s], RunStatusFor(tout[s]))
         ELSE UNCHANGED queueVars
    /\ TaskEnds(s)
    /\ UNCHANGED <<childVars, faults, holder, mainVars>>

\* A remote call outside the waiting loop raises, or the answer to the claim
\* is lost: the Future ends with the exception and nothing else is done.
TaskIsLost(s) ==
    /\ TaskCallsMayFail
    /\ tpc[s] \notin {"free", "wait", "stopping"}
    /\ Fault
    /\ TaskEnds(s)
    /\ UNCHANGED <<queueVars, childVars, holder, mainVars>>

TaskProceeds(s) ==
    \/ TaskMarks(s)
    \/ TaskTakesResumeLock(s)
    \/ TaskTakesLock(s)
    \/ \E g \in Runs : TaskLaunches(s, g)
    \/ TaskSeesExit(s)
    \/ TaskSeesCancel(s)
    \/ TaskReleases(s)
    \/ TaskFinalizes(s)
    \/ TaskReconciles(s)

TaskStep(s) ==
    \/ TaskProceeds(s)
    \/ TaskRefuses(s)
    \/ TaskRefusesResume(s)
    \/ TaskTimesOut(s)
    \/ TaskIsLost(s)

-----------------------------------------------------------------------------
(* The dispatcher's main thread: run_forever.                              *)

MainGoto(pc) == mpc' = pc /\ UNCHANGED <<mreq, restarts>>

\* launchd keeps the dispatcher alive.
MainStarts ==
    /\ mpc = "down"
    /\ MainGoto("orphans")
    /\ UNCHANGED <<queueVars, childVars, faults, holder, taskVars>>

(***************************************************************************)
(* reconcile_orphaned_active_runs.  "Stale" adds to the lapsed lease two   *)
(* hours and more without progress or heartbeat of the run, which no live  *)
(* worker lets happen.  The run is terminalized first, then the request.   *)
(***************************************************************************)
IsOrphan(r) ==
    /\ status[r] = "running"
    /\ runOf[r] # NoRun
    /\ igStatus[runOf[r]] = "running"
    /\ lease[r] = "expired"
    /\ ~Live(runOf[r])
    /\ ~Lock!CanTransfer(PhoneFor(r), r)

MainFindsOrphan(r) ==
    /\ mpc = "orphans"
    /\ IsOrphan(r)
    /\ PatchRun(runOf[r], IF cancelAsked[r] THEN "stopped" ELSE "failed")
    /\ mpc' = "orphan"
    /\ mreq' = r
    /\ UNCHANGED <<childVars, faults, holder, taskVars, restarts>>

MainClosesOrphan ==
    /\ mpc = "orphan"
    /\ TryComplete(Me, mreq, IF cancelAsked[mreq] THEN "canceled" ELSE "failed")
    /\ mpc' = "orphans"
    /\ mreq' = NoRequest
    /\ UNCHANGED <<childVars, faults, holder, taskVars, restarts>>

\* A candidate that is not stale yet is protected.
MainEndsOrphans ==
    /\ mpc = "orphans"
    /\ MainGoto("terminals")
    /\ UNCHANGED <<queueVars, childVars, faults, holder, taskVars>>

\* reconcile_requests_with_terminal_runs, at startup and in every iteration.
HasTerminalRun(r) ==
    Active(r) /\ runOf[r] # NoRun /\ igStatus[runOf[r]] \in RunTerminal

MainSweepsTerminal(r) ==
    /\ mpc \in {"terminals", "loop"}
    /\ HasTerminalRun(r)
    /\ TryComplete(Me, r, RequestStatusFor(igStatus[runOf[r]]))
    /\ UNCHANGED <<childVars, faults, holder, taskVars, mainVars>>

MainEndsTerminals ==
    /\ mpc = "terminals"
    /\ \A r \in Requests : ~HasTerminalRun(r)
    /\ MainGoto("preflight")
    /\ UNCHANGED <<queueVars, childVars, faults, holder, taskVars>>

\* evaluate_launch_mode_startup_preflight; a refusal is exit code 3.
StartsAnyway ==
    /\ mpc = "preflight"
    /\ MainGoto("loop")
    /\ UNCHANGED <<queueVars, childVars, faults, holder, taskVars>>

MainPreflight ==
    /\ mpc = "preflight"
    /\ MainGoto(IF AllowExistingQueue \/ (\A r \in Requests : ~Active(r))
                  THEN "loop" ELSE "down")
    /\ UNCHANGED <<queueVars, childVars, faults, holder, taskVars>>

\* _claim_next_dispatch_request and _submit_dispatch_task_if_capacity.
MainReclaims ==
    /\ mpc = "loop"
    /\ Reclaim
    /\ UNCHANGED <<childVars, faults, holder, taskVars, mainVars>>

MainClaims(s, r) ==
    /\ mpc = "loop"
    /\ ~Busy(s)
    /\ Claim(Me, r)
    /\ tpc' = [tpc EXCEPT ![s] = "gates"]
    /\ treq' = [treq EXCEPT ![s] = r]
    /\ UNCHANGED <<childVars, faults, holder, tchild, tout, trun, mainVars>>

\* SIGTERM to the dispatcher: no more claims, the executor drains.
MainStops ==
    /\ mpc = "loop"
    /\ restarts < MaxRestarts
    /\ mpc' = "drain"
    /\ restarts' = restarts + 1
    /\ UNCHANGED <<queueVars, childVars, faults, holder, taskVars, mreq>>

MainDrained ==
    /\ mpc = "drain"
    /\ \A s \in Slots : ~Busy(s)
    /\ MainGoto("down")
    /\ UNCHANGED <<queueVars, childVars, faults, holder, taskVars>>

\* The process dies: its tasks are gone, its children are or are not.
MainCrashes ==
    /\ mpc # "down"
    /\ restarts < MaxRestarts
    /\ mpc' = "down"
    /\ mreq' = NoRequest
    /\ restarts' = restarts + 1
    /\ tpc' = [s \in Slots |-> "free"]
    /\ treq' = [s \in Slots |-> NoRequest]
    /\ tchild' = [s \in Slots |-> NoRun]
    /\ tout' = [s \in Slots |-> "none"]
    /\ trun' = [s \in Slots |-> NoRun]
    /\ cpc' = [g \in Runs |-> IF Live(g) /\ ~ChildrenSurvive THEN "exit1" ELSE cpc[g]]
    /\ UNCHANGED <<queueVars, creq, cres, csig, faults, holder>>

MainProceeds ==
    \/ MainStarts
    \/ MainClosesOrphan
    \/ MainEndsOrphans
    \/ \E r \in Requests : MainSweepsTerminal(r)
    \/ MainEndsTerminals
    \/ MainPreflight
    \/ MainDrained

-----------------------------------------------------------------------------
(* Time.                                                                   *)

\* A waiting task renews the lease of a linked request; an unlinked one is
\* not renewed at all, and unless SlowBoot the launch beats it.
RequestLeaseLapses(r) ==
    /\ LeaseLapses(r)
    /\ runOf[r] # NoRun => \A s \in Slots : ~Serves(s, r)
    /\ SlowBoot \/ (\A s \in Slots : Serves(s, r) => InSession(s))
    /\ UNCHANGED <<childVars, faults, holder, taskVars, mainVars>>

\* A waiting task renews the phone's lock; nobody renews the lock of a request
\* that is still queued.
PhoneLockLapses(d) ==
    /\ Lock!Lapse(d)
    /\ \A s \in Slots : ~Serves(s, holder[d])
    /\ UNCHANGED <<queueVars, childVars, faults, taskVars, mainVars>>

-----------------------------------------------------------------------------
DispatcherNext ==
    \/ \E s \in Slots : TaskStep(s)
    \/ \E s \in Slots, r \in Requests : MainClaims(s, r)
    \/ MainProceeds
    \/ \E r \in Requests : MainFindsOrphan(r)
    \/ MainReclaims
    \/ MainStops
    \/ MainCrashes

ChildrenNext ==
    /\ \E g \in Runs : ChildStep(g)
    /\ UNCHANGED <<holder, taskVars, mainVars>>

EnvironmentNext ==
    \/ \E r \in Requests : Submit(r) \/ CancelRequest(r) \/ RequestLeaseLapses(r)
    \/ \E d \in Phones : PhoneLockLapses(d)

Next == DispatcherNext \/ ChildrenNext \/ EnvironmentNext

Spec == Init /\ [][Next]_vars

(***************************************************************************)
(* Fairness.  Every thread and process is scheduled; lapsed time really    *)
(* lapses; the watchdog deadline comes.  Nothing is assumed of sessions    *)
(* (a child may work for ever), of the dashboard, or of failures.  Strong  *)
(* fairness for orphans only: the restarts of a refused dispatcher look at *)
(* them again and again until they are stale.                              *)
(***************************************************************************)
Fairness ==
    /\ WF_vars(MainProceeds)
    /\ WF_vars(MainReclaims)
    /\ WF_vars(\E s \in Slots, r \in Requests : MainClaims(s, r))
    /\ \A r \in Requests :
         /\ WF_vars(RequestLeaseLapses(r))
         /\ SF_vars(MainFindsOrphan(r))
    /\ \A d \in Phones : WF_vars(PhoneLockLapses(d))
    /\ \A s \in Slots : WF_vars(TaskProceeds(s)) /\ WF_vars(TaskTimesOut(s))
    /\ \A g \in Runs : WF_vars(ChildProceeds(g) /\ UNCHANGED <<holder, taskVars, mainVars>>)

FairSpec == Spec /\ Fairness

-----------------------------------------------------------------------------
RunControlTypeOK ==
    /\ LedgerTypeOK
    /\ cpc \in [Runs -> {"none", "boot", "link", "unlinked", "gate", "work",
                        "cleanup", "close"} \union Exited]
    /\ creq \in [Runs -> Requests \union {NoRequest}]
    /\ cres \in [Runs -> RunTerminal \union {"none"}]
    /\ csig \in [Runs -> BOOLEAN]
    /\ faults \in 0 .. MaxFaults
    /\ holder \in [Phones -> Requests \union {NoRequest}]
    /\ tpc \in [Slots -> {"free", "gates", "starting", "launch", "wait", "stopping",
                         "release", "finalize", "reconcile"}]
    /\ treq \in [Slots -> Requests \union {NoRequest}]
    /\ tchild \in [Slots -> Runs \union {NoRun}]
    /\ tout \in [Slots -> TerminalStatus \union {"none", "late"}]
    /\ trun \in [Slots -> Runs \union {NoRun}]
    /\ mpc \in {"down", "orphans", "orphan", "terminals", "preflight", "loop", "drain"}
    /\ mreq \in Requests \union {NoRequest}
    /\ restarts \in 0 .. MaxRestarts

\* One phone owns one UI session: two workers never drive the same phone,
\* whichever accounts, tasks and dispatcher incarnations they belong to.
OneDriverPerPhone ==
    \A g, h \in Runs :
        Driving(g) /\ Driving(h) /\ PhoneFor(creq[g]) = PhoneFor(creq[h]) => g = h

\* A worker that drives a phone is the one its request is linked to, and the
\* ledger says so: the request is running and so is its run.  Cancels,
\* watchdogs, reclaims, sweeps and orphan recovery all write these rows.
DriverBacked ==
    \A g \in Runs :
        Driving(g) => /\ status[creq[g]] = "running"
                      /\ runOf[creq[g]] = g
                      /\ igStatus[g] = "running"

\* An account has at most one active run row, whoever inserted it.
OneRunPerAccount ==
    \A g, h \in Runs :
        /\ igStatus[g] = "running"
        /\ igStatus[h] = "running"
        /\ igAccount[g] = igAccount[h]
        => g = h

\* An account has at most one active run row that a request is linked to.
\* The guards are apart: creation looks at the requests, the claim at the run
\* rows, and the link at neither.
OneLinkedRunPerAccount ==
    \A q, r \in Requests :
        /\ runOf[q] # NoRun
        /\ runOf[r] # NoRun
        /\ igStatus[runOf[q]] = "running"
        /\ igStatus[runOf[r]] = "running"
        /\ AccountOf[q] = AccountOf[r]
        => q = r

\* A request counted as completed has a run that completed: runner,
\* finalization, sweep and orphan recovery decide this independently.
CompletedMeansCompleted ==
    \A r \in Requests :
        status[r] = "completed" /\ runOf[r] # NoRun => igStatus[runOf[r]] = "completed"

\* The outcome of a run is published once, although the PATCH of ig_runs
\* looks at nothing and four different writers issue it.
PublishedOnce ==
    [][\A g \in Runs : igStatus[g] \in RunTerminal => igStatus'[g] = igStatus[g]]_vars

\* Where a worker is by the phone, and the outcomes as the abstract session
\* tells them.
PlaceOf(pc) ==
    IF pc \in {"none", "boot", "link", "unlinked", "gate"} THEN "before"
    ELSE IF pc \in {"work", "cleanup"} THEN "on" ELSE "over"

OutcomeOf(st) == IF st \in TerminalStatus \union RunTerminal THEN st ELSE "open"

Session == INSTANCE PhoneSession WITH
    Outcomes <- TerminalStatus \union RunTerminal,
    Phone <- [r \in Requests |-> PhoneFor(r)],
    place <- [g \in Runs |-> PlaceOf(cpc[g])],
    serves <- creq,
    result <- [g \in Runs |-> OutcomeOf(igStatus[g])],
    answer <- [r \in Requests |-> OutcomeOf(status[r])]

\* The plane implements the phone session: runs take the phone in turn, each
\* for an open request, a run or a request is closed once and off the phone,
\* and a completed request had a run that drove the phone to its end.
PhonePromise == Session!Spec

\* An active run row always has somebody who will still close it: a live
\* worker, the task that waits for it, or an active request linked to it.
ActiveRunHasCloser ==
    \A g \in Runs :
        igStatus[g] = "running" =>
            \/ Live(g)
            \/ \E s \in Slots : Busy(s) /\ tchild[s] = g
            \/ \E r \in Requests : Active(r) /\ runOf[r] = g

\* Every request that was accepted is eventually settled, whatever its worker
\* does: it may hang, die before or after linking, or be canceled on the way.
EveryRequestSettles ==
    \A r \in Requests : Active(r) ~> status[r] \in TerminalStatus

\* A cancel of a running session takes its worker off the phone.
CancelStopsDriving ==
    \A g \in Runs : Driving(g) /\ CancelRequested(creq[g]) ~> ~Driving(g)

\* A run that was linked to its request does not stay active.
LinkedRunCloses ==
    \A r \in Requests, g \in Runs :
        runOf[r] = g /\ igStatus[g] = "running" ~> igStatus[g] \in RunTerminal

\* A claim whose dispatcher died before the run was linked does not keep its
\* request: it is queued again, linked after all, or settled.
StaleClaimReclaimed ==
    \A r \in Requests :
        /\ status[r] \in {"claimed", "starting"}
        /\ \A s \in Slots : ~Serves(s, r)
        ~> status[r] \in {"queued", "running"} \union TerminalStatus
=============================================================================
