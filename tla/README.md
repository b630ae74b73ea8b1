# Instagram worker: TLA+ models and proofs

Three parts of the worker are modelled here, each where it decides something that
no later step can put right:

* **Run Control**: who may drive which phone for which account, and what its run
  is recorded as. The ledger in Postgres, the dispatcher that claims from it, the
  worker processes it launches, and the phones' UI leases.
* **Mutations**: whether a follow or an unfollow that happened on the phone is
  counted, once, whatever crashes between the tap and the database. The durable
  intents, the recovery of the next session, the receipt replay, the outbox of
  post-follow stages, the drain of a stop signal, the day's unfollow quota.
* **Deferred projections**: whether the secondary writes a worker postpones reach
  the database. The in-memory queue, its two spools, the SQLite outbox, the drain.

The rest of the repository (user interface navigation, login screens, message
engines) decides from what a screen shows and is outside these models or one
nondeterministic step of them.

## 1. Inventory

| component | state it keeps | operations | correct when | modelled |
|---|---|---|---|---|
| ledger `account_run_requests` (migration `20260530153000`, create in `20260622225616`, renew in `20260819093000`) | status, owner, lease, cancel flag, run id per request | create, claim, mark starting, link, renew, complete, cancel, reclaim | one active request per account; outcome written once; cancel is never forgotten; a row is given back only before it has a run | `RunRequestQueue`, `AccountSlot` |
| run rows `ig_runs` (`supabase_client.py`) | status, account | insert, PATCH by id | one active run per account; outcome published once; no row active for ever | `RunRequestQueue` |
| dispatcher (`account_run_request_consumer.py`, `orphan_run_reconciliation.py`) | main thread, pool of dispatch tasks | startup reconciliations, preflight, reclaim, claim, task steps, sweep, drain | no second worker per phone or account over crashes; every accepted request settles | `RunControl` |
| runner shell (`runner.py`) | process, decided status | create_run, link, cancel gates, session, cleanup, publish, close, signal handling | drives a phone only on behalf of a running request; never leaves its run row open | `RunnerProcess` |
| phone UI leases (`auto_restart_device_lock.py`) | holder per phone | acquire, bind, transfer, renew, release, lapse | at most one holder, who is the one that drives | `DeviceLease` (SQL external) |
| follow intents, P0C recovery, receipt replay (`follow_persistence_intent.py`, `ambiguous_mutation_reconciliation.py`, `follow_persistence_receipt_replay.py`, `runner.py`) | one intent file per follow; canonical events | prepare, start, tap, verify, persist, mark; recover; replay at stop and at dispatcher start | a follow is counted once and only if it happened; an intent of a tap is dropped only after its click raised | `FollowJournal`, `FollowSession`, `MutationTally` |
| post-follow stage outbox (`post_follow_stage_outbox.py`) | journaled stages per action | journal, deliver group, acknowledge cycle, delete | a row is deleted only when the database has it; the next candidate waits for it | `StageOutbox`, `FollowSession` |
| unfollow session (`unfollow_session_orchestrator.py`, `unfollow_profile_probe.py`, migration `20260818190000`) | intents, events, day count, budget | reconcile, plan, choose, tap, verify, persist | no tap beyond the day's limit; a plan misses an unfollow only if its attempt was given up or is open elsewhere | `UnfollowSession`, `MutationTally` |
| deferred projections (`deferred_projection_outbox.py`, `runner.py`) | queue in memory, SQLite rows with claim leases and attempts | defer, flush, spool, claim, replay, delete, pause | nothing leaves undelivered; an orderly end loses at most the call in flight; retries bounded | `ProjectionOutbox`, `DeferredProjections` |
| candidate recovery queue | rows with leases | enqueue, claim, complete, defer | one owner, bounded retries | no (section 7) |
| cooperative stop, device action latch | tokens per session, process latch | request, acknowledge, clear; guard | no action starts after the stop; scheduled stop is told from a kill | the latch by its effect (`StopSignal`); tokens no (section 7) |
| Auto Restart, scheduled preflight | resume plans, special requests | tick, validation, hard stop | a session is resumed at most once | effects on requests, locks and lineage only |
| session, login, UI engines, edge functions, governance scripts | | | | no (reasons in `PROJECT.json`) |

Interaction. Dashboard and Auto Restart create and cancel requests by RPC. The
dispatcher's main thread reclaims and claims by RPC and hands each claim to a
task on a thread pool. The task takes the phone's lease, starts a worker process
and polls it and its request once a second. The worker inserts its own run row,
links it, drives the phone and publishes. Dispatcher and worker never talk
directly except by SIGTERM and the exit code: everything else goes through
shared rows that both write, with lease times nobody may be around to renew.
Within a worker, a follow is written to three stores one after the other: the
intent file before the tap and after it, the canonical tables by an idempotent
RPC, the stage outbox for what follows. The intent directory is read again by the
recovery of a later session, by the drain of a stop signal (a thread of the dying
worker) and by the dispatcher when it starts. Secondary writes go through a queue
that the main thread fills, a background thread empties, and the terminal
publication or the signal handler spools to a SQLite file the dispatcher drains.

What is hard: the windows between two remote calls of one handler; cancels and
leases that strike in these windows; a dispatcher that dies with workers alive;
run rows written by four parties without a guard; requests whose run is unknown;
a tap whose answer is lost; four writers that close the same intent; a limit
applied before a filter; a signal handler that runs on top of the code it repeats.
`PROJECT.json` lists each hazard at its line.

## 2. Modules

* `AccountSlot` is the abstract specification: an account has one slot, a request
  waits for it, owns it, is bound to a run in it, and settles once.
* `RunRequestQueue` has one action per SQL function, each a transaction, plus
  `InsertRun`, `PatchRun` and `LeaseLapses`. Its callers are arbitrary, so its
  properties hold for any client. `SlotPromise` is the refinement of
  `AccountSlot` by `PhaseOf(status)` and `runOf`.
* `RunnerProcess` extends the ledger by the workers: `cpc` runs through boot,
  link, gate, work, cleanup, close, exit; `unlinked` is the way out of a worker whose
  run row or link failed. A worker is named by the run id it will
  insert.
* `DeviceLease` is the phone lease by its callers' contract.
* `RunControl` composes the three with the dispatcher. `tpc` is the place of each
  dispatch task in `_handle_claimed_request`, `mpc` that of `run_forever`.
  Remote calls are steps of their own, so crashes, cancels and lapses fall
  between any two.
* `PhoneSession` is the abstract specification of that composition: runs take a
  phone in turn, each for an open request, leave it for good, and are closed and
  answered once, off the phone. `PhonePromise` maps `cpc` to the places before, on
  and over, and the two status columns to outcomes.
* `MutationTally` is the abstract specification of follows and unfollows alike: a
  user is tallied only after the act took effect, once, and never untallied.
* `FollowJournal` has the intents, the canonical events and the phone's truth, and
  the three decisions taken from them: which intents are in a recovery's scope,
  which snapshots prove a follow, which intents a replay loads and replays.
* `StageOutbox` extends it by the stage rows of each action.
* `FollowSession` extends both by the processes: the worker's main thread (`pc`,
  from `p0c` and `recover` over `list`, `prep`, `armed`, `tapped`, `persist`,
  `mark`, `post`, `return`, `meta`, `write` to `flush`, `settle`, `delete`), the
  drain its stop signal starts (`drain`), and the dispatcher's startup replay
  (`disp`; `beside` is a replay with a worker of the dispatcher before still at work). Each file write and each RPC is a step. `WorkerEnds` may strike before
  any of them. `TallyPromise` maps `following` and the users of `counted`
  to the tally.
* `UnfollowSession` is the same for unfollows, with the reconciliation that comes
  first, the budget taken from the day's count, and the loop. Its `TallyPromise`
  maps `landed` and the users of the events.
* `ProjectionOutbox` is the SQLite table with one drain; `DeferredProjections`
  extends it by the worker: queue, flusher, terminal spool and, on top of the main
  thread at any point, the signal handler with a spool of its own.
* The four `MC` modules hold the instances' constants; the eight `_proofs` modules
  the theorems (section 6).

Operators that stand next to an action and share its form (`CreateIgnoringActive`,
`StaleClaimOnly`, `ProvesFollowByOne`, `PlanEarly`, ...) are plausible
wrong versions of it. They are used by no specification: substituting one for the
right version must make a property fail, which shows that the property looks at
that code. `PROJECT.json` lists the pairs under "mutants".

### Abstractions: Run Control

* Lease times are none, live or expired; a request is its idempotency key, so a
  repeated create stutters; `created_at` is a stamp. Columns no guard reads are
  left out.
* Sessions are `account_session` runs without a business deadline: the login
  launch path (the dispatcher creates the run itself), scheduled preflight
  requests, cooperative stop and the canary branches are not in the model.
* `reconcile_ig_run_canonical_totals_v1`, which is tried before
  `reconcile_linked_ig_run_terminal`, is SQL of another repository and is taken
  to do what the fallback does. Read and PATCH of the fallback are one step.
* The finalization's read of the request and the complete that follows it are
  one step (`TaskFinalizes`); the reconciliation is the next.
* The three cancel gates of the runner are one (`ChildGate`); a check that raises
  counts as no cancel (`ChildGateFails`). A worker without a run or without its link
  meets one gate and then returns 96 before `connect_device`, because the Follow
  engine's configuration or its binding fails (`ChildUnlinked`; `src/runner.py:25213`,
  `:25281`, `:25360`). A signal before the handler is installed kills at once; afterwards the handler raises `SystemExit`;
  either way nothing is published.
* The orphan recovery's "stale" (lease lapsed and more than the subprocess limit
  plus grace without progress and heartbeat) is modelled by its cause: the worker
  has exited. A candidate it has found but not written is judged again.
* Issuers that bind a phone's lease create the request and bind in one step; a
  request whose phone is taken is not created.
* The binding of a lease by its SQL is external; `acquire` + `transfer` of the
  manual path is one step.
* One dispatcher identity at a time: the service wrapper's lock is trusted.
  The exit after repeated loop errors drains like a SIGTERM (`MainStops`).
* Row limits of the sweeps (20 and 50) exceed every instance; the claim's
  SKIP LOCKED only reorders transactions.
* Startup exits of the receipt replay and the storage gate are left out here; the
  replay itself is in `FollowSession`.

### Abstractions: mutations

* An action is a pair of run and user: the id is a function of account, run and
  user name. An intent is a file replaced atomically, so writing it is one step;
  `update_intent_metadata`, which reads first and writes later, is two.
* The RPCs `persist_verified_follow_success_v1`, `persist_follow60_post_follow_v3`
  and `ack_follow60_completed_cycle_v2` are SQL of another repository and are
  idempotent inserts, as their callers rely on. That a call committed and its
  answer was lost is the worker ending after the step.
* A worker that gives up, crashes or is killed is one action: it keeps nothing in
  memory that another process could see.
* What the phone shows: an exact "following" is right; of two snapshots at
  most one is wrong. `Landing` lets a sent tap take effect or not (rate limits).
* A click that raises may have reached the phone or not; the code takes it for no
  tap in both cases. See section 5.
* The two mute stages, which only count together, are one. The like stage and the
  delivery status of a row, which nothing reads, are left out.
* Search, profile and sheet of an unfollow come before its intent and change
  nothing if they fail. `SessionCap` stands for every limit of the session but the
  day's. A candidate followed again by hand during the day is not modelled.
* Who starts the next worker, and when, is Run Control: here a run starts once,
  one at a time, after those it resumes, while the dispatcher serves.

### Abstractions: deferred projections

* Queues are sets. The action logs and the Supabase steps of the runner's two
  queues are `Items`, of which only `Steps` can be flushed in the background;
  the flushes on the main thread between candidates are left out.
* A spool is one transaction. `enqueue` fails as a whole (`SpoolFails`).
* The handler runs on the main thread. `StopSignalInLock` is the signal that
  lands while that thread holds the queue lock, which the handler's own log line
  takes again: it is stuck for ever. A second signal during the handler is left out.
* A drain is one thread's; a cut drain (`DrainCut`) leaves its claims until the
  lease lapses. `delivered` is a set: a delivery repeated after a lapse is allowed,
  since nothing in the code excludes it.

## 3. Runs

Eight runs pass, four show a violation. The Run Control runs have two accounts
that share one phone at most; what can go wrong needs two parties and one shared
thing.

| run | question | properties | bounds |
|---|---|---|---|
| `ledger` | is the SQL right under any caller? | `LedgerTypeOK`, `ColumnsAgree`, `OneActivePerAccount`, `CancelDecides`, `FinalOutcome`, `SlotPromise` | 3 requests on 2 accounts with different priorities, one of login type, 2 workers with different allowances, 1 run |
| `restart_safety` | may two workers ever share a phone? | `RunControlTypeOK`, `OneDriverPerPhone` | 2 manual requests on 2 accounts, of which one exits when unlinked, 2 runs, 2 slots, 1 crash or stop, workers survive it, 1 fault, default preflight |
| `successors` | are rows and workers consistent when a request follows another? | `DriverBacked`, `CompletedMeansCompleted`, `OneLinkedRunPerAccount`, `PublishedOnce`, `PhonePromise` | manual then Auto Restart request of an account, 2 runs, 2 slots, 1 crash, survivors, 1 fault |
| `reclaims` | does a dead dispatcher's claim come back, to one active run? | `StaleClaimReclaimed`, `OneRunPerAccount` | 1 request, 3 runs, 1 slot, 1 restart, workers die with the dispatcher, 1 fault, fair |
| `settles` | does everything end? | `EveryRequestSettles`, `CancelStopsDriving`, `LinkedRunCloses` | 2 requests on 2 accounts, 1 slot, 1 fault (a worker that dies), fair |
| `follow_session` | is every follow counted once, and nothing lost on the way? | `FollowTypeOK`, `CountedOnce`, `PersistedIsCounted`, `TapOutcomeKept`, `NextCandidateBlocked`, `TallyPromise`, `RowsLeaveDelivered`, `RecoveryCountsOwn`, `StartupCountsAll` | 2 users, 2 runs of which the second resumes the first and may try 1 candidate against 2, startup limit 2, drain limit 1, any number of crashes and dispatcher starts, also beside a live worker |
| `unfollow_session` | do quota and recovery hold over a day of interrupted sessions? | `UnfollowTypeOK`, `ClosedIsCounted`, `TallyPromise`, `TapsWithinQuota`, `PlanMissesOnlyOpen` | 3 runs, 2 of one business session and 1 of its own, 4 candidates of whom 3 are followed, day limit 2, session cap 2, 1 doubt |
| `projections` | does a postponed write reach the database? | `ProjectionTypeOK`, `OrderlyEndLosesAtMostOne`, `RecordsLeaveDelivered`, `SpooledSettles` | 2 items of which 1 can be flushed, batches of 1, 2 attempts, 1 cut drain, fair |
| `stranded_run`, `uncounted_unfollow`, `lost_lineage`, `blind_replay` | what the repository promises and the code does not keep | `ActiveRunHasCloser`, `PlanSeesUnfollows`, `RecoveryCoversLineage`, `NoBlindReplay` | smallest instance that shows it |

`MaxFaults` bounds injected failures (failed create_run, link, cancel check,
publication or close, a worker that dies, a lost task), `MaxRestarts` crashes and stops. One of
each is enough for the recovery paths: a second fault of the same kind meets the
same recovery from the same rows. `Runs` leaves two launches, which the two
requests use or one request and its relaunch, and three in `reclaims`, where the
loop of claim, loss and reclaim is the point. Run ids are symmetric in
the safety runs. `CHECK_DEADLOCK FALSE` appears because a system in which every
request is settled, or a dispatcher whose restarts are used up, really stops.

`OneRunPerAccount` is a statement about one slot, which `reclaims` has; with two
or more it does not hold (section 5). `successors` has two and checks what remains
in every setting, `OneLinkedRunPerAccount`.

`SlowBoot` says whether a boot may last longer than the claim's lease and the
watchdog. Both are minutes to hours against seconds of boot, so it is FALSE in the
runs, and no run shows what a boot that outlasts its claim does. The theorems that
need it FALSE name it; `LinkedRunAlone`, `RunAlone`, `LinkedBeforePhone`,
`RunControlCompleted` and the ledger's theorems hold without. With it, an abandoned
slow worker and its successor are two workers of one request, and the first task to
finalize may close the run of the second; this is a known limit of the model's
assumption.

The bounds of the mutation runs: a second run is needed for recovery and for a
second count of the same user, a second user for the candidate that must wait for
the first. Crashes are not bounded; the runs are, each starting once. With
three possible intents a startup limit of 2 both covers the journal and cuts it,
and a drain limit of 1 leaves receipts behind. In `unfollow_session` three
followed users against a day limit of 2 let the quota bite, with one listed
candidate who is already gone, and three sessions let an unresolved intent be met
twice. Two of the three have one business session, so that the reconciliation has
something in its scope, and one has its own. As deployed every process draws an id
and runs one unfollow session (a handoff or a resume, never both), so no two
sessions share one: `uncounted_unfollow` and `blind_replay` take each run's own id and
show what follows. What `unfollow_session` checks holds for either choice, and is
proved for every. Two projections, one of each kind, suffice for the item in flight against
the item in the queue; batches of one make a drain leave something.

Fairness (`FairSpec` of `RunControl`): threads and processes are scheduled (weak fairness of the
main thread's steps, of each task's steps and each worker's bookkeeping), lapsed
leases really lapse, the watchdog deadline comes. A session's end is *not* fair:
a worker may hang for ever and the properties must hold by watchdog and cancel.
Orphan recovery has strong fairness, because a candidate is looked at again at
every restart and need not be stale at each. Liveness is checked with
`RUN_CONTROL_DISPATCHER_ALLOW_EXISTING_QUEUE=true`: by default a start with any
active request is refused on purpose (`docs/run-control-production.md:117`), and
then a request left by a crash before its link waits for an operator.

`FairSpec` of `DeferredProjections` puts fairness on the dispatcher only
(`DrainFairness`). The loop calls the drain every five seconds and each call ends,
launchd starts a dead dispatcher again (`KeepAlive`), and leases lapse because
time passes: weak fairness. A replay that could end does so in the end, in
success or failure: strong fairness, because each drain may stop at its time
budget first; it would have to spend its four seconds on the claim alone, every
time, to replay nothing. The worker has no fairness: it may hang or die anywhere.

## 4. What the checks found

Four statements of the repository are not kept; each run prints a trace.

1. `stranded_run`: a cancel between create_run and link leaves an active
   `ig_runs` row that no recovery looks at; claims skip the account from then on. A
   link that merely fails has the same end for an account that the runner does not
   exit for at once: it returns 96 later with the row as it is.
2. `uncounted_unfollow`: the reconciliation of a resumed unfollow session matches
   intents by a business-session id that every process draws anew
   (`src/runner.py:24636`), so it finds none of its predecessor's, and the day's
   count is taken without an unfollow that took effect when the session died, or the
   verification was ambiguous, after the tap.
   `src/unfollow_session_orchestrator.py:4380` says recovery comes first for just
   this reason.
3. `lost_lineage`: the P0C recovery of an Auto Restart matches by the same id and
   drops the intents of the runs it resumes, so the worker goes on with their
   interrupted attempt still open. `src/follow_persistence_intent.py:248` says that
   it is the lookup by the current run alone which would lose the interruption, and
   `src/tests/test_follow_persistence_intent.py:65` tests the restart with one id for
   both runs. A *verified* receipt is saved all the same, by the dispatcher's next
   start.
4. `blind_replay`: an ambiguous unfollow is journaled in its intent alone
   (`src/unfollow_session_orchestrator.py:1455`), not in the candidate row whose
   failure the cooldown reads, and the next run of the day does not load the intent
   either: it taps the user again. `src/unfollow_action_outcome.py:193` says that the
   cooldown prevents a blind replay in another run. The model has no clock; the
   second run starts within the cooldown.

## 5. What reading the code for the models showed

These have no run of their own. The first two follow from the same models with
other constants; the others are consequences of a line that is modelled as it is.

* An Auto Restart request is launched without looking at whether it still holds
  the phone (`src/account_run_request_consumer.py:3191`); its lease is not renewed
  while it waits in the queue. `restart_safety` therefore has manual requests only.
* After a watchdog kill, and a release or finalization that raises, no terminal
  run row exists, which the sweep takes for the marker of a lost task
  (docstring at `src/account_run_request_consumer.py:486`).
* A follow click that raises after the phone took it is reported without a tap
  event (`src/instagram_navigation.py:10995`); the runner then closes the intent as
  abandoned before the attempt, and nothing counts the follow. The unfollow has
  the same shape (`src/unfollow_profile_probe.py:987`). No document promises that
  such a click is counted. `TapOutcomeKept` and `PlanMissesOnlyOpen` say that it is
  the one way in which an attempt is dropped.
* With ids of their own the scope of P0C is what its own run has begun, when a
  target ends and the next begins. `RecoveryCountsOwn` is about that scope,
  `lost_lineage` about the promised one.
* A failed canonical write of a follow is not noticed (`src/runner.py:22333`): the
  session goes on, the receipt stays verified, and the next dispatcher start counts
  it. A replay loads its limit of files before it filters
  (`src/follow_persistence_receipt_replay.py:31`), so a large journal of other
  intents can keep a receipt out: hence the hypothesis of `StartupCountsAll`.
* The groups of a crashed run are never replayed from the stage outbox in the
  mainline: the binding's control id is the run, and a run starts once.
* `OrderlyEndLosesAtMostOne` says one, not none: the flusher's item returns to the
  queue after a failed call, between the spool's snapshot and its clear
  (`src/runner.py:3605`, `:3646`). The comment at `src/runner.py:5348` reads as none. A
  spool that fails empties the queues; a signal between insert and clear spools
  twice; a signal while the main thread holds the queue lock never returns.

With several slots (`max_concurrent_subprocesses` is 4 by default) an account may
have two active `ig_runs` rows for a moment: its request is canceled after the
worker was launched and before the worker inserted its row, the account's next
request is created, claimed and launched on another slot, because neither the
creation nor the claim sees a row, and both workers insert theirs. The link of
the first is refused, so at most one of the rows is linked
(`OneLinkedRunPerAccount`). No document promises more.

Two situations of Run Control have no property of their own because no document
promises one: an existing queue allowed *and* workers that survive a crash (a
second worker can be put on a phone whose lease lapsed; `LinkedRunAlone` still holds
for the run rows), and the default preflight after a crash (no reclaim happens before
an operator steps in, although `docs/run-control-production.md:422` lists the reclaim
after a crash as a check).

## 6. Proofs

All theorems hold for every value of the constants that satisfies the modules'
`ASSUME`s; a further hypothesis is part of the statement where there is one.

**`RunRequestQueue_proofs`.** `LedgerInvariant`: the inductive `LedgerInv` joins
types, `ColumnsAgree`, `OneActivePerAccount` and `CancelDecides`. None of the parts
is inductive alone: reclaim and complete preserve the cancel rule only because an
in-flight row has a lease and an owner, link only because no canceled row is
claimed or starting. From it `LedgerTypes`, `LedgerColumns`, `LedgerOneActive`,
`LedgerCancel`, the action property `LedgerFinalOutcome`, and
`LedgerImplementsSlot`: each SQL function is a step of `AccountSlot` or a stutter;
reclaim maps to `HandBack` of the set of stale claims, claim to `HandOut` after it
(the second UPDATE of reclaim matches no row, by the invariant). `OneRowStep`
settles every action that touches one row; `ReclaimKeepsInv` and `ClaimKeepsInv`
do the two that touch many.

**`RunControl_proofs`.** The lemma `ControlLedgerStep` shows that every step of the
plane, under `ControlInv`, is a step of the ledger or leaves it alone. `ControlInv`
adds to `RunControlTypeOK` that a busy task, a live worker and an orphan
reconciliation have a request, and that what they are about to write is a status
of its table; without that the types of the rows are not preserved. So the
ledger's theorems carry over to the real callers over any crashes:
`RunControlLedger`, `RunControlOneActive`, `RunControlCancel`,
`RunControlFinalOutcome`, `RunControlImplementsSlot`. `LinkedBeforePhone`
says that a worker past its link is the one its request is linked to, whatever fails
at its launch: one that is not linked never reaches the phone, and a link stays. On
it rests `RunControlCompleted`, which needs no hypothesis either. Its
invariant follows an outcome back from the request over the task's verdict to the
worker that published it (`PublishedByWorker`, `ClosingPublished`, `VerdictHolds`);
as the worker that closes a request is its linked one, that is the request's run.

**`DriverBacking_proofs`.** `DriverBacked` says that the rows of a worker at work stand
although six parties write them, most of them without looking at workers. Its
invariant `BackingInv` therefore says who watches whom: a request is served by one
task (`OneServer`), whose lease has not run out and who is before the launch, at the
watch or past the exit of *its* worker (`ServedRows`, `TaskChildren`); a request has
one live worker (`OneChild`); what the rows say at each place of the worker
(`ChildRows`, `LinkedRuns`); and a worker without a task outlived its dispatcher, and
has no active request by the time a dispatcher claims (`Survivors`). The theorems
hold for `Orderly` settings. Each part is needed: without it TLC finds a worker at
work whose rows do not stand, and two on one phone.

* `~SlowBoot`: else a claim is reclaimed while its worker boots, and a second one is
  launched for it. The lease is minutes, the boot seconds.
* `~(AllowExistingQueue /\ ChildrenSurvive)`: else a restarted dispatcher claims
  beside a worker nobody watches. With either alone it does not: the default
  preflight refuses to start beside an active request.

`DriverIsBacked` follows; `RunPublishedOnce` adds that each of
the writers has looked at the row when it matters (`WritersLook`). `DriverAlone` is
`OneDriverPerPhone`: `PhoneInv` says that a task holds the phone's lock from its launch
to its release, and that live workers of active requests contend for no phone. It
has the further hypothesis `AutoRequests = {}`, because the answers of the lock calls
of a resume are not looked at (section 5); `LockedDriverAlone` says what remains
beside resumes.

**`PhoneSession_proofs`.** `ControlImplementsSession` proves `PhonePromise` under the
hypotheses of `DriverAlone`. `EveryMove` sorts the steps of the plane into five kinds:
an assignment, an entry, a closed run, an answered request, or workers that leave at
most. Each kind is then a step of the session: an entry by `DriverBacked` and the
lock, a closed run because a driver's run is open, a request answered as completed
by `CompletedInv`.

**`AccountRuns_proofs`.** `LinkedRunAlone` holds without a hypothesis: an account's
request is not handed out beside an active linked run (`NoneHandedOut`): the claim
refuses it beside an active row, and a link beside a handed-out request would need
two active requests of the account, which `OneActivePerAccount` excludes. `RunAlone` proves
`OneRunPerAccount` for one slot and workers that die with the dispatcher, slow boots
and failed launches included: every worker is watched, and neither a task before
its launch nor a worker before its insertion finds an active row of its account.

**`FollowSession_proofs`.** Nine properties from one invariant. `TypeInv` adds that
a candidate is in hand where one is used. `StageInv` ties the main thread's
position, the metadata it has read and every batch already loaded to the stages on
disk: a receipt once in a batch stays verified or persisted whoever else closes it.
On these rest `CountInv` (closed only over a count), `TruthInv` (vouched for only
what happened), `OwnerInv` (two actions never vouch for the same user: the second
run found it followed, or its own attempt began before), `OutboxInv` (rows of the
live run belong to the candidate in hand), `RecoveryInv`, and `StartupInv` with
`IntentsInv` (finitely many intents, so a limit above their number loads all; it
speaks of a start without a worker beside it, because a worker may verify a follow
after the batch was loaded). `FollowTapOutcome` needs no hypothesis: `OutcomeStep`
finds the intent of a follow that is new, `KeptStays` says what may become of it.
`FollowImplementsTally` is the refinement.

**`UnfollowSession_proofs`.** No theorem has a hypothesis, so all hold for
shared business sessions and for one per run;
count and budget together stay within the day's limit, because an event raises the
count by one at most and uses one of the budget. `UnfollowPlan` rests on `LandedInv`
(an unfollow that took effect is counted, abandoned or has an open attempt) and
`ScopeInv` (the reconciliation has not yet passed by what is open in its scope), so
that at the plan only another session's attempt is open.

**`DeferredProjections_proofs`.** `TypeInv` joins types, the table's bookkeeping and
that each spool has written nothing before it commits. `LossInv` follows what is
neither delivered nor stored through queue, the flusher's hand, the two snapshots
and the two spools: at each point all but one of them are accounted for. From them
`ProjectionTypes`, `ProjectionRecordsLeave`, `ProjectionOrderlyEnd`.

Only model-checked is what needs fairness and ENABLED, which are out of the
prover's reach: `StaleClaimReclaimed`, `EveryRequestSettles`, `CancelStopsDriving`,
`LinkedRunCloses`, `SpooledSettles`. Every safety property of a passing run is stated
by a theorem, five of them under a hypothesis named above (`DriverBacked`,
`PublishedOnce`, `OneDriverPerPhone`, `PhonePromise`, `OneRunPerAccount`); TLC also
checks instances outside these (`successors` has resumes).
The runs that show a violation prove nothing
beyond their trace.

## 7. Not modelled

* Cooperative business stop, scheduled preflight requests, the login launch path
  and the canary branches of the dispatcher. They are protocol, and the next thing
  to add to `RunControl`: tokens and acknowledgement against the watchdog first.
* The candidate recovery queue of the lease migration: nothing enters it. The one
  call of `enqueue` (`src/runner.py:21381`) passes evidence without a tap, which
  `classify_evidence` refuses, and `complete` and `defer` have no caller.
* The Auto Restart tick and resume plan: they read some thirty tables to decide on
  one request; their effects (a request, a lock, a lineage) are inputs here.
* Navigation, login, message and welcome engines, progressive resume of target
  lists: what they do depends on what a screen shows. A model would restate their
  heuristics. They are most of the repository's lines, so the lines mapped
  here are a small share of it; the share of the protocol code is much larger.
* Edge functions and dashboards: HTTP front ends whose effect on the ledger is
  create and cancel, which the models leave open. Heartbeats and the storage gate
  appear by their effects only. Governance scripts are release tooling.
* Two drains of the projection outbox at once, and two dispatchers: the
  service wrapper's lock is trusted.

Worth proving next: that a resume by Auto Restart keeps the phone to itself when its
issuer still holds the lock at the claim, which needs the issuer's renewals in the
model.
