--------------------------- MODULE FollowSession ---------------------------
(***************************************************************************)
(* The Follow sessions of one account: one worker process at a time, each  *)
(* with a run of its own, the drain its stop signal starts, and the        *)
(* receipt replay of the dispatcher's startup.                             *)
(*                                                                         *)
(* Every exit of the worker is WorkerEnds: it keeps nothing in memory that *)
(* a later process could see, so the exit codes differ in wording only.    *)
(***************************************************************************)
EXTENDS StageOutbox

CONSTANTS
    NoRun,
    NoAction,
    AllowExistingQueue, \* the dispatcher may start beside a live worker
    StartupLimit,       \* intents the replay of a dispatcher start loads
    DrainLimit,         \* intents the replay of a stop signal loads
    MaxTries            \* candidates each run may try

ASSUME SessionAssumption ==
    /\ NoRun \notin Runs
    /\ NoAction \notin Actions
    /\ AllowExistingQueue \in BOOLEAN
    /\ {StartupLimit, DrainLimit} \subseteq Nat \ {0}
    /\ MaxTries \in [Runs -> Nat]

VARIABLES
    run,          \* the run of the live worker process
    used,         \* the runs that have started
    pc,           \* where the worker's main thread is
    cur,          \* the action in its hands
    todo,         \* the intents P0C has still to settle
    kept,         \* the intent's stage as the metadata update read it
    whole,        \* every post-follow stage so far could be journaled
    drain,        \* where the drain of a stop signal is
    receipts,     \* the receipts that thread has still to replay
    disp,         \* where the dispatcher is
    batch         \* the receipts its startup has still to replay

workerVars == <<run, used, pc, cur, todo, kept, whole>>
stopVars == <<drain, receipts>>
dispVars == <<disp, batch>>
vars == <<journalVars, outboxVars, workerVars, stopVars, dispVars>>

WorkerSteps == {"p0c", "recover", "list", "prep", "armed", "tapped", "raised",
                "persist", "mark", "post", "return", "meta", "write", "flush",
                "settle", "delete", "exit"}

\* The worker is between the choice of a candidate and the tap's outcome.
Aiming == {"prep", "armed", "tapped", "raised"}

Init ==
    /\ JournalInit
    /\ OutboxInit
    /\ run = NoRun /\ used = {} /\ pc = "down" /\ cur = NoAction
    /\ todo = {} /\ kept = "none" /\ whole = TRUE
    /\ drain = "off" /\ receipts = {}
    /\ disp = "down" /\ batch = {}

\* The main thread is at p, and never comes back to where it was.
Leaves(p) ==
    /\ pc' = p
    /\ cur' = NoAction
    /\ todo' = {}
    /\ kept' = "none"
    /\ whole' = TRUE

\* The process is gone, with its threads.
Gone ==
    /\ run' = NoRun
    /\ Leaves("down")
    /\ drain' = "off"
    /\ receipts' = {}
    /\ UNCHANGED used

Step(p, a) ==
    /\ pc' = p
    /\ cur' = a
    /\ UNCHANGED <<run, used, todo, kept, whole, stopVars, dispVars>>

Marks(a) ==
    /\ WriteStage(a, "persisted")
    /\ UNCHANGED <<counted, following, outboxVars>>

Counts(a) ==
    /\ Persist(a)
    /\ UNCHANGED <<stage, following, outboxVars>>

-----------------------------------------------------------------------------
(* The worker's life.                                                      *)

\* The outbox replay of a start takes only rows bound to its own run, and a
\* run starts once: it finds none.  A resume names runs that have been.
Start(g) ==
    /\ disp = "loop"
    /\ run = NoRun
    /\ g \notin used
    /\ LineageOf[g] \subseteq used
    /\ run' = g
    /\ used' = used \union {g}
    /\ pc' = "p0c"
    /\ UNCHANGED <<journalVars, outboxVars, cur, todo, kept, whole, stopVars, dispVars>>

\* It finishes, gives up on a failure, crashes or is killed.
WorkerEnds ==
    /\ run # NoRun
    /\ Gone
    /\ UNCHANGED <<journalVars, outboxVars, dispVars>>

-----------------------------------------------------------------------------
(* P0C recovery, before the candidates of each target.                     *)

LoadScoped ==
    /\ pc = "p0c"
    /\ pc' = "recover"
    /\ todo' = Scoped(run)
    /\ UNCHANGED <<journalVars, outboxVars, run, used, cur, kept, whole, stopVars, dispVars>>

\* Its own intents before those of the lineage, attempts before preparations.
Rank(a) == (IF RunOfAction(a) = run THEN 0 ELSE 2)
             + (IF stage[a] = "prepared" THEN 1 ELSE 0)

Foremost(a) == a \in todo /\ \A b \in todo : Rank(a) <= Rank(b)

\* Without the phone: what was only prepared is abandoned, and a canonical
\* event, looked up first, settles an attempt.
SettleOffline(a) ==
    /\ pc = "recover"
    /\ Foremost(a)
    /\ stage[a] = "prepared" \/ a \in counted
    /\ WriteStage(a, IF stage[a] = "prepared" THEN "abandoned" ELSE "persisted")
    /\ todo' = todo \ {a}
    /\ UNCHANGED <<counted, following, outboxVars>>
    /\ UNCHANGED <<run, used, pc, cur, kept, whole, stopVars, dispVars>>

\* Without one, two fresh snapshots must prove the follow; any other verdict,
\* and any failure, ends the worker.
SettleBySnapshots(a) ==
    /\ pc = "recover"
    /\ Foremost(a)
    /\ stage[a] # "prepared"
    /\ a \notin counted
    /\ \E seen \in Snapshots(UserOf(a)) : ProvesFollow(seen)
    /\ Counts(a)
    /\ UNCHANGED <<workerVars, stopVars, dispVars>>

\* Recovery ends with intents left to settle.
RecoveryCut ==
    /\ pc = "recover"
    /\ Step("list", NoAction)
    /\ UNCHANGED <<journalVars, outboxVars>>

RecoveryDone ==
    /\ pc = "recover"
    /\ todo = {}
    /\ Step("list", NoAction)
    /\ UNCHANGED <<journalVars, outboxVars>>

-----------------------------------------------------------------------------
(* One candidate.                                                          *)

\* A user met once in a run, or found followed on opening the profile, is not
\* tried (again).
Choose(u) ==
    LET a == <<run, u>> IN
    /\ pc = "list"
    /\ u \notin following
    /\ stage[a] = "none"
    /\ Cardinality({v \in Users : stage[<<run, v>>] # "none"}) < MaxTries[run]
    /\ WriteStage(a, "prepared")
    /\ Step("prep", a)
    /\ UNCHANGED <<counted, following, outboxVars>>

NextTarget ==
    /\ pc = "list"
    /\ Step("p0c", NoAction)
    /\ UNCHANGED <<journalVars, outboxVars>>

StartAttempt ==
    /\ pc = "prep"
    /\ WriteStage(cur, "physical_attempt_started")
    /\ Step("armed", cur)
    /\ UNCHANGED <<counted, following, outboxVars>>

Landing == {following, following \union {UserOf(cur)}}

\* The click returns; the phone may or may not have followed.
Tap ==
    /\ pc = "armed"
    /\ following' \in Landing
    /\ Step("tapped", cur)
    /\ UNCHANGED <<stage, counted, outboxVars>>

\* The click raises, so no tap is recorded as sent; the phone may have followed
\* all the same.
ClickRaises ==
    /\ pc = "armed"
    /\ following' \in Landing
    /\ Step("raised", cur)
    /\ UNCHANGED <<stage, counted, outboxVars>>

SeeFollowing ==
    /\ pc = "tapped"
    /\ UserOf(cur) \in following
    /\ WriteStage(cur, "verified")
    /\ Step("persist", cur)
    /\ UNCHANGED <<counted, following, outboxVars>>

\* Whatever was not proved is given up.
GivenUp(doubt, verdict) ==
    /\ pc = doubt
    /\ WriteStage(cur, "abandoned")
    /\ Step("list", NoAction)
    /\ UNCHANGED <<counted, following, outboxVars>>

\* A success that the list screen or a pending request suggests all the same
\* goes on to the post-follow phase; without a follow time the canonical write
\* is refused, and the refusal is not looked at.
Doubt(doubt, verdict) ==
    /\ pc = doubt
    /\ WriteStage(cur, verdict)
    /\ \/ Step("list", NoAction)
       \/ Step("post", cur)
    /\ UNCHANGED <<counted, following, outboxVars>>

SeeUnclear == Doubt("tapped", "ambiguous")

NoTapSeen == Doubt("raised", "abandoned")

PersistFollow ==
    /\ pc = "persist"
    /\ Counts(cur)
    /\ Step("mark", cur)

\* The intent is closed whatever the call answered.
PersistAssumed ==
    /\ pc = "persist"
    /\ counted' \in {counted, counted \union {cur}}
    /\ Step("mark", cur)
    /\ UNCHANGED <<stage, following, outboxVars>>

\* The call fails, or its answer is lost: its result is not looked at.
PersistUnconfirmed ==
    /\ pc = "persist"
    /\ counted' \in {counted, counted \union {cur}}
    /\ Step("post", cur)
    /\ UNCHANGED <<stage, following, outboxVars>>

MarkPersisted ==
    /\ pc = "mark"
    /\ \/ Marks(cur)
       \/ UNCHANGED <<journalVars, outboxVars>>
    /\ Step("post", cur)

Journal(from, to, stages) ==
    /\ pc = from
    /\ \E S \in SUBSET stages : JournalStages(cur, S)
    /\ whole' \in {FALSE, whole}
    /\ pc' = to
    /\ UNCHANGED <<journalVars, run, used, cur, todo, kept, stopVars, dispVars>>

MuteAndJournal == Journal("post", "return", {Mutes})

ReturnAndJournal == Journal("return", "meta", {ReturnCT})

\* update_intent_metadata reads the whole intent and writes it back.
ReadIntent ==
    /\ pc = "meta"
    /\ kept' = stage[cur]
    /\ pc' = "write"
    /\ UNCHANGED <<journalVars, outboxVars, run, used, cur, todo, whole, stopVars, dispVars>>

WriteIntent ==
    /\ pc = "write"
    /\ WriteStage(cur, kept)
    /\ kept' = "none"
    /\ pc' = "flush"
    /\ UNCHANGED <<counted, following, outboxVars, run, used, cur, todo, whole, stopVars, dispVars>>

-----------------------------------------------------------------------------
(* The barrier between two candidates.                                     *)

\* The barrier does not wait for the delivery.
FlushOptional ==
    /\ pc = "flush"
    /\ rows[cur] # {}
    /\ \/ Deliver(cur) /\ Step("settle", cur)
       \/ UNCHANGED outboxVars /\ Step("list", NoAction)
    /\ UNCHANGED journalVars

\* A failed delivery ends the worker.
FlushGroup ==
    /\ pc = "flush"
    /\ rows[cur] # {}
    /\ Deliver(cur)
    /\ Step("settle", cur)
    /\ UNCHANGED journalVars

\* The barrier is passed only if every stage could be journaled.
Pass(p) ==
    \/ whole /\ Step(p, NoAction)
    \/ ~whole /\ Step("exit", NoAction)

\* Without a verified return to the list the target is given up.
FlushNothing ==
    /\ pc = "flush"
    /\ rows[cur] = {}
    /\ Pass("p0c")
    /\ UNCHANGED <<journalVars, outboxVars>>

\* Any delivered group is deleted.
DeleteDelivered ==
    /\ pc = "settle"
    /\ DeleteGroup(cur)
    /\ Pass("p0c")
    /\ UNCHANGED journalVars

DeleteOpen ==
    /\ pc = "settle"
    /\ ReturnCT \notin rows[cur]
    /\ DeleteGroup(cur)
    /\ Pass("p0c")
    /\ UNCHANGED journalVars

\* A closed cycle without its mutes is kept, and ends the worker.
AckGroup ==
    /\ pc = "settle"
    /\ CycleReady(cur)
    /\ AckCycle(cur)
    /\ Step("delete", cur)
    /\ UNCHANGED journalVars

DeleteAcked ==
    /\ pc = "delete"
    /\ DeleteGroup(cur)
    /\ Pass("list")
    /\ UNCHANGED journalVars

-----------------------------------------------------------------------------
(* The stop signal.                                                        *)

\* The handler runs on the main thread and ends in SystemExit.
StopSignal ==
    /\ run # NoRun
    /\ drain = "off"
    /\ Leaves("stopped")
    /\ drain' = "load"
    /\ UNCHANGED <<journalVars, outboxVars, run, used, receipts, dispVars>>

DrainGoes(p) ==
    /\ drain' = p
    /\ UNCHANGED <<workerVars, dispVars>>

DrainLoad ==
    /\ drain = "load"
    /\ \E S \in Loaded(DrainLimit) : receipts' = Replayable(S, {run})
    /\ DrainGoes("replay")
    /\ UNCHANGED <<journalVars, outboxVars>>

DrainReplay(a) ==
    /\ drain = "replay"
    /\ a \in receipts \ counted
    /\ Counts(a)
    /\ UNCHANGED <<workerVars, stopVars, dispVars>>

DrainMark(a) ==
    /\ drain = "replay"
    /\ a \in receipts \intersect counted
    /\ Marks(a)
    /\ receipts' = receipts \ {a}
    /\ DrainGoes("replay")

\* Every receipt replayed: on to the outbox.
DrainTurns ==
    /\ drain = "replay"
    /\ receipts = {}
    /\ DrainGoes("flush")
    /\ UNCHANGED <<journalVars, outboxVars, receipts>>

DrainDeliver(a) ==
    /\ drain = "flush"
    /\ a \in Groups(run)
    /\ ~ rows[a] \subseteq delivered[a]
    /\ Deliver(a)
    /\ DrainGoes("flush")
    /\ UNCHANGED <<journalVars, receipts>>

DrainAck(a) ==
    /\ drain = "flush"
    /\ a \in Groups(run)
    /\ rows[a] \subseteq delivered[a]
    /\ CycleReady(a)
    /\ a \notin acked
    /\ AckCycle(a)
    /\ DrainGoes("flush")
    /\ UNCHANGED <<journalVars, receipts>>

DrainDelete(a) ==
    /\ drain = "flush"
    /\ a \in Groups(run)
    /\ rows[a] \subseteq delivered[a]
    /\ ReturnCT \in rows[a] => CycleReady(a) /\ a \in acked
    /\ DeleteGroup(a)
    /\ DrainGoes("flush")
    /\ UNCHANGED <<journalVars, receipts>>

\* Done, stopped by a retained group, or failed in a call.
DrainEnds ==
    /\ drain \in {"load", "replay", "flush"}
    /\ DrainGoes("done")
    /\ receipts' = {}
    /\ UNCHANGED <<journalVars, outboxVars>>

\* The thread outlives the handler.
HandlerAbandons ==
    /\ pc = "stopped"
    /\ run' = NoRun
    /\ Leaves("down")
    /\ UNCHANGED <<journalVars, outboxVars, used, stopVars, dispVars>>

\* The handler waits for the thread for eight seconds at most, spools what is
\* left and exits; the thread is a daemon and dies with it.
HandlerExits ==
    /\ pc = "stopped"
    /\ Gone
    /\ UNCHANGED <<journalVars, outboxVars, dispVars>>

-----------------------------------------------------------------------------
(* The dispatcher's startup.                                               *)

\* The preflight refuses to start while a request is active, unless it is told
\* that it may: then a worker of the dispatcher before may still be at work.
Replaying == disp \in {"replay", "beside"}

DispatcherStarts ==
    /\ disp = "down"
    /\ run # NoRun => AllowExistingQueue
    /\ \E S \in Loaded(StartupLimit) : batch' = Replayable(S, Runs)
    /\ disp' = IF run = NoRun THEN "replay" ELSE "beside"
    /\ UNCHANGED <<journalVars, outboxVars, workerVars, stopVars>>

StartupReplay(a) ==
    /\ Replaying
    /\ a \in batch \ counted
    /\ Counts(a)
    /\ UNCHANGED <<workerVars, stopVars, dispVars>>

StartupMark(a) ==
    /\ Replaying
    /\ a \in batch \intersect counted
    /\ Marks(a)
    /\ batch' = batch \ {a}
    /\ UNCHANGED <<workerVars, stopVars, disp>>

\* A startup that runs out of time serves all the same.
StartupCut ==
    /\ Replaying
    /\ disp' = "loop"
    /\ batch' = {}
    /\ UNCHANGED <<journalVars, outboxVars, workerVars, stopVars>>

StartupDone ==
    /\ Replaying
    /\ batch = {}
    /\ disp' = "loop"
    /\ UNCHANGED <<journalVars, outboxVars, workerVars, stopVars, batch>>

\* A replay that fails or runs out of time ends it too.
DispatcherDies ==
    /\ disp # "down"
    /\ disp' = "down"
    /\ batch' = {}
    /\ UNCHANGED <<journalVars, outboxVars, workerVars, stopVars>>

-----------------------------------------------------------------------------
RecoveryNext ==
    \/ LoadScoped \/ RecoveryDone
    \/ \E a \in Actions : SettleOffline(a) \/ SettleBySnapshots(a)

CandidateNext ==
    \/ \E u \in Users : Choose(u)
    \/ NextTarget \/ StartAttempt \/ Tap \/ ClickRaises
    \/ SeeFollowing \/ SeeUnclear \/ NoTapSeen
    \/ PersistFollow \/ PersistUnconfirmed \/ MarkPersisted
    \/ MuteAndJournal \/ ReturnAndJournal \/ ReadIntent \/ WriteIntent

BarrierNext ==
    FlushGroup \/ FlushNothing \/ AckGroup \/ DeleteAcked \/ DeleteOpen

StopNext ==
    \/ StopSignal \/ DrainLoad \/ DrainTurns \/ DrainEnds
    \/ HandlerExits
    \/ \E a \in Actions : \/ DrainReplay(a) \/ DrainMark(a) \/ DrainDeliver(a)
                          \/ DrainAck(a) \/ DrainDelete(a)

DispatcherNext ==
    \/ DispatcherStarts \/ StartupDone \/ DispatcherDies
    \/ \E a \in Actions : StartupReplay(a) \/ StartupMark(a)

Next ==
    \/ \E g \in Runs : Start(g)
    \/ WorkerEnds
    \/ RecoveryNext \/ CandidateNext \/ BarrierNext \/ StopNext \/ DispatcherNext

Spec == Init /\ [][Next]_vars

-----------------------------------------------------------------------------
(* Properties.                                                             *)

\* Every variable keeps its type, and a dead worker leaves nothing in memory.
FollowTypeOK ==
    /\ JournalTypeOK
    /\ OutboxTypeOK
    /\ run \in Runs \union {NoRun}
    /\ used \subseteq Runs
    /\ pc \in WorkerSteps \union {"stopped", "down"}
    /\ cur \in Actions \union {NoAction}
    /\ todo \subseteq Actions
    /\ kept \in Stages
    /\ whole \in BOOLEAN
    /\ drain \in {"off", "load", "replay", "flush", "done"}
    /\ receipts \subseteq Actions
    /\ disp \in {"down", "replay", "beside", "loop"}
    /\ batch \subseteq Actions
    /\ (run = NoRun) = (pc = "down")
    /\ (drain = "off") = (pc # "stopped")

\* The canonical tables only ever count a user the account had come to follow,
\* whichever of the worker, P0C, the stop drain and the dispatcher writes them
\* and however often (the abstract tally).
Tally == INSTANCE MutationTally
            WITH done <- following, tallied <- {UserOf(a) : a \in counted}
TallyPromise == Tally!TallySpec

\* A user is counted for one run only, although action ids, and with them the
\* idempotence of the count, are per run.
CountedOnce == \A a, b \in counted : UserOf(a) = UserOf(b) => a = b

\* An intent is closed as persisted only over a committed canonical event: the
\* two stores are written one after the other, by four writers.
PersistedIsCounted == \A a \in Actions : stage[a] = "persisted" => a \in counted

\* While a candidate is in hand no earlier candidate of the run has receipts
\* that are undelivered, or a closed cycle whose mutes are missing.
NextCandidateBlocked ==
    pc \in Aiming =>
        \A a \in Actions \ {cur} : RunOfAction(a) = run => rows[a] = {}

\* A row leaves the outbox only when the database has it, and the row that
\* closes a cycle only with its mutes and after the ledger's acknowledgement.
RowsLeaveDelivered ==
    [][\A a \in Actions : \A s \in rows[a] \ rows'[a] :
          /\ s \in delivered[a]
          /\ s = ReturnCT => a \in acked /\ Mutes \in delivered[a]]_vars

\* "After attempt-start, before tap/ACK: ambiguous": whoever comes to be followed
\* has an intent that recovery still looks at, or that is closed by its count, and
\* loses it by nothing but a click that raised.
Kept(u) == \E g \in Runs : stage[<<g, u>>] \in Started \union {"persisted"}

TapOutcomeKept ==
    [][\A u \in following' : Kept(u)' \/ (u \in following /\ ~Kept(u)) \/ NoTapSeen]_vars

\* P0C lets the worker at the candidates of a target only when each follow its
\* run has caused is counted, or was given up as not tapped.
RecoveryCountsOwn ==
    [][RecoveryDone =>
          \A u \in following : LET a == <<run, u>> IN
              stage[a] # "none" => a \in counted \/ stage[a] = "abandoned"]_vars

\* What the comment in load_scoped_nonterminal_intents says of an Auto Restart: the
\* attempts its lineage left open are settled before it goes on to new candidates.
RecoveryCoversLineage ==
    [][RecoveryDone =>
          \A a \in Actions : RunOfAction(a) \in {run} \union LineageOf[run]
                              => stage[a] \notin Started]_vars

Intents == {a \in Actions : stage[a] # "none"}

\* A dispatcher that starts without a worker beside it, and whose limit covers
\* the journal, serves only when every verified follow is counted.
StartupCountsAll ==
    [][StartupDone /\ disp = "replay" /\ Cardinality(Intents) <= StartupLimit =>
          \A a \in Actions : stage[a] = "verified" => a \in counted]_vars
=============================================================================
