-------------------------- MODULE UnfollowSession --------------------------
(***************************************************************************)
(* The Unfollow sessions of one account on one business day: each worker   *)
(* process runs one, under the business session its run was given.  It     *)
(* reconciles the open intents of that session, plans with the day's       *)
(* canonical count, and unfollows candidates one by one.                   *)
(*                                                                         *)
(* The search for a candidate, its profile and its sheet are left out: a   *)
(* candidate that fails before its intent is written changes nothing.      *)
(***************************************************************************)
EXTENDS FiniteSets, Naturals

CONSTANTS
    Runs,
    Users,        \* the candidates the database lists
    Followed,     \* those the account still follows when the day begins
    NoRun,
    NoAction,
    SessionOf,    \* the business session each run is given
    DayLimit,
    SessionCap,   \* the least of the session's other limits
    MaxDoubts     \* doubtful outcomes in a row that a session may pass over

ASSUME UnfollowAssumption ==
    /\ Followed \subseteq Users
    /\ NoRun \notin Runs
    /\ NoAction \notin Runs \X Users
    /\ DOMAIN SessionOf = Runs
    /\ {DayLimit, SessionCap, MaxDoubts} \subseteq Nat

VARIABLES
    stage,        \* the stage of each action's intent
    events,       \* the actions with a canonical unfollow event
    closed,       \* the candidates recorded as not followed any more
    landed,       \* the users a tap has unfollowed
    used,         \* the runs that have started
    run,          \* the run of the live session
    pc,
    cur,          \* the action in its hands
    todo,         \* the open intents it has still to reconcile
    budget,       \* the unfollows it may still verify
    doubts        \* its doubtful outcomes in a row

durableVars == <<stage, events, closed, landed>>
sessionVars == <<used, run, pc, cur, todo, budget, doubts>>
vars == <<durableVars, sessionVars>>

Actions == Runs \X Users
RunOfAction(a) == a[1]
UserOf(a) == a[2]

Attempted == {"physical_attempt_started", "verified", "ambiguous", "unresolved"}
Terminal == {"persisted", "reconciled", "abandoned"}
Stages == {"none", "prepared"} \union Attempted \union Terminal

Steps == {"reconcile", "close", "loop", "prep", "armed", "tapped", "missed",
          "persist", "mark"}

\* An event is inserted together with the mark on its candidate's row.
Gone == {UserOf(a) : a \in events}

Following == Followed \ landed

Nonterminal == {a \in Actions : stage[a] \in {"prepared"} \union Attempted}

Init ==
    /\ stage = [a \in Actions |-> "none"]
    /\ events = {} /\ closed = {} /\ landed = {}
    /\ used = {} /\ run = NoRun /\ pc = "down" /\ cur = NoAction
    /\ todo = {} /\ budget = 0 /\ doubts = 0

WriteStage(a, s) == stage' = [stage EXCEPT ![a] = s]

\* persist_verified_unfollow_success_v1: idempotent per action id.
Persist(a) == events' = events \union {a}

Step(p, a) ==
    /\ pc' = p
    /\ cur' = a
    /\ UNCHANGED <<used, run, todo, budget, doubts>>

Over ==
    /\ run' = NoRun
    /\ pc' = "down"
    /\ cur' = NoAction
    /\ todo' = {}
    /\ budget' = 0
    /\ doubts' = 0
    /\ UNCHANGED used

\* It returns, stops at a limit, fails, crashes or is killed.
SessionEnds ==
    /\ run # NoRun
    /\ Over
    /\ UNCHANGED durableVars

-----------------------------------------------------------------------------
(* Reconciliation.                                                         *)

\* load_scoped_nonterminal_intents, without a lineage.
Scoped(g) == {a \in Nonterminal : SessionOf[RunOfAction(a)] = SessionOf[g]}

Start(g) ==
    /\ run = NoRun
    /\ g \notin used
    /\ run' = g
    /\ used' = used \union {g}
    /\ pc' = "reconcile"
    /\ todo' = Scoped(g)
    /\ UNCHANGED <<durableVars, cur, budget, doubts>>

SettlePrepared(a) ==
    /\ pc = "reconcile"
    /\ a \in todo
    /\ stage[a] = "prepared"
    /\ WriteStage(a, "abandoned")
    /\ todo' = todo \ {a}
    /\ UNCHANGED <<events, closed, landed, used, run, pc, cur, budget, doubts>>

\* The canonical event is looked up first.
SettleByReceipt(a) ==
    /\ pc = "reconcile"
    /\ a \in todo \intersect events
    /\ stage[a] # "prepared"
    /\ WriteStage(a, "persisted")
    /\ todo' = todo \ {a}
    /\ UNCHANGED <<events, closed, landed, used, run, pc, cur, budget, doubts>>

\* Two observations of the profile; at most one of them is wrong.
Observations(u) ==
    LET seen == {"not_following", "unknown"} \X {"not_following", "unknown"}
    IN IF u \in Following THEN seen \ {<<"not_following", "not_following">>} ELSE seen

\* One observation is enough.
ProvedByOne(seen) == "not_following" \in {seen[1], seen[2]}

Proved(seen) == seen = <<"not_following", "not_following">>

SettleByObservation(a) ==
    /\ pc = "reconcile"
    /\ a \in todo \ events
    /\ stage[a] # "prepared"
    /\ \E seen \in Observations(UserOf(a)) : Proved(seen)
    /\ Persist(a)
    /\ Step("close", a)
    /\ UNCHANGED <<stage, closed, landed>>

CloseReconciled ==
    /\ pc = "close"
    /\ WriteStage(cur, "reconciled")
    /\ pc' = "reconcile"
    /\ cur' = NoAction
    /\ todo' = todo \ {cur}
    /\ UNCHANGED <<events, closed, landed, used, run, budget, doubts>>

\* Anything else leaves the intent open and ends the session.
LeaveUnresolved(a) ==
    /\ pc = "reconcile"
    /\ a \in todo \ events
    /\ stage[a] # "prepared"
    /\ \E seen \in Observations(UserOf(a)) : ~Proved(seen)
    /\ WriteStage(a, "unresolved")
    /\ Over
    /\ UNCHANGED <<events, closed, landed>>

-----------------------------------------------------------------------------
(* The plan.                                                               *)

\* The session's own limit alone.
BudgetsOfSession == 0..SessionCap

\* A hint of the resume plan, the time left or a failed count may lower it.
Budgets == {b \in 0..SessionCap : b = 0 \/ Cardinality(Gone) + b <= DayLimit}

\* The count is taken before the reconciliation is through.
PlanEarly ==
    /\ pc = "reconcile"
    /\ pc' = "loop"
    /\ budget' \in Budgets
    /\ UNCHANGED <<durableVars, used, run, cur, todo, doubts>>

Plan ==
    /\ pc = "reconcile"
    /\ todo = {}
    /\ pc' = "loop"
    /\ budget' \in Budgets
    /\ UNCHANGED <<durableVars, used, run, cur, todo, doubts>>

-----------------------------------------------------------------------------
(* One candidate.                                                          *)

Choose(u) ==
    LET a == <<run, u>> IN
    /\ pc = "loop"
    /\ budget > 0
    /\ u \in Following \ (Gone \union closed)
    /\ stage[a] = "none"
    /\ WriteStage(a, "prepared")
    /\ Step("prep", a)
    /\ UNCHANGED <<events, closed, landed>>

\* record_unfollow_already_not_following_v1: never a candidate again, and no
\* success.
AlreadyNotFollowing(u) ==
    /\ pc = "loop"
    /\ budget > 0
    /\ u \in Users \ (Following \union Gone \union closed)
    /\ stage[<<run, u>>] = "none"
    /\ closed' = closed \union {u}
    /\ UNCHANGED <<stage, events, landed, sessionVars>>

StartAttempt ==
    /\ pc = "prep"
    /\ WriteStage(cur, "physical_attempt_started")
    /\ Step("armed", cur)
    /\ UNCHANGED <<events, closed, landed>>

Landing == {landed, landed \union {UserOf(cur)}}

Tap ==
    /\ pc = "armed"
    /\ landed' \in Landing
    /\ Step("tapped", cur)
    /\ UNCHANGED <<stage, events, closed>>

\* The option is not on the sheet, or the click raises, which says nothing of
\* whether it landed.
TapFails ==
    /\ pc = "armed"
    /\ landed' \in Landing
    /\ Step("missed", cur)
    /\ UNCHANGED <<stage, events, closed>>

AbandonAttempt ==
    /\ pc = "missed"
    /\ WriteStage(cur, "abandoned")
    /\ Over
    /\ UNCHANGED <<events, closed, landed>>

VerifyGone ==
    /\ pc = "tapped"
    /\ UserOf(cur) \notin Following
    /\ WriteStage(cur, "verified")
    /\ Step("persist", cur)
    /\ UNCHANGED <<events, closed, landed>>

\* The session goes on after any doubtful outcome.
VerifyForgiving ==
    /\ pc = "tapped"
    /\ WriteStage(cur, "ambiguous")
    /\ doubts' = doubts + 1
    /\ pc' = "loop"
    /\ cur' = NoAction
    /\ UNCHANGED <<events, closed, landed, used, run, todo, budget>>

\* The session goes on only from the exact list, and only so often in a row.
VerifyDoubtful ==
    /\ pc = "tapped"
    /\ WriteStage(cur, "ambiguous")
    /\ \/ /\ doubts < MaxDoubts
          /\ doubts' = doubts + 1
          /\ pc' = "loop"
          /\ cur' = NoAction
          /\ UNCHANGED <<used, run, todo, budget>>
       \/ doubts >= MaxDoubts /\ Over
    /\ UNCHANGED <<events, closed, landed>>

PersistUnfollow ==
    /\ pc = "persist"
    /\ Persist(cur)
    /\ Step("mark", cur)
    /\ UNCHANGED <<stage, closed, landed>>

\* The intent is closed though the call was not confirmed.
PersistAssumed ==
    /\ pc = "persist"
    /\ events' \in {events, events \union {cur}}
    /\ Step("mark", cur)
    /\ UNCHANGED <<stage, closed, landed>>

\* The call commits and its answer is lost: the session ends.
PersistUnconfirmed ==
    /\ pc = "persist"
    /\ Persist(cur)
    /\ Over
    /\ UNCHANGED <<stage, closed, landed>>

MarkPersisted ==
    /\ pc = "mark"
    /\ WriteStage(cur, "persisted")
    /\ pc' = "loop"
    /\ cur' = NoAction
    /\ budget' = budget - 1
    /\ doubts' = 0
    /\ UNCHANGED <<events, closed, landed, used, run, todo>>

-----------------------------------------------------------------------------
ReconcileNext ==
    \/ \E g \in Runs : Start(g)
    \/ \E a \in Actions : \/ SettlePrepared(a) \/ SettleByReceipt(a)
                          \/ SettleByObservation(a) \/ LeaveUnresolved(a)
    \/ CloseReconciled

CandidateNext ==
    \/ \E u \in Users : Choose(u) \/ AlreadyNotFollowing(u)
    \/ StartAttempt \/ Tap \/ TapFails \/ AbandonAttempt
    \/ VerifyGone \/ VerifyDoubtful
    \/ PersistUnfollow \/ PersistUnconfirmed \/ MarkPersisted

Next == SessionEnds \/ ReconcileNext \/ Plan \/ CandidateNext

Spec == Init /\ [][Next]_vars

-----------------------------------------------------------------------------
(* Properties.                                                             *)

\* Every variable keeps its type, and no session leaves anything in memory.
UnfollowTypeOK ==
    /\ stage \in [Actions -> Stages]
    /\ events \subseteq Actions
    /\ closed \subseteq Users
    /\ landed \subseteq Followed
    /\ used \subseteq Runs
    /\ run \in Runs \union {NoRun}
    /\ pc \in Steps \union {"down"}
    /\ cur \in Actions \union {NoAction}
    /\ todo \subseteq Actions
    /\ budget \in 0..SessionCap
    /\ doubts \in 0..MaxDoubts
    /\ (run = NoRun) = (pc = "down")
    /\ run = NoRun => todo = {} /\ budget = 0 /\ doubts = 0

\* A user is counted as unfollowed only after a tap unfollowed it, whichever of
\* the session and its reconciliation writes the event (the abstract tally).
Tally == INSTANCE MutationTally WITH done <- landed, tallied <- Gone
TallyPromise == Tally!TallySpec

\* An intent is closed as persisted or reconciled only over a canonical event.
ClosedIsCounted ==
    \A a \in Actions : stage[a] \in {"persisted", "reconciled"} => a \in events

\* No tap is sent once the day's canonical count has reached the day's limit,
\* whatever earlier sessions of the day counted, lost or recovered late.
TapsWithinQuota == [][Tap => Cardinality(Gone) < DayLimit]_vars

\* Reconciliation comes before the count.  The plan misses an unfollow only when
\* its attempt was abandoned (its click raised) or is open in another business
\* session.
MissedByRight(u) ==
    \E g \in Runs :
        \/ stage[<<g, u>>] = "abandoned"
        \/ stage[<<g, u>>] \in Attempted /\ SessionOf[g] # SessionOf[run]

PlanMissesOnlyOpen == [][Plan => \A u \in landed \ Gone : MissedByRight(u)]_vars

\* What the comment above the reconciliation promises (lines 4380-4382 of
\* unfollow_session_orchestrator.py): the plan is made from every unfollow.
PlanSeesUnfollows == [][Plan => landed \subseteq Gone]_vars

\* What the comment on the cooldown promises (unfollow_action_outcome.py,
\* lines 193-196): no other run taps again where an attempt is ambiguous.
NoBlindReplay == [][Tap => \A g \in Runs \ {run} : stage[<<g, UserOf(cur)>>] # "ambiguous"]_vars
=============================================================================
