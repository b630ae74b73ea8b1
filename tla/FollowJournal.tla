--------------------------- MODULE FollowJournal ---------------------------
(***************************************************************************)
(* The durable Follow intents of one account (follow_persistence_intent),  *)
(* the canonical follow events they end in, and the decisions taken from   *)
(* them: the scope and the verdicts of P0C recovery and the batch of a     *)
(* receipt replay.                                                         *)
(*                                                                         *)
(* A worker process is named by its run.  The action id of a follow is a   *)
(* function of account, run and user name, so an action is such a pair.    *)
(* Its intent is one file, replaced atomically.                            *)
(***************************************************************************)
EXTENDS FiniteSets, Naturals

CONSTANTS
    Runs,
    Users,
    LineageOf     \* the runs a run's Auto Restart resume policy names

ASSUME JournalAssumption == LineageOf \in [Runs -> SUBSET Runs]

VARIABLES
    stage,        \* the stage of each action's intent
    counted,      \* the actions with a canonical follow event
    following     \* the users the account follows on the phone

journalVars == <<stage, counted, following>>

Actions == Runs \X Users
RunOfAction(a) == a[1]
UserOf(a) == a[2]

Started == {"physical_attempt_started", "ambiguous", "verified"}
Terminal == {"persisted", "abandoned"}
Stages == {"none", "prepared"} \union Started \union Terminal

Nonterminal == {a \in Actions : stage[a] \in {"prepared"} \union Started}

JournalInit ==
    /\ stage = [a \in Actions |-> "none"]
    /\ counted = {}
    /\ following = {}

\* update_intent_stage and create_mutation_intent, for any new stage.
WriteStage(a, s) == stage' = [stage EXCEPT ![a] = s]

\* persist_verified_follow_success_v1: idempotent per action id.
Persist(a) == counted' = counted \union {a}

-----------------------------------------------------------------------------
(* P0C recovery.                                                           *)

\* The business-session id a worker stamps on its intents is drawn when it
\* starts, whatever it resumes.
SessionOf(g) == g

\* load_scoped_nonterminal_intents with strict_lineage_only.
Scoped(g) ==
    {a \in Nonterminal :
        /\ RunOfAction(a) \in {g} \union LineageOf[g]
        /\ SessionOf(RunOfAction(a)) = SessionOf(g)}

\* Two snapshots of the profile, each right, unclear or (at most one) wrong.
Snapshots(u) ==
    LET truth == IF u \in following THEN "following" ELSE "follow"
        wrong == IF u \in following THEN "follow" ELSE "following"
    IN {truth, "unknown"} \X {truth, "unknown", wrong}
         \union {truth, "unknown", wrong} \X {truth, "unknown"}

\* The last snapshot decides.
ProvesFollowByOne(seen) == seen[2] = "following"

\* decide_reconciliation for a follow: only two concordant snapshots prove it.
ProvesFollow(seen) == seen[1] = "following" /\ seen[2] = "following"

-----------------------------------------------------------------------------
(* Receipt replay.                                                         *)

Min2(m, n) == IF m < n THEN m ELSE n

\* load_all_nonterminal_intents: the first intents by path, before any filter.
\* Paths are made of random ids, so they may be any.
Loaded(limit) == {S \in SUBSET Nonterminal :
                    Cardinality(S) = Min2(limit, Cardinality(Nonterminal))}

\* Everything whose tap may have happened.
ReplayableStarted(S, runs) == {a \in S : stage[a] \in Started /\ RunOfAction(a) \in runs}

\* replay_verified_receipts: those it persists again.
Replayable(S, runs) == {a \in S : stage[a] = "verified" /\ RunOfAction(a) \in runs}

-----------------------------------------------------------------------------
JournalTypeOK ==
    /\ stage \in [Actions -> Stages]
    /\ counted \subseteq Actions
    /\ following \subseteq Users
=============================================================================
