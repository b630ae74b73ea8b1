---------------------------- MODULE StageOutbox ----------------------------
(***************************************************************************)
(* The outbox of post-follow stage receipts (post_follow_stage_outbox):    *)
(* each stage verified on the phone is a local row of its action's group,  *)
(* a composite RPC delivers the group, a second one acknowledges a         *)
(* completed cycle, and only then are the rows deleted.                    *)
(*                                                                         *)
(* The two mute stages, which only count together, are one.  The like      *)
(* stage, which no decision needs, and the delivery status of a row, which *)
(* no reader looks at, are left out.                                       *)
(***************************************************************************)
EXTENDS FollowJournal

VARIABLES
    rows,         \* the journaled stages of each action
    delivered,    \* the stages of each action that the database has
    acked         \* the actions in the completed-cycle ledger

outboxVars == <<rows, delivered, acked>>

Mutes == "mutes_verified"
ReturnCT == "return_ct_exact"
PostStages == {Mutes, ReturnCT}

OutboxInit ==
    /\ rows = [a \in Actions |-> {}]
    /\ delivered = [a \in Actions |-> {}]
    /\ acked = {}

\* journal_stage, for some verified stages: insert or ignore.
JournalStages(a, S) ==
    /\ rows' = [rows EXCEPT ![a] = @ \union S]
    /\ UNCHANGED <<delivered, acked>>

\* The groups flush_pending takes: the binding's control id is the run id, so
\* the groups of any other run are history to it.
Groups(g) == {a \in Actions : RunOfAction(a) = g /\ rows[a] # {}}

CycleReady(a) == PostStages \subseteq rows[a]

\* persist_follow60_post_follow_v3.
Deliver(a) ==
    /\ delivered' = [delivered EXCEPT ![a] = @ \union rows[a]]
    /\ UNCHANGED <<rows, acked>>

\* ack_follow60_completed_cycle_v2.
AckCycle(a) ==
    /\ acked' = acked \union {a}
    /\ UNCHANGED <<rows, delivered>>

\* _delete_confirmed.
DeleteGroup(a) ==
    /\ rows' = [rows EXCEPT ![a] = {}]
    /\ UNCHANGED <<delivered, acked>>

OutboxTypeOK ==
    /\ rows \in [Actions -> SUBSET PostStages]
    /\ delivered \in [Actions -> SUBSET PostStages]
    /\ acked \subseteq Actions
=============================================================================
