-------------------------- MODULE ProjectionOutbox --------------------------
(***************************************************************************)
(* The durable outbox of secondary projections (deferred_projection_       *)
(* outbox): a SQLite table filled by a worker's spools and drained by the  *)
(* dispatcher's loop, one drain at a time.                                 *)
(*                                                                         *)
(* A record is a projection and the spool that wrote it; the records of    *)
(* one spool share their creation time.                                    *)
(***************************************************************************)
EXTENDS FiniteSets, Naturals

CONSTANTS
    Items,        \* the projections
    NoRecord,
    BatchLimit,   \* records a drain claims
    MaxAttempts,  \* failures after which a record is dead
    MaxFaults     \* bound: drains cut short by a crash or a locked database

ASSUME OutboxAssumption ==
    /\ NoRecord \notin Items \X {"main", "stop"}
    /\ {BatchLimit, MaxAttempts} \subseteq Nat \ {0}
    /\ MaxFaults \in Nat

VARIABLES
    row,          \* the state of each record
    attempts,     \* its failed replays
    lapsed,       \* the records whose claim has run out
    delivered,    \* the projections the database has
    disp,         \* where the dispatcher is
    claimed,      \* the records its drain has still to replay
    replayed,     \* the record whose replay has just succeeded
    faults

tableVars == <<row, attempts, lapsed, delivered>>
drainVars == <<disp, claimed, replayed, faults>>
outboxVars == <<tableVars, drainVars>>

Records == Items \X {"main", "stop"}
ItemOf(r) == r[1]

Pending == {r \in Records : row[r] = "pending"}
Open == {r \in Records : row[r] \in {"pending", "processing"}}

OutboxInit ==
    /\ row = [r \in Records |-> "absent"]
    /\ attempts = [r \in Records |-> 0]
    /\ lapsed = {} /\ delivered = {}
    /\ disp = "loop" /\ claimed = {} /\ replayed = NoRecord /\ faults = 0

SetRows(S, s) == row' = [r \in Records |-> IF r \in S THEN s ELSE row[r]]

\* enqueue, for the records of one spool: one transaction.
Enqueue(S) ==
    /\ SetRows(S, "pending")
    /\ UNCHANGED <<attempts, lapsed, delivered, drainVars>>

\* The main thread's spool is the earlier one.
Older(r, q) == r[2] = "main" /\ q[2] = "stop"

\* Only pending records are looked at.
ClaimablePending == Pending

\* _claim takes back what an earlier drain left beyond its lease.
Claimable == Pending \union {r \in lapsed : row[r] = "processing"}

\* The oldest records, up to the limit.
Batches ==
    {S \in SUBSET Claimable :
        /\ \/ Cardinality(S) = BatchLimit
           \/ Cardinality(S) < BatchLimit /\ S = Claimable
        /\ \A r \in Claimable \ S, q \in S : ~Older(r, q)}

DrainClaims ==
    /\ disp = "loop"
    /\ Claimable # {}
    /\ \E S \in Batches :
          /\ row' = [r \in Records |-> IF r \in S THEN "processing"
                                       ELSE IF r \in Claimable THEN "pending"
                                       ELSE row[r]]
          /\ claimed' = S
    /\ lapsed' = {}
    /\ disp' = "drain"
    /\ UNCHANGED <<attempts, delivered, replayed, faults>>

\* The record is deleted before its replay.
ReplayDeleted(r) ==
    /\ disp = "drain"
    /\ r \in claimed
    /\ replayed = NoRecord
    /\ replayed' = r
    /\ SetRows({r}, "absent")
    /\ UNCHANGED <<attempts, lapsed, delivered, disp, claimed, faults>>

ReplaySucceeds(r) ==
    /\ disp = "drain"
    /\ r \in claimed
    /\ replayed = NoRecord
    /\ delivered' = delivered \union {ItemOf(r)}
    /\ replayed' = r
    /\ UNCHANGED <<row, attempts, lapsed, disp, claimed, faults>>

DeleteReplayed ==
    /\ disp = "drain"
    /\ replayed # NoRecord
    /\ SetRows({replayed}, "absent")
    /\ attempts' = [attempts EXCEPT ![replayed] = 0]
    /\ lapsed' = lapsed \ {replayed}
    /\ claimed' = claimed \ {replayed}
    /\ replayed' = NoRecord
    /\ UNCHANGED <<delivered, disp, faults>>

\* The call fails, or commits and loses its answer.
ReplayFails(r) ==
    /\ disp = "drain"
    /\ r \in claimed
    /\ replayed = NoRecord
    /\ delivered' \in {delivered, delivered \union {ItemOf(r)}}
    /\ attempts' = [attempts EXCEPT ![r] = @ + 1]
    /\ SetRows({r}, IF attempts[r] + 1 >= MaxAttempts THEN "dead" ELSE "pending")
    /\ lapsed' = lapsed \ {r}
    /\ claimed' = claimed \ {r}
    /\ UNCHANGED <<disp, replayed, faults>>

\* The loop goes on with the claims it has given back.
PausesClaimed ==
    /\ disp = "drain"
    /\ replayed = NoRecord
    /\ claimed # {}
    /\ SetRows(claimed, "pending")
    /\ lapsed' = lapsed \ claimed
    /\ disp' = "loop"
    /\ UNCHANGED <<attempts, delivered, claimed, replayed, faults>>

\* Its time budget is used up: the rest waits for the next drain.
DrainPauses ==
    /\ disp = "drain"
    /\ replayed = NoRecord
    /\ claimed # {}
    /\ SetRows(claimed, "pending")
    /\ lapsed' = lapsed \ claimed
    /\ claimed' = {}
    /\ disp' = "loop"
    /\ UNCHANGED <<attempts, delivered, replayed, faults>>

DrainEnds ==
    /\ disp = "drain"
    /\ claimed = {}
    /\ disp' = "loop"
    /\ UNCHANGED <<tableVars, claimed, replayed, faults>>

\* The dispatcher crashes, or its database call finds the table locked: what
\* it had claimed stays as it is.
DrainCut(p) ==
    /\ disp # "down"
    /\ faults < MaxFaults
    /\ disp' = p
    /\ claimed' = {}
    /\ replayed' = NoRecord
    /\ faults' = faults + 1
    /\ UNCHANGED tableVars

DispatcherStarts ==
    /\ disp = "down"
    /\ disp' = "loop"
    /\ UNCHANGED <<tableVars, claimed, replayed, faults>>

LeaseLapses(r) ==
    /\ row[r] = "processing"
    /\ r \notin lapsed
    /\ lapsed' = lapsed \union {r}
    /\ UNCHANGED <<row, attempts, delivered, drainVars>>

DrainNext ==
    \/ DrainClaims \/ DeleteReplayed \/ DrainPauses \/ DrainEnds
    \/ DrainCut("loop") \/ DrainCut("down") \/ DispatcherStarts
    \/ \E r \in Records : ReplaySucceeds(r) \/ ReplayFails(r) \/ LeaseLapses(r)

\* The loop comes round again, each of its calls ends, and time goes on.
DrainFairness ==
    /\ WF_outboxVars(DrainClaims)
    /\ WF_outboxVars(DeleteReplayed)
    /\ WF_outboxVars(DrainEnds)
    /\ WF_outboxVars(DispatcherStarts)
    /\ SF_outboxVars(\E r \in Records : ReplaySucceeds(r) \/ ReplayFails(r))
    /\ \A r \in Records : WF_outboxVars(LeaseLapses(r))

OutboxTypeOK ==
    /\ row \in [Records -> {"absent", "pending", "processing", "dead"}]
    /\ attempts \in [Records -> 0..MaxAttempts]
    /\ lapsed \subseteq {r \in Records : row[r] = "processing"}
    /\ delivered \subseteq Items
    /\ disp \in {"loop", "drain", "down"}
    /\ claimed \subseteq {r \in Records : row[r] = "processing"}
    /\ replayed \in claimed \union {NoRecord}
    /\ faults \in 0..MaxFaults
=============================================================================
