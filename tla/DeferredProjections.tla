------------------------ MODULE DeferredProjections ------------------------
(***************************************************************************)
(* The secondary projections of one worker: queued in memory by its main   *)
(* thread, flushed by a background thread, spooled to the outbox when the  *)
(* run ends, by the terminal publication or by the handler of a stop       *)
(* signal, and replayed by the dispatcher.                                 *)
(*                                                                         *)
(* The queues are sets: no property depends on their order.                *)
(***************************************************************************)
EXTENDS ProjectionOutbox

CONSTANTS
    Steps,        \* the projections the background thread may flush
    NoItem

ASSUME QueueAssumption == Steps \subseteq Items /\ NoItem \notin Items

VARIABLES
    queue,        \* the projections in memory
    deferred,     \* those that were ever queued
    flusher,      \* the background thread
    held,         \* the projection whose call it is in
    pc,           \* where the main thread is
    handler,      \* where the signal handler on top of it is
    records,      \* what the main thread's spool has seen
    stopRecords,  \* what the handler's spool has seen
    faulted       \* the spool failed, or the process was cut short

memoryVars == <<queue, deferred, flusher, held>>
spoolVars == <<pc, handler, records, stopRecords>>
workerVars == <<memoryVars, spoolVars, faulted>>
vars == <<outboxVars, workerVars>>

Alive == pc # "down"
MainRuns == Alive /\ handler = "off"

Init ==
    /\ OutboxInit
    /\ queue = {} /\ deferred = {} /\ flusher = "off" /\ held = NoItem
    /\ pc = "work" /\ handler = "off" /\ records = {} /\ stopRecords = {}
    /\ faulted = FALSE

-----------------------------------------------------------------------------
(* The queues.                                                             *)

Defer(i) ==
    /\ MainRuns
    /\ pc = "work"
    /\ i \notin deferred
    /\ queue' = queue \union {i}
    /\ deferred' = deferred \union {i}
    /\ UNCHANGED <<outboxVars, flusher, held, spoolVars, faulted>>

StartFlush ==
    /\ MainRuns
    /\ pc = "work"
    /\ flusher = "off"
    /\ queue \intersect Steps # {}
    /\ flusher' = "on"
    /\ UNCHANGED <<outboxVars, queue, deferred, held, spoolVars, faulted>>

Pop(i) ==
    /\ Alive
    /\ flusher = "on"
    /\ held = NoItem
    /\ i \in queue \intersect Steps
    /\ queue' = queue \ {i}
    /\ held' = i
    /\ UNCHANGED <<outboxVars, deferred, flusher, spoolVars, faulted>>

CallSucceeds ==
    /\ Alive
    /\ held # NoItem
    /\ delivered' = delivered \union {held}
    /\ held' = NoItem
    /\ UNCHANGED <<row, attempts, lapsed, drainVars, queue, deferred, flusher, spoolVars, faulted>>

\* The step goes back to the queue and the thread ends.
CallFails ==
    /\ Alive
    /\ held # NoItem
    /\ delivered' \in {delivered, delivered \union {held}}
    /\ queue' = queue \union {held}
    /\ held' = NoItem
    /\ flusher' = "off"
    /\ UNCHANGED <<row, attempts, lapsed, drainVars, deferred, spoolVars, faulted>>

FlushEnds ==
    /\ Alive
    /\ flusher = "on"
    /\ held = NoItem
    /\ queue \intersect Steps = {}
    /\ flusher' = "off"
    /\ UNCHANGED <<outboxVars, queue, deferred, held, spoolVars, faulted>>

-----------------------------------------------------------------------------
(* The terminal publication.                                               *)

Main(from, to) ==
    /\ MainRuns
    /\ pc = from
    /\ pc' = to
    /\ UNCHANGED <<deferred, flusher, held, handler, stopRecords>>

\* Nothing queued, nothing to spool.
Finish ==
    /\ Main("work", IF queue = {} THEN "done" ELSE "snapshot")
    /\ UNCHANGED <<outboxVars, queue, records, faulted>>

\* The queues are emptied when they are read.
SnapshotClears ==
    /\ Main("snapshot", "insert")
    /\ records' = queue
    /\ queue' = {}
    /\ UNCHANGED <<outboxVars, faulted>>

Snapshot ==
    /\ Main("snapshot", "insert")
    /\ records' = queue
    /\ UNCHANGED <<outboxVars, queue, faulted>>

CommitSpool ==
    /\ Main("insert", "clear")
    /\ Enqueue(records \X {"main"})
    /\ UNCHANGED <<queue, records, faulted>>

\* A spool that fails empties the queues all the same.
SpoolFails ==
    /\ Main("insert", "done")
    /\ queue' = {}
    /\ faulted' = TRUE
    /\ UNCHANGED <<outboxVars, records>>

ClearQueues ==
    /\ Main("clear", "done")
    /\ queue' = {}
    /\ UNCHANGED <<outboxVars, records, faulted>>

\* The process is gone, with its memory, its threads and its transaction.
Gone ==
    /\ pc' = "down"
    /\ handler' = "off"
    /\ queue' = {}
    /\ flusher' = "off"
    /\ held' = NoItem
    /\ records' = {} /\ stopRecords' = {}
    /\ UNCHANGED <<outboxVars, deferred>>

Exits ==
    /\ MainRuns
    /\ pc = "done"
    /\ Gone
    /\ UNCHANGED faulted

Killed ==
    /\ Alive
    /\ Gone
    /\ faulted' = TRUE

-----------------------------------------------------------------------------
(* The stop signal: the handler runs on the main thread.                   *)

Handler(from, to) ==
    /\ Alive
    /\ handler = from
    /\ handler' = to
    /\ UNCHANGED <<deferred, flusher, held, pc, records>>

StopSignal ==
    /\ Handler("off", "snapshot")
    /\ UNCHANGED <<outboxVars, queue, stopRecords, faulted>>

\* It interrupts the main thread inside the queue lock, which it then waits
\* for itself.
StopSignalInLock ==
    /\ pc \in {"work", "snapshot", "clear"}
    /\ Handler("off", "stuck")
    /\ faulted' = TRUE
    /\ UNCHANGED <<outboxVars, queue, stopRecords>>

StopSnapshot ==
    /\ Handler("snapshot", "insert")
    /\ stopRecords' = queue
    /\ UNCHANGED <<outboxVars, queue, faulted>>

\* The transaction it interrupted, if one was open, is never committed; it may
\* also lock the table, and the spool fails.
StopCommits ==
    /\ Handler("insert", "clear")
    /\ Enqueue(stopRecords \X {"stop"})
    /\ UNCHANGED <<queue, stopRecords, faulted>>

StopSpoolFails ==
    /\ Handler("insert", "exit")
    /\ faulted' = TRUE
    /\ UNCHANGED <<outboxVars, queue, stopRecords>>

StopClears ==
    /\ Handler("clear", "exit")
    /\ queue' = {}
    /\ UNCHANGED <<outboxVars, stopRecords, faulted>>

StopExits ==
    /\ Alive
    /\ handler = "exit"
    /\ Gone
    /\ UNCHANGED faulted

-----------------------------------------------------------------------------
QueueNext ==
    \/ \E i \in Items : Defer(i) \/ Pop(i)
    \/ StartFlush \/ CallSucceeds \/ CallFails \/ FlushEnds

SpoolNext ==
    \/ Finish \/ Snapshot \/ CommitSpool \/ SpoolFails \/ ClearQueues
    \/ Exits \/ Killed

StopNext ==
    \/ StopSignal \/ StopSignalInLock \/ StopSnapshot \/ StopCommits
    \/ StopSpoolFails \/ StopClears \/ StopExits

Next ==
    \/ DrainNext /\ UNCHANGED workerVars
    \/ QueueNext \/ SpoolNext \/ StopNext

Spec == Init /\ [][Next]_vars

\* Only the dispatcher has to go on: the worker may hang or end anywhere.
FairSpec == Spec /\ DrainFairness

-----------------------------------------------------------------------------
(* Properties.                                                             *)

\* Every variable keeps its type; a claim is in the table before it is in a
\* drain's hands.
ProjectionTypeOK ==
    /\ OutboxTypeOK
    /\ queue \subseteq deferred
    /\ deferred \subseteq Items
    /\ flusher \in {"off", "on"}
    /\ held \in (deferred \intersect Steps) \union {NoItem}
    /\ pc \in {"work", "snapshot", "insert", "clear", "done", "down"}
    /\ handler \in {"off", "snapshot", "insert", "clear", "exit", "stuck"}
    /\ records \subseteq deferred /\ stopRecords \subseteq deferred
    /\ faulted \in BOOLEAN

\* The projections that are neither delivered nor kept in the outbox.
Lost == {i \in deferred \ delivered : \A r \in Records : ItemOf(r) = i => row[r] = "absent"}

\* A worker that ends in order, by itself or by a stop signal, loses at most
\* the one projection its background thread was calling for.
OrderlyEndLosesAtMostOne == pc = "down" /\ ~faulted => Cardinality(Lost) <= 1

\* A record leaves the outbox only when its projection was delivered.
RecordsLeaveDelivered ==
    [][\A r \in Records : row[r] # "absent" /\ row'[r] = "absent" =>
          ItemOf(r) \in delivered]_vars

\* Every spooled record is replayed until it is delivered or dead, also after
\* a drain that died with its claims.
SpooledSettles == \A r \in Records : r \in Open ~> r \notin Open
=============================================================================
