---------------------- MODULE DeferredProjections_proofs ----------------------
(***************************************************************************)
(* What the deferred projections guarantee for any projections and bounds: *)
(* types, that a record leaves the outbox only when it was delivered, and  *)
(* that a worker which ends in order loses at most one projection.         *)
(***************************************************************************)
EXTENDS DeferredProjections, FiniteSetTheorems, TLAPS

\* A record has not failed too often while it is open, and not at all before
\* it exists; only a drain holds claims; a replayed record is delivered.
TableInv ==
    /\ \A r \in Records :
         /\ row[r] \in {"pending", "processing"} => attempts[r] < MaxAttempts
         /\ row[r] = "absent" => attempts[r] = 0
    /\ disp # "drain" => claimed = {} /\ replayed = NoRecord
    /\ replayed # NoRecord => ItemOf(replayed) \in delivered

\* Each of the two spools has written nothing before it commits.
Unspooled(k) == \A r \in Records : r[2] = k => row[r] = "absent"

SpoolInv ==
    /\ pc \in {"work", "snapshot", "insert"} => Unspooled("main")
    /\ pc # "down" /\ handler \in {"off", "snapshot", "insert", "stuck"} => Unspooled("stop")

TypeInv == ProjectionTypeOK /\ TableInv /\ SpoolInv

LEMMA TypeInvInit == Init => TypeInv
<1> SUFFICES ASSUME Init PROVE TypeInv
  OBVIOUS
<1>1. MaxAttempts \in Nat /\ MaxFaults \in Nat
  BY OutboxAssumption
<1>2. OutboxTypeOK
  BY <1>1 DEF Init, OutboxInit, OutboxTypeOK
<1>3. TableInv
  BY DEF Init, OutboxInit, TableInv
<1>4. SpoolInv
  BY DEF Init, OutboxInit, SpoolInv, Unspooled
<1> QED
  BY <1>2, <1>3, <1>4 DEF Init, TypeInv, ProjectionTypeOK

-----------------------------------------------------------------------------
(* The drain.                                                              *)

LEMMA DrainStep ==
  ASSUME TypeInv, DrainNext, UNCHANGED workerVars
  PROVE  TypeInv'
<1> USE OutboxAssumption
    DEF TypeInv, ProjectionTypeOK, OutboxTypeOK, TableInv, SpoolInv, Unspooled, SetRows,
        workerVars, memoryVars, spoolVars, Records
<1>1. CASE DrainClaims
  <2>1. PICK S \in Batches :
           /\ row' = [r \in Records |-> IF r \in S THEN "processing"
                                        ELSE IF r \in Claimable THEN "pending"
                                        ELSE row[r]]
           /\ claimed' = S
    BY <1>1 DEF DrainClaims
  <2>2. S \subseteq Claimable /\ \A r \in Claimable : row[r] \in {"pending", "processing"}
    BY <2>1 DEF Batches, Claimable, Pending
  <2>3. UNCHANGED <<attempts, delivered, replayed, faults>> /\ lapsed' = {} /\ disp' = "drain"
        /\ disp = "loop"
    BY <1>1 DEF DrainClaims
  <2>4. claimed' \subseteq {r \in Records : row'[r] = "processing"}
    BY <2>1, <2>2 DEF Claimable, Pending
  <2>5. \A r \in Records : /\ row'[r] \in {"absent", "pending", "processing", "dead"}
                           /\ row'[r] = row[r] \/ {row'[r], row[r]} \subseteq {"pending", "processing"}
    BY <2>1, <2>2
  <2>6. row' \in [Records -> {"absent", "pending", "processing", "dead"}]
    BY <2>1, <2>5
  <2>7. OutboxTypeOK'
    BY <2>3, <2>4, <2>6
  <2>8. TableInv'
    BY <2>3, <2>5
  <2>9. SpoolInv'
    BY <2>5
  <2> QED
    BY <2>7, <2>8, <2>9
<1>2. CASE DeleteReplayed
  BY <1>2 DEF DeleteReplayed
<1>3. CASE DrainPauses
  BY <1>3 DEF DrainPauses
<1>4. CASE DrainEnds \/ DispatcherStarts
  BY <1>4 DEF DrainEnds, DispatcherStarts, tableVars
<1>5. ASSUME NEW p \in {"loop", "down"}, DrainCut(p) PROVE TypeInv'
  BY <1>5 DEF DrainCut, tableVars
<1>6. ASSUME NEW r \in Records, ReplaySucceeds(r) PROVE TypeInv'
  BY <1>6 DEF ReplaySucceeds, ItemOf
<1>7. ASSUME NEW r \in Records, ReplayFails(r) PROVE TypeInv'
  BY <1>7 DEF ReplayFails, ItemOf
<1>8. ASSUME NEW r \in Records, LeaseLapses(r) PROVE TypeInv'
  BY <1>8 DEF LeaseLapses, drainVars
<1> QED
  BY <1>1, <1>2, <1>3, <1>4, <1>5, <1>6, <1>7, <1>8 DEF DrainNext

-----------------------------------------------------------------------------
(* The worker.                                                             *)

\* A spool over records that do not exist yet.
LEMMA EnqueueStep ==
  ASSUME OutboxTypeOK, TableInv, NEW S \in SUBSET Records, Enqueue(S),
         \A r \in S : row[r] = "absent"
  PROVE  /\ OutboxTypeOK'
         /\ TableInv'
         /\ \A r \in Records \ S : row'[r] = row[r]
  BY OutboxAssumption DEF OutboxTypeOK, TableInv, Enqueue, SetRows, drainVars

LEMMA QuietOutbox ==
  ASSUME OutboxTypeOK, TableInv, UNCHANGED outboxVars
  PROVE  OutboxTypeOK' /\ TableInv' /\ row' = row
  BY DEF OutboxTypeOK, TableInv, outboxVars, tableVars, drainVars

LEMMA QueueStep ==
  ASSUME TypeInv, QueueNext
  PROVE  TypeInv'
<1> USE OutboxAssumption, QueueAssumption
    DEF TypeInv, ProjectionTypeOK, SpoolInv, Unspooled, spoolVars, Alive, MainRuns
<1>1. ASSUME NEW i \in Items, Defer(i) PROVE TypeInv'
  BY <1>1, QuietOutbox DEF Defer
<1>2. ASSUME NEW i \in Items, Pop(i) PROVE TypeInv'
  BY <1>2, QuietOutbox DEF Pop
<1>3. CASE StartFlush
  BY <1>3, QuietOutbox DEF StartFlush
<1>4. CASE CallSucceeds
  BY <1>4 DEF CallSucceeds, OutboxTypeOK, TableInv, drainVars
<1>5. CASE CallFails
  BY <1>5 DEF CallFails, OutboxTypeOK, TableInv, drainVars
<1>6. CASE FlushEnds
  BY <1>6, QuietOutbox DEF FlushEnds
<1> QED
  BY <1>1, <1>2, <1>3, <1>4, <1>5, <1>6 DEF QueueNext

LEMMA SpoolStep ==
  ASSUME TypeInv, SpoolNext
  PROVE  TypeInv'
<1> USE DEF TypeInv, ProjectionTypeOK, SpoolInv, Unspooled, Main, MainRuns, Alive
<1>1. CASE Finish
  BY <1>1, QuietOutbox DEF Finish
<1>2. CASE Snapshot
  BY <1>2, QuietOutbox DEF Snapshot
<1>3. CASE CommitSpool
  <2> DEFINE S == records \X {"main"}
  <2>1. S \in SUBSET Records /\ (\A r \in S : row[r] = "absent") /\ Enqueue(S)
    BY <1>3 DEF CommitSpool, Records
  <2>2. OutboxTypeOK' /\ TableInv' /\ \A r \in Records \ S : row'[r] = row[r]
    BY <2>1, EnqueueStep
  <2>3. \A r \in S : r[2] = "main"
    OBVIOUS
  <2> QED
    BY <1>3, <2>2, <2>3 DEF CommitSpool
<1>4. CASE SpoolFails
  BY <1>4, QuietOutbox DEF SpoolFails
<1>5. CASE ClearQueues
  BY <1>5, QuietOutbox DEF ClearQueues
<1>6. CASE Exits \/ Killed
  BY <1>6, QuietOutbox DEF Exits, Killed, Gone
<1> QED
  BY <1>1, <1>2, <1>3, <1>4, <1>5, <1>6 DEF SpoolNext

LEMMA StopStep ==
  ASSUME TypeInv, StopNext
  PROVE  TypeInv'
<1> USE DEF TypeInv, ProjectionTypeOK, SpoolInv, Unspooled, Handler, Alive
<1>1. CASE StopSignal
  BY <1>1, QuietOutbox DEF StopSignal
<1>2. CASE StopSignalInLock
  BY <1>2, QuietOutbox DEF StopSignalInLock
<1>3. CASE StopSnapshot
  BY <1>3, QuietOutbox DEF StopSnapshot
<1>4. CASE StopCommits
  <2> DEFINE S == stopRecords \X {"stop"}
  <2>1. S \in SUBSET Records /\ (\A r \in S : row[r] = "absent") /\ Enqueue(S)
    BY <1>4 DEF StopCommits, Records
  <2>2. OutboxTypeOK' /\ TableInv' /\ \A r \in Records \ S : row'[r] = row[r]
    BY <2>1, EnqueueStep
  <2>3. \A r \in S : r[2] = "stop"
    OBVIOUS
  <2> QED
    BY <1>4, <2>2, <2>3 DEF StopCommits
<1>5. CASE StopSpoolFails
  BY <1>5, QuietOutbox DEF StopSpoolFails
<1>6. CASE StopClears
  BY <1>6, QuietOutbox DEF StopClears
<1>7. CASE StopExits
  BY <1>7, QuietOutbox DEF StopExits, Gone
<1> QED
  BY <1>1, <1>2, <1>3, <1>4, <1>5, <1>6, <1>7 DEF StopNext

LEMMA TypeInvStep == TypeInv /\ [Next]_vars => TypeInv'
<1> SUFFICES ASSUME TypeInv, [Next]_vars PROVE TypeInv'
  OBVIOUS
<1>1. CASE UNCHANGED vars
  BY <1>1 DEF vars, outboxVars, tableVars, drainVars, workerVars, memoryVars, spoolVars,
     TypeInv, ProjectionTypeOK, OutboxTypeOK, TableInv, SpoolInv, Unspooled
<1> QED
  BY <1>1, DrainStep, QueueStep, SpoolStep, StopStep DEF Next

\* The inductive invariant behind the types.
THEOREM ProjectionInvariant == Spec => []TypeInv
  BY TypeInvInit, TypeInvStep, PTL DEF Spec

\* Queues, spools and outbox keep their types, whatever signals, crashes and
\* drains interleave: no record fails more often than its limit, and no drain
\* holds a record that is not marked as claimed.
THEOREM ProjectionTypes == Spec => []ProjectionTypeOK
<1>1. TypeInv => ProjectionTypeOK
  BY DEF TypeInv
<1> QED
  BY <1>1, ProjectionInvariant, PTL
-----------------------------------------------------------------------------
(* Records leave when they are delivered.                                  *)

LeaveStep == \A r \in Records : row[r] # "absent" /\ row'[r] = "absent" => ItemOf(r) \in delivered

LEMMA LeaveLemma == TypeInv /\ [Next]_vars => LeaveStep
<1> SUFFICES ASSUME TypeInv, [Next]_vars, NEW r \in Records, row[r] # "absent", row'[r] = "absent"
             PROVE  ItemOf(r) \in delivered
  BY DEF LeaveStep
<1> USE DEF TypeInv, ProjectionTypeOK, OutboxTypeOK, SetRows
<1>1. CASE DrainNext
  <2>1. CASE DeleteReplayed
    BY <2>1 DEF DeleteReplayed, TableInv
  <2>2. CASE DrainClaims
    BY <2>2 DEF DrainClaims
  <2> QED
    BY <1>1, <2>1, <2>2 DEF DrainNext, DrainPauses, DrainEnds, DrainCut, DispatcherStarts,
       ReplaySucceeds, ReplayFails, LeaseLapses, tableVars
<1>2. row' = row \/ \E S \in SUBSET Records : Enqueue(S) \/ DrainNext
  BY DEF Next, QueueNext, SpoolNext, StopNext, vars, outboxVars, tableVars, Main, Handler, Gone,
     Defer, StartFlush, Pop, CallSucceeds, CallFails, FlushEnds, Finish, Snapshot, CommitSpool,
     SpoolFails, ClearQueues, Exits, Killed, StopSignal, StopSignalInLock, StopSnapshot,
     StopCommits, StopSpoolFails, StopClears, StopExits, Records
<1> QED
  BY <1>1, <1>2 DEF Enqueue

\* The outbox deletes a record after its replay succeeded, never before and
\* never in its place, whatever leases lapse and drains are cut short.
THEOREM ProjectionRecordsLeave == Spec => RecordsLeaveDelivered
<1>1. TypeInv /\ [Next]_vars => [LeaveStep]_vars
  BY LeaveLemma
<1> QED
  BY <1>1, ProjectionInvariant, PTL DEF Spec, RecordsLeaveDelivered, LeaveStep

-----------------------------------------------------------------------------
(***************************************************************************)
(* What a worker that ends in order loses.  Until somebody empties the     *)
(* queues, what is neither queued nor delivered is the projection the      *)
(* background thread calls for; a snapshot misses that one, which comes    *)
(* back to a queue that is about to be emptied, or to nobody.              *)
(***************************************************************************)
Undelivered == deferred \ delivered

AtMostOne(S) == \E x : S \subseteq {x}

QueueHolds ==
    pc \in {"work", "snapshot", "insert", "clear"} /\ handler # "exit"
      => Undelivered \subseteq queue \union {held}

MainSnapshotHolds == pc = "insert" => AtMostOne(Undelivered \ records)

MainSpoolHolds == pc \in {"clear", "done"} => AtMostOne(Lost)

StopSnapshotHolds ==
    pc # "down" /\ handler = "insert" => AtMostOne(Undelivered \ stopRecords) \/ AtMostOne(Lost)

StopSpoolHolds == pc # "down" /\ handler \in {"clear", "exit"} => AtMostOne(Lost)

EndHolds == pc = "down" => AtMostOne(Lost)

LossInv ==
    ~faulted => /\ QueueHolds
                /\ MainSnapshotHolds
                /\ MainSpoolHolds
                /\ StopSnapshotHolds
                /\ StopSpoolHolds
                /\ EndHolds

LEMMA Shrinks ==
  ASSUME NEW S, NEW T, T \subseteq S, AtMostOne(S)
  PROVE  AtMostOne(T)
  BY DEF AtMostOne

LEMMA OneHeld ==
  ASSUME NEW S, NEW T, NEW x, S \subseteq T \union {x}
  PROVE  AtMostOne(S \ T)
<1>1. S \ T \subseteq {x}
  OBVIOUS
<1> QED
  BY <1>1 DEF AtMostOne

\* No step of an ended or running system loses what the outbox has.
LEMMA LostShrinks ==
  ASSUME TypeInv, [Next]_vars, deferred' = deferred
  PROVE  Lost' \subseteq Lost /\ delivered \subseteq delivered'
<1>1. delivered \subseteq delivered'
  <2>1. CASE DrainNext
    BY <2>1 DEF DrainNext, DrainClaims, DeleteReplayed, DrainPauses, DrainEnds, DrainCut,
       DispatcherStarts, ReplaySucceeds, ReplayFails, LeaseLapses, tableVars
  <2> QED
    BY <2>1 DEF Next, QueueNext, SpoolNext, StopNext, vars, outboxVars, tableVars, Main, Handler,
     Gone, Defer, StartFlush, Pop, CallSucceeds, CallFails, FlushEnds, Finish, Snapshot,
     CommitSpool, SpoolFails, ClearQueues, Exits, Killed, StopSignal, StopSignalInLock,
     StopSnapshot, StopCommits, StopSpoolFails, StopClears, StopExits, Enqueue
<1>2. LeaveStep
  BY LeaveLemma
<1> QED
  BY <1>1, <1>2 DEF Lost, LeaveStep

LEMMA CommitLoses ==
  ASSUME TypeInv, NEW S \in SUBSET deferred, NEW k \in {"main", "stop"}, Enqueue(S \X {k}),
         AtMostOne(Undelivered \ S), UNCHANGED deferred
  PROVE  AtMostOne(Lost')
<1>1. \A i \in S : <<i, k>> \in Records /\ row'[<<i, k>>] = "pending" /\ ItemOf(<<i, k>>) = i
  BY DEF Enqueue, SetRows, Records, ItemOf, TypeInv, ProjectionTypeOK
<1>2. Lost' \subseteq Undelivered \ S
  BY <1>1 DEF Lost, Undelivered, Enqueue
<1> QED
  BY <1>2, Shrinks

LEMMA LossInvInit == Init => LossInv
  BY DEF Init, OutboxInit, LossInv, QueueHolds, MainSnapshotHolds, MainSpoolHolds,
     StopSnapshotHolds, StopSpoolHolds, EndHolds, Undelivered

LEMMA LossInvStep == TypeInv /\ TypeInv' /\ LossInv /\ [Next]_vars => LossInv'
<1> SUFFICES ASSUME TypeInv, TypeInv', LossInv, [Next]_vars, ~faulted, ~faulted'
             PROVE  /\ QueueHolds'
                    /\ MainSnapshotHolds'
                    /\ MainSpoolHolds'
                    /\ StopSnapshotHolds'
                    /\ StopSpoolHolds'
                    /\ EndHolds'
  <2> DEFINE Stays == faulted' = faulted \/ faulted' = TRUE
  <2>1. QueueNext => Stays
    BY DEF QueueNext, Defer, StartFlush, Pop, CallSucceeds, CallFails, FlushEnds
  <2>2. SpoolNext => Stays
    BY DEF SpoolNext, Finish, Snapshot, CommitSpool, SpoolFails, ClearQueues, Exits, Killed
  <2>3. StopNext => Stays
    BY DEF StopNext, StopSignal, StopSignalInLock, StopSnapshot, StopCommits, StopSpoolFails,
       StopClears, StopExits
  <2>4. UNCHANGED workerVars => Stays
    BY DEF workerVars
  <2>5. [Next]_vars => Stays
    BY <2>1, <2>2, <2>3, <2>4 DEF Next, vars
  <2>6. [Next]_vars /\ ~faulted' => ~faulted
    BY <2>5
  <2> QED
    BY <2>6 DEF LossInv
<1> DEFINE Goal == /\ QueueHolds'
                   /\ MainSnapshotHolds'
                   /\ MainSpoolHolds'
                   /\ StopSnapshotHolds'
                   /\ StopSpoolHolds'
                   /\ EndHolds'
<1>old. QueueHolds /\ MainSnapshotHolds /\ MainSpoolHolds /\ StopSnapshotHolds /\ StopSpoolHolds
        /\ EndHolds
  BY DEF LossInv
\* Where the worker's places stay, only QueueHolds is left to show.
<1>stay. ASSUME UNCHANGED <<pc, handler, records, stopRecords, deferred>>, QueueHolds'
         PROVE  Goal
  <2>1. Lost' \subseteq Lost /\ delivered \subseteq delivered'
    BY <1>stay, LostShrinks
  <2>2. /\ (Undelivered \ records)' \subseteq Undelivered \ records
        /\ (Undelivered \ stopRecords)' \subseteq Undelivered \ stopRecords
    BY <1>stay, <2>1 DEF Undelivered
  <2>3. AtMostOne(Lost) => AtMostOne(Lost')
    BY <2>1, Shrinks
  <2>4. /\ AtMostOne(Undelivered \ records) => AtMostOne((Undelivered \ records)')
        /\ AtMostOne(Undelivered \ stopRecords) => AtMostOne((Undelivered \ stopRecords)')
    BY <2>2, Shrinks
  <2>5. MainSnapshotHolds' /\ MainSpoolHolds' /\ EndHolds'
    BY <1>stay, <1>old, <2>3, <2>4 DEF MainSnapshotHolds, MainSpoolHolds, EndHolds
  <2>6. StopSnapshotHolds' /\ StopSpoolHolds'
    BY <1>stay, <1>old, <2>3, <2>4 DEF StopSnapshotHolds, StopSpoolHolds
  <2> QED
    BY <1>stay, <2>5, <2>6
<1>1. ASSUME UNCHANGED workerVars PROVE Goal
  <2>1. UNCHANGED <<pc, handler, records, stopRecords, deferred, queue, held>>
    BY <1>1 DEF workerVars, memoryVars, spoolVars
  <2>2. QueueHolds'
    BY <1>old, <2>1, LostShrinks DEF QueueHolds, Undelivered
  <2> QED
    BY <1>stay, <2>1, <2>2
<1>2. ASSUME NEW i \in Items, Defer(i) PROVE Goal
  <2>1. pc = "work" /\ handler = "off" /\ pc' = pc /\ handler' = handler
    BY <1>2 DEF Defer, MainRuns, spoolVars
  <2>2. QueueHolds'
    BY <1>2, <1>old, <2>1 DEF Defer, QueueHolds, Undelivered, outboxVars, tableVars
  <2> QED
    BY <2>1, <2>2 DEF MainSnapshotHolds, MainSpoolHolds, StopSnapshotHolds, StopSpoolHolds, EndHolds
<1>3. ASSUME NEW i \in Items, Pop(i) PROVE Goal
  <2>1. UNCHANGED <<pc, handler, records, stopRecords, deferred, delivered>>
    BY <1>3 DEF Pop, spoolVars, outboxVars, tableVars
  <2>2. QueueHolds'
    BY <1>3, <1>old, <2>1, QueueAssumption
    DEF Pop, QueueHolds, Undelivered, TypeInv, ProjectionTypeOK
  <2> QED
    BY <1>stay, <2>1, <2>2
<1>4. CASE StartFlush \/ FlushEnds \/ CallSucceeds \/ CallFails
  <2>1. UNCHANGED <<pc, handler, records, stopRecords, deferred>>
    BY <1>4 DEF StartFlush, FlushEnds, CallSucceeds, CallFails, spoolVars
  <2>2. QueueHolds'
    BY <1>4, <1>old, <2>1, QueueAssumption
    DEF StartFlush, FlushEnds, CallSucceeds, CallFails, outboxVars, tableVars, QueueHolds,
        Undelivered, TypeInv, ProjectionTypeOK
  <2> QED
    BY <1>stay, <2>1, <2>2
\* The main thread steps with no handler above it.
<1>main. ASSUME NEW p, NEW q, Main(p, q)
         PROVE  handler = "off" /\ handler' = "off" /\ pc = p /\ pc' = q
                /\ UNCHANGED <<deferred, held, stopRecords>>
  BY <1>main DEF Main, MainRuns
<1>5. CASE Finish
  <2>1. queue = {} => AtMostOne(Lost')
    <3>1. Lost' \subseteq Undelivered
      BY <1>5, <1>main DEF Finish, Lost, Undelivered, outboxVars, tableVars
    <3>2. queue = {} => Undelivered \subseteq {held}
      BY <1>5, <1>main, <1>old DEF Finish, QueueHolds
    <3> QED
      BY <3>1, <3>2 DEF AtMostOne
  <2>2. handler' = "off" /\ pc' = IF queue = {} THEN "done" ELSE "snapshot"
    BY <1>5, <1>main DEF Finish
  <2>3. QueueHolds'
    BY <1>5, <1>main, <1>old, <2>2 DEF Finish, QueueHolds, Undelivered, outboxVars, tableVars
  <2> QED
    BY <2>1, <2>2, <2>3
    DEF MainSnapshotHolds, MainSpoolHolds, StopSnapshotHolds, StopSpoolHolds, EndHolds
<1>6. CASE Snapshot
  <2>1. handler' = "off" /\ pc = "snapshot" /\ pc' = "insert" /\ handler = "off"
        /\ UNCHANGED <<deferred, held, stopRecords, delivered, queue>> /\ records' = queue
    BY <1>6, <1>main DEF Snapshot, outboxVars, tableVars
  <2>2. QueueHolds'
    BY <1>old, <2>1 DEF QueueHolds, Undelivered
  <2>3. Undelivered' \subseteq records' \union {held}
    BY <1>old, <2>1 DEF QueueHolds, Undelivered
  <2>4. AtMostOne((Undelivered \ records)')
    BY <2>3, OneHeld
  <2> QED
    BY <2>1, <2>2, <2>4
    DEF MainSnapshotHolds, MainSpoolHolds, StopSnapshotHolds, StopSpoolHolds, EndHolds
<1>7. CASE CommitSpool
  <2>1. handler' = "off" /\ pc = "insert" /\ pc' = "clear" /\ handler = "off"
        /\ UNCHANGED <<deferred, held, stopRecords, delivered, queue>>
        /\ Enqueue(records \X {"main"})
    BY <1>7, <1>main DEF CommitSpool, Enqueue
  <2>2. QueueHolds'
    BY <1>old, <2>1 DEF QueueHolds, Undelivered
  <2>3. AtMostOne(Lost')
    BY <1>old, <2>1, CommitLoses DEF MainSnapshotHolds, TypeInv, ProjectionTypeOK
  <2> QED
    BY <2>1, <2>2, <2>3
    DEF MainSnapshotHolds, MainSpoolHolds, StopSnapshotHolds, StopSpoolHolds, EndHolds
<1>8. CASE ClearQueues
  <2>1. handler' = "off" /\ pc = "clear" /\ pc' = "done" /\ UNCHANGED deferred
    BY <1>8, <1>main DEF ClearQueues
  <2>2. AtMostOne(Lost')
    BY <1>old, <2>1, LostShrinks, Shrinks DEF MainSpoolHolds
  <2> QED
    BY <2>1, <2>2
    DEF QueueHolds, MainSnapshotHolds, MainSpoolHolds, StopSnapshotHolds, StopSpoolHolds, EndHolds
<1>9. CASE Exits \/ StopExits
  <2>1. pc' = "down" /\ handler' = "off" /\ UNCHANGED deferred
        /\ (pc = "done" \/ (pc # "down" /\ handler = "exit"))
    BY <1>9 DEF Exits, StopExits, Gone, MainRuns, Alive
  <2>2. AtMostOne(Lost)
    BY <1>old, <2>1 DEF MainSpoolHolds, StopSpoolHolds
  <2>3. AtMostOne(Lost')
    BY <2>1, <2>2, LostShrinks, Shrinks
  <2> QED
    BY <2>1, <2>3
    DEF QueueHolds, MainSnapshotHolds, MainSpoolHolds, StopSnapshotHolds, StopSpoolHolds, EndHolds
<1>handler. ASSUME NEW p, NEW q, Handler(p, q)
            PROVE  pc # "down" /\ handler = p /\ handler' = q
                   /\ UNCHANGED <<pc, deferred, held, records>>
  BY <1>handler DEF Handler, Alive
\* Under a step of the handler what the main thread has spooled stays.
<1>under. ASSUME UNCHANGED <<pc, deferred, records>>
          PROVE  MainSnapshotHolds' /\ MainSpoolHolds' /\ EndHolds'
  <2>1. Lost' \subseteq Lost /\ delivered \subseteq delivered'
    BY <1>under, LostShrinks
  <2>2. (Undelivered \ records)' \subseteq Undelivered \ records
    BY <1>under, <2>1 DEF Undelivered
  <2> QED
    BY <1>under, <1>old, <2>1, <2>2, Shrinks DEF MainSnapshotHolds, MainSpoolHolds, EndHolds
<1>10. CASE StopSignal
  <2>1. pc # "down" /\ handler = "off" /\ handler' = "snapshot"
        /\ UNCHANGED <<pc, deferred, held, records, delivered, queue>>
    BY <1>10, <1>handler DEF StopSignal, outboxVars, tableVars
  <2>2. QueueHolds'
    BY <1>old, <2>1 DEF QueueHolds, Undelivered
  <2> QED
    BY <1>under, <2>1, <2>2 DEF StopSnapshotHolds, StopSpoolHolds
<1>11. CASE StopSnapshot
  <2>1. pc # "down" /\ handler = "snapshot" /\ handler' = "insert"
        /\ UNCHANGED <<pc, deferred, held, records, delivered, queue>> /\ stopRecords' = queue
    BY <1>11, <1>handler DEF StopSnapshot, outboxVars, tableVars
  <2>2. QueueHolds'
    BY <1>old, <2>1 DEF QueueHolds, Undelivered
  <2>3. CASE pc = "done"
    BY <2>1, <2>2, <2>3, <1>under DEF MainSpoolHolds, StopSnapshotHolds, StopSpoolHolds
  <2>4. CASE pc # "done"
    <3>1. pc \in {"work", "snapshot", "insert", "clear"}
      BY <2>1, <2>4 DEF TypeInv, ProjectionTypeOK
    <3>2. Undelivered' \subseteq stopRecords' \union {held}
      BY <1>old, <2>1, <3>1 DEF QueueHolds, Undelivered
    <3>3. AtMostOne((Undelivered \ stopRecords)')
      BY <3>2, OneHeld
    <3> QED
      BY <2>1, <2>2, <3>3, <1>under DEF StopSnapshotHolds, StopSpoolHolds
  <2> QED
    BY <2>3, <2>4
<1>12. CASE StopCommits
  <2>1. pc # "down" /\ handler = "insert" /\ handler' = "clear"
        /\ UNCHANGED <<pc, deferred, held, records, delivered, queue>>
        /\ Enqueue(stopRecords \X {"stop"})
    BY <1>12, <1>handler DEF StopCommits, Enqueue
  <2>2. QueueHolds'
    BY <1>old, <2>1 DEF QueueHolds, Undelivered
  <2>3. AtMostOne(Lost')
    <3>1. CASE AtMostOne(Lost)
      BY <2>1, <3>1, LostShrinks, Shrinks
    <3>2. CASE AtMostOne(Undelivered \ stopRecords)
      BY <2>1, <3>2, CommitLoses DEF TypeInv, ProjectionTypeOK
    <3> QED
      BY <1>old, <2>1, <3>1, <3>2 DEF StopSnapshotHolds
  <2> QED
    BY <1>under, <2>1, <2>2, <2>3 DEF StopSnapshotHolds, StopSpoolHolds
<1>13. CASE StopClears
  <2>1. pc # "down" /\ handler = "clear" /\ handler' = "exit" /\ UNCHANGED <<pc, deferred, records>>
    BY <1>13, <1>handler DEF StopClears
  <2>2. AtMostOne(Lost')
    BY <1>old, <2>1, LostShrinks, Shrinks DEF StopSpoolHolds
  <2> QED
    BY <1>under, <2>1, <2>2 DEF QueueHolds, StopSnapshotHolds, StopSpoolHolds
<1>14. ~(SpoolFails \/ Killed \/ StopSignalInLock \/ StopSpoolFails)
  BY DEF SpoolFails, Killed, StopSignalInLock, StopSpoolFails
<1>15. CASE UNCHANGED vars
  BY <1>1, <1>15 DEF vars
<1> QED
  BY <1>1, <1>2, <1>3, <1>4, <1>5, <1>6, <1>7, <1>8, <1>9, <1>10, <1>11, <1>12, <1>13, <1>14, <1>15
  DEF Next, QueueNext, SpoolNext, StopNext

\* A worker that ends by itself or by a stop signal loses at most the one
\* projection its background thread was calling for, however many it had.
THEOREM ProjectionOrderlyEnd == Spec => []OrderlyEndLosesAtMostOne
<1>1. TypeInv /\ LossInv => OrderlyEndLosesAtMostOne
  <2> SUFFICES ASSUME LossInv, pc = "down", ~faulted PROVE Cardinality(Lost) <= 1
    BY DEF OrderlyEndLosesAtMostOne
  <2>1. PICK x : Lost \subseteq {x}
    BY DEF LossInv, EndHolds, AtMostOne
  <2>2. CASE Lost = {}
    BY <2>2, FS_EmptySet
  <2>3. CASE Lost = {x}
    <3>1. Cardinality({x}) = 1
      BY FS_Singleton
    <3> QED
      BY <2>3, <3>1
  <2> QED
    BY <2>1, <2>2, <2>3
<1> QED
  BY <1>1, LossInvInit, LossInvStep, TypeInvStep, ProjectionInvariant, PTL DEF Spec
=============================================================================
