----------------------- MODULE FollowSession_proofs -----------------------
(***************************************************************************)
(* What the Follow sessions guarantee for every set of runs and users,     *)
(* every lineage and every limit: the nine properties the run checks and   *)
(* the tally they implement.                                               *)
(*                                                                         *)
(* None of the properties is inductive alone.  TypeInv adds to the types   *)
(* that a candidate is in hand where one is used; StageInv ties the main   *)
(* thread's position, and every receipt batch already loaded, to the       *)
(* stages on disk; on these two rest the invariants of the count, of the   *)
(* outbox, of recovery and of the startup, each a lemma of its own with    *)
(* one step per action.                                                    *)
(***************************************************************************)
EXTENDS FollowSession, TLAPS, FiniteSetTheorems

Hand == {"prep", "armed", "tapped", "raised", "persist", "mark", "post",
         "return", "meta", "write", "flush", "settle", "delete"}

\* Where the main thread uses its candidate, it has one, of its own run.
InHand == pc \in Hand => cur \in Actions /\ RunOfAction(cur) = run

TypeInv == FollowTypeOK /\ InHand

\* Action ids are pairs.
LEMMA Pairs ==
  /\ \A a \in Actions : RunOfAction(a) \in Runs /\ UserOf(a) \in Users
                          /\ a = <<RunOfAction(a), UserOf(a)>>
  /\ \A g \in Runs, u \in Users :
        <<g, u>> \in Actions /\ RunOfAction(<<g, u>>) = g /\ UserOf(<<g, u>>) = u
  BY DEF Actions, RunOfAction, UserOf

\* journal_stage keeps the types of the outbox.
LEMMA JournalKeepsTypes ==
  ASSUME OutboxTypeOK, NEW a, NEW S \in SUBSET PostStages, JournalStages(a, S)
  PROVE  OutboxTypeOK'
<1>1. rows' = [b \in Actions |-> IF b = a THEN rows[b] \union S ELSE rows[b]]
  BY DEF JournalStages, OutboxTypeOK
<1>2. rows' \in [Actions -> SUBSET PostStages]
  BY <1>1 DEF OutboxTypeOK
<1> QED
  BY <1>2 DEF JournalStages, OutboxTypeOK

\* Every step keeps the types.
LEMMA TypeStep == TypeInv /\ [Next]_vars => TypeInv'
<1> SUFFICES ASSUME TypeInv, [Next]_vars PROVE TypeInv'
  OBVIOUS
<1> USE Pairs, SessionAssumption
    DEF TypeInv, FollowTypeOK, InHand, Hand, JournalTypeOK, OutboxTypeOK, WorkerSteps,
        journalVars, outboxVars, workerVars, stopVars, dispVars
<1> HIDE DEF Actions
<1>1. ASSUME NEW g \in Runs, Start(g) PROVE TypeInv'
  BY <1>1 DEF Start, Stages, Started, Terminal
<1>2. CASE WorkerEnds
  BY <1>2 DEF WorkerEnds, Gone, Leaves, Stages, Started, Terminal
<1>3. CASE LoadScoped
  BY <1>3 DEF LoadScoped, Scoped, Nonterminal
<1>4. CASE RecoveryDone
  BY <1>4 DEF RecoveryDone, Step
<1>5. ASSUME NEW a \in Actions, SettleOffline(a) PROVE TypeInv'
  BY <1>5 DEF SettleOffline, WriteStage, Stages, Started, Terminal
<1>6. ASSUME NEW a \in Actions, SettleBySnapshots(a) PROVE TypeInv'
  BY <1>6 DEF SettleBySnapshots, Counts, Persist
<1>7. ASSUME NEW u \in Users, Choose(u) PROVE TypeInv'
  BY <1>7 DEF Choose, WriteStage, Step, Stages, Started, Terminal
<1>8. CASE NextTarget
  BY <1>8 DEF NextTarget, Step
<1>9. CASE StartAttempt
  BY <1>9 DEF StartAttempt, WriteStage, Step, Stages, Started, Terminal
<1>10. CASE Tap
  BY <1>10 DEF Tap, Landing, Step
<1>11. CASE ClickRaises
  BY <1>11 DEF ClickRaises, Landing, Step
<1>12. CASE SeeFollowing
  BY <1>12 DEF SeeFollowing, WriteStage, Step, Stages, Started, Terminal
<1>13. CASE SeeUnclear
  BY <1>13 DEF SeeUnclear, Doubt, WriteStage, Step, Stages, Started, Terminal
<1>14. CASE NoTapSeen
  BY <1>14 DEF NoTapSeen, Doubt, WriteStage, Step, Stages, Started, Terminal
<1>15. CASE PersistFollow
  BY <1>15 DEF PersistFollow, Counts, Persist, Step
<1>16. CASE PersistUnconfirmed
  BY <1>16 DEF PersistUnconfirmed, Step
<1>17. CASE MarkPersisted
  BY <1>17 DEF MarkPersisted, Marks, WriteStage, Step, Stages, Started, Terminal
<1>18. CASE MuteAndJournal
  <2>1. PICK S \in SUBSET {Mutes} : JournalStages(cur, S)
    BY <1>18 DEF MuteAndJournal, Journal
  <2>2. OutboxTypeOK'
    BY <2>1, JournalKeepsTypes DEF PostStages
  <2> QED
    BY <1>18, <2>2 DEF MuteAndJournal, Journal
<1>19. CASE ReturnAndJournal
  <2>1. PICK S \in SUBSET {ReturnCT} : JournalStages(cur, S)
    BY <1>19 DEF ReturnAndJournal, Journal
  <2>2. OutboxTypeOK'
    BY <2>1, JournalKeepsTypes DEF PostStages
  <2> QED
    BY <1>19, <2>2 DEF ReturnAndJournal, Journal
<1>20. CASE ReadIntent
  BY <1>20 DEF ReadIntent, Stages, Started, Terminal
<1>21. CASE WriteIntent
  BY <1>21 DEF WriteIntent, WriteStage, Stages, Started, Terminal
<1>22. CASE FlushGroup
  BY <1>22 DEF FlushGroup, Deliver, Step
<1>23. CASE FlushNothing
  BY <1>23 DEF FlushNothing, Pass, Step
<1>24. CASE AckGroup
  BY <1>24 DEF AckGroup, AckCycle, Step
<1>25. CASE DeleteAcked
  BY <1>25 DEF DeleteAcked, DeleteGroup, Pass, Step
<1>26. CASE DeleteOpen
  BY <1>26 DEF DeleteOpen, DeleteGroup, Pass, Step
<1>27. CASE StopSignal
  BY <1>27 DEF StopSignal, Leaves, Stages, Started, Terminal
<1>28. CASE DrainLoad
  BY <1>28 DEF DrainLoad, DrainGoes, Loaded, Replayable, Nonterminal
<1>29. CASE DrainTurns
  BY <1>29 DEF DrainTurns, DrainGoes
<1>30. CASE DrainEnds
  BY <1>30 DEF DrainEnds, DrainGoes
<1>31. CASE HandlerExits
  BY <1>31 DEF HandlerExits, Gone, Leaves, Stages, Started, Terminal
<1>32. ASSUME NEW a \in Actions, DrainReplay(a) PROVE TypeInv'
  BY <1>32 DEF DrainReplay, Counts, Persist
<1>33. ASSUME NEW a \in Actions, DrainMark(a) PROVE TypeInv'
  BY <1>33
  DEF DrainMark, Marks, WriteStage, DrainGoes, Stages, Started, Terminal
<1>34. ASSUME NEW a \in Actions, DrainDeliver(a) PROVE TypeInv'
  BY <1>34 DEF DrainDeliver, Deliver, DrainGoes
<1>35. ASSUME NEW a \in Actions, DrainAck(a) PROVE TypeInv'
  BY <1>35 DEF DrainAck, AckCycle, DrainGoes
<1>36. ASSUME NEW a \in Actions, DrainDelete(a) PROVE TypeInv'
  BY <1>36 DEF DrainDelete, DeleteGroup, DrainGoes
<1>37. CASE DispatcherStarts
  BY <1>37 DEF DispatcherStarts, Loaded, Replayable, Nonterminal
<1>38. CASE StartupDone
  BY <1>38 DEF StartupDone
<1>39. CASE DispatcherDies
  BY <1>39 DEF DispatcherDies
<1>40. ASSUME NEW a \in Actions, StartupReplay(a) PROVE TypeInv'
  BY <1>40 DEF StartupReplay, Counts, Persist
<1>41. ASSUME NEW a \in Actions, StartupMark(a) PROVE TypeInv'
  BY <1>41 DEF StartupMark, Marks, WriteStage, Stages, Started, Terminal
<1>42. CASE UNCHANGED vars
  BY <1>42 DEF vars, journalVars, outboxVars, workerVars, stopVars, dispVars
<1> QED
  BY <1>1, <1>2, <1>3, <1>4, <1>5, <1>6, <1>7, <1>8, <1>9, <1>10, <1>11,
     <1>12, <1>13, <1>14, <1>15, <1>16, <1>17, <1>18, <1>19, <1>20, <1>21,
     <1>22, <1>23, <1>24, <1>25, <1>26, <1>27, <1>28, <1>29, <1>30, <1>31,
     <1>32, <1>33, <1>34, <1>35, <1>36, <1>37, <1>38, <1>39, <1>40, <1>41,
     <1>42
  DEF Next, RecoveryNext, CandidateNext, BarrierNext, StopNext, DispatcherNext

-----------------------------------------------------------------------------
\* The stages that vouch for a follow.
Sure == {"verified", "persisted"}

\* A run starts once, and its intents are its own; the intent in hand has the
\* stage its position says; a loaded receipt, and an intent a metadata update is
\* about to write back, still vouch for their follow; nobody is aimed at who is
\* already followed.
StageInv ==
    /\ run # NoRun => run \in used
    /\ \A a \in Actions : stage[a] # "none" => RunOfAction(a) \in used
    /\ pc = "prep" => stage[cur] = "prepared"
    /\ pc \in {"armed", "tapped", "raised"} => stage[cur] = "physical_attempt_started"
    /\ pc \in {"persist", "mark"} => stage[cur] \in Sure
    /\ \A a \in receipts \union batch : stage[a] \in Sure
    /\ pc = "recover" => \A a \in todo : RunOfAction(a) = run /\ stage[a] # "none"
    /\ pc \in {"prep", "armed"} => UserOf(cur) \notin following
    /\ pc # "write" => kept = "none"
    /\ pc = "write" => kept = stage[cur] \/ {kept, stage[cur]} \subseteq Sure

\* Every step keeps the stages in step with the main thread.
LEMMA StageStep == TypeInv /\ TypeInv' /\ StageInv /\ [Next]_vars => StageInv'
<1> SUFFICES ASSUME TypeInv, TypeInv', StageInv, [Next]_vars PROVE StageInv'
  OBVIOUS
<1> USE Pairs, SessionAssumption
    DEF StageInv, Sure, TypeInv, FollowTypeOK, InHand, Hand,
        JournalTypeOK, journalVars, outboxVars, workerVars, stopVars, dispVars
<1> HIDE DEF Actions
<1>1. ASSUME NEW g \in Runs, Start(g) PROVE StageInv'
  BY <1>1 DEF Start
<1>2. CASE WorkerEnds
  BY <1>2 DEF WorkerEnds, Gone, Leaves
<1>3. CASE LoadScoped
  BY <1>3 DEF LoadScoped, Scoped, Nonterminal, Started, SessionOf
<1>4. CASE RecoveryDone
  BY <1>4 DEF RecoveryDone, Step
<1>5. ASSUME NEW a \in Actions, SettleOffline(a) PROVE StageInv'
  <2>1. PICK s \in {"abandoned", "persisted"} :
          WriteStage(a, s) /\ (stage[a] = "prepared" <=> s = "abandoned")
    BY <1>5 DEF SettleOffline
  <2>2. /\ \A b \in Actions : stage'[b] = IF b = a THEN s ELSE stage[b]
        /\ pc = "recover" /\ todo' = todo \ {a}
        /\ a \in todo
        /\ UNCHANGED <<run, used, pc, cur, kept, receipts, batch, following>>
    BY <2>1, <1>5 DEF SettleOffline, WriteStage, Foremost
  <2> QED
    BY <2>1, <2>2
<1>6. ASSUME NEW a \in Actions, SettleBySnapshots(a) PROVE StageInv'
  BY <1>6 DEF SettleBySnapshots, Counts, Persist
<1>7. ASSUME NEW u \in Users, Choose(u) PROVE StageInv'
  BY <1>7 DEF Choose, WriteStage, Step
<1>8. CASE NextTarget
  BY <1>8 DEF NextTarget, Step
<1>9. CASE StartAttempt
  BY <1>9 DEF StartAttempt, WriteStage, Step
<1>10. CASE Tap
  BY <1>10 DEF Tap, Landing, Step
<1>11. CASE ClickRaises
  BY <1>11 DEF ClickRaises, Landing, Step
<1>12. CASE SeeFollowing
  BY <1>12 DEF SeeFollowing, WriteStage, Step
<1>13. CASE SeeUnclear
  BY <1>13 DEF SeeUnclear, Doubt, WriteStage, Step
<1>14. CASE NoTapSeen
  BY <1>14 DEF NoTapSeen, Doubt, WriteStage, Step
<1>15. CASE PersistFollow
  BY <1>15 DEF PersistFollow, Counts, Persist, Step
<1>16. CASE PersistUnconfirmed
  BY <1>16 DEF PersistUnconfirmed, Step
<1>17. CASE MarkPersisted
  BY <1>17 DEF MarkPersisted, Marks, WriteStage, Step
<1>18. CASE MuteAndJournal
  BY <1>18 DEF MuteAndJournal, Journal, JournalStages
<1>19. CASE ReturnAndJournal
  BY <1>19 DEF ReturnAndJournal, Journal, JournalStages
<1>20. CASE ReadIntent
  BY <1>20 DEF ReadIntent
<1>21. CASE WriteIntent
  BY <1>21 DEF WriteIntent, WriteStage
<1>22. CASE FlushGroup
  BY <1>22 DEF FlushGroup, Deliver, Step
<1>23. CASE FlushNothing
  BY <1>23 DEF FlushNothing, Pass, Step
<1>24. CASE AckGroup
  BY <1>24 DEF AckGroup, AckCycle, Step
<1>25. CASE DeleteAcked
  BY <1>25 DEF DeleteAcked, DeleteGroup, Pass, Step
<1>26. CASE DeleteOpen
  BY <1>26 DEF DeleteOpen, DeleteGroup, Pass, Step
<1>27. CASE StopSignal
  BY <1>27 DEF StopSignal, Leaves
<1>28. CASE DrainLoad
  BY <1>28 DEF DrainLoad, DrainGoes, Loaded, Replayable, Nonterminal
<1>29. CASE DrainTurns
  BY <1>29 DEF DrainTurns, DrainGoes
<1>30. CASE DrainEnds
  BY <1>30 DEF DrainEnds, DrainGoes
<1>31. CASE HandlerExits
  BY <1>31 DEF HandlerExits, Gone, Leaves
<1>32. ASSUME NEW a \in Actions, DrainReplay(a) PROVE StageInv'
  BY <1>32 DEF DrainReplay, Counts, Persist
<1>33. ASSUME NEW a \in Actions, DrainMark(a) PROVE StageInv'
  BY <1>33 DEF DrainMark, Marks, WriteStage, DrainGoes
<1>34. ASSUME NEW a \in Actions, DrainDeliver(a) PROVE StageInv'
  BY <1>34 DEF DrainDeliver, Deliver, DrainGoes
<1>35. ASSUME NEW a \in Actions, DrainAck(a) PROVE StageInv'
  BY <1>35 DEF DrainAck, AckCycle, DrainGoes
<1>36. ASSUME NEW a \in Actions, DrainDelete(a) PROVE StageInv'
  BY <1>36 DEF DrainDelete, DeleteGroup, DrainGoes
<1>37. CASE DispatcherStarts
  BY <1>37 DEF DispatcherStarts, Loaded, Replayable, Nonterminal
<1>38. CASE StartupDone
  BY <1>38 DEF StartupDone
<1>39. CASE DispatcherDies
  BY <1>39 DEF DispatcherDies
<1>40. ASSUME NEW a \in Actions, StartupReplay(a) PROVE StageInv'
  BY <1>40 DEF StartupReplay, Counts, Persist
<1>41. ASSUME NEW a \in Actions, StartupMark(a) PROVE StageInv'
  BY <1>41 DEF StartupMark, Marks, WriteStage
<1>42. CASE UNCHANGED vars
  BY <1>42 DEF vars, journalVars, outboxVars, workerVars, stopVars, dispVars
<1> QED
  BY <1>1, <1>2, <1>3, <1>4, <1>5, <1>6, <1>7, <1>8, <1>9, <1>10, <1>11,
     <1>12, <1>13, <1>14, <1>15, <1>16, <1>17, <1>18, <1>19, <1>20, <1>21,
     <1>22, <1>23, <1>24, <1>25, <1>26, <1>27, <1>28, <1>29, <1>30, <1>31,
     <1>32, <1>33, <1>34, <1>35, <1>36, <1>37, <1>38, <1>39, <1>40, <1>41,
     <1>42
  DEF Next, RecoveryNext, CandidateNext, BarrierNext, StopNext, DispatcherNext
-----------------------------------------------------------------------------
\* What is closed, or about to be closed, as persisted is counted.
CountInv ==
    /\ PersistedIsCounted
    /\ pc = "mark" => cur \in counted
    /\ kept = "persisted" => cur \in counted

\* Every step closes only over a count.
LEMMA CountStep == TypeInv /\ StageInv /\ CountInv /\ [Next]_vars => CountInv'
<1> SUFFICES ASSUME TypeInv, StageInv, CountInv, [Next]_vars PROVE CountInv'
  OBVIOUS
<1> USE Pairs, SessionAssumption
    DEF CountInv, PersistedIsCounted, StageInv, Sure, TypeInv, FollowTypeOK, InHand, Hand,
        JournalTypeOK, journalVars, outboxVars, workerVars, stopVars, dispVars
<1> HIDE DEF Actions
<1>1. ASSUME NEW g \in Runs, Start(g) PROVE CountInv'
  BY <1>1 DEF Start
<1>2. CASE WorkerEnds \/ StopSignal \/ HandlerExits
  BY <1>2 DEF WorkerEnds, StopSignal, HandlerExits, Gone, Leaves
<1>3. CASE \/ LoadScoped \/ RecoveryDone \/ NextTarget \/ MuteAndJournal
           \/ ReturnAndJournal \/ FlushGroup \/ FlushNothing \/ AckGroup
           \/ DeleteAcked \/ DeleteOpen \/ DrainTurns \/ DrainEnds
           \/ (\E a \in Actions : DrainDeliver(a))
           \/ (\E a \in Actions : DrainAck(a))
           \/ (\E a \in Actions : DrainDelete(a)) \/ StartupDone
           \/ DispatcherDies
  BY <1>3 DEF LoadScoped, RecoveryDone, NextTarget, MuteAndJournal,
      ReturnAndJournal, FlushGroup, FlushNothing, AckGroup, DeleteAcked,
      DeleteOpen, DrainTurns, DrainEnds, DrainDeliver, DrainAck,
      DrainDelete, StartupDone, DispatcherDies, AckCycle, DeleteGroup,
      Deliver, DrainGoes, Journal, JournalStages, Pass, Step
<1>4. ASSUME NEW a \in Actions, SettleOffline(a) PROVE CountInv'
  BY <1>4 DEF SettleOffline, WriteStage
<1>5. ASSUME NEW a \in Actions, SettleBySnapshots(a) PROVE CountInv'
  BY <1>5 DEF SettleBySnapshots, Counts, Persist
<1>6. ASSUME NEW u \in Users, Choose(u) PROVE CountInv'
  BY <1>6 DEF Choose, WriteStage, Step
<1>7. CASE StartAttempt
  BY <1>7 DEF StartAttempt, WriteStage, Step
<1>8. CASE Tap
  BY <1>8 DEF Tap, Landing, Step
<1>9. CASE ClickRaises
  BY <1>9 DEF ClickRaises, Landing, Step
<1>10. CASE SeeFollowing
  BY <1>10 DEF SeeFollowing, WriteStage, Step
<1>11. CASE SeeUnclear
  BY <1>11 DEF SeeUnclear, Doubt, WriteStage, Step
<1>12. CASE NoTapSeen
  BY <1>12 DEF NoTapSeen, Doubt, WriteStage, Step
<1>13. CASE PersistFollow
  BY <1>13 DEF PersistFollow, Counts, Persist, Step
<1>14. CASE PersistUnconfirmed
  BY <1>14 DEF PersistUnconfirmed, Step
<1>15. CASE MarkPersisted
  BY <1>15 DEF MarkPersisted, Marks, WriteStage, Step
<1>16. CASE ReadIntent
  BY <1>16 DEF ReadIntent
<1>17. CASE WriteIntent
  BY <1>17 DEF WriteIntent, WriteStage
<1>18. CASE DrainLoad
  BY <1>18 DEF DrainLoad, DrainGoes, Loaded, Replayable
<1>19. ASSUME NEW a \in Actions, DrainReplay(a) PROVE CountInv'
  BY <1>19 DEF DrainReplay, Counts, Persist
<1>20. ASSUME NEW a \in Actions, DrainMark(a) PROVE CountInv'
  BY <1>20 DEF DrainMark, Marks, WriteStage, DrainGoes
<1>21. CASE DispatcherStarts
  BY <1>21 DEF DispatcherStarts, Loaded, Replayable
<1>22. ASSUME NEW a \in Actions, StartupReplay(a) PROVE CountInv'
  BY <1>22 DEF StartupReplay, Counts, Persist
<1>23. ASSUME NEW a \in Actions, StartupMark(a) PROVE CountInv'
  BY <1>23 DEF StartupMark, Marks, WriteStage
<1>24. CASE UNCHANGED vars
  BY <1>24 DEF vars, journalVars, outboxVars, workerVars, stopVars, dispVars
<1> QED
  BY <1>1, <1>2, <1>3, <1>4, <1>5, <1>6, <1>7, <1>8, <1>9, <1>10, <1>11,
     <1>12, <1>13, <1>14, <1>15, <1>16, <1>17, <1>18, <1>19, <1>20, <1>21,
     <1>22, <1>23, <1>24
  DEF Next, RecoveryNext, CandidateNext, BarrierNext, StopNext, DispatcherNext

-----------------------------------------------------------------------------
\* What vouches for a follow, and what is counted, took effect on the phone.
TruthInv == \A a \in Actions : stage[a] \in Sure \/ a \in counted => UserOf(a) \in following

\* Two concordant snapshots, of which at most one is wrong, tell the truth.
LEMMA ProofNeedsFollow ==
  ASSUME NEW u \in Users, NEW seen \in Snapshots(u), ProvesFollow(seen)
  PROVE  u \in following
  BY DEF Snapshots, ProvesFollow

\* Every step vouches only for what took effect.
LEMMA TruthStep == TypeInv /\ StageInv /\ TruthInv /\ [Next]_vars => TruthInv'
<1> SUFFICES ASSUME TypeInv, StageInv, TruthInv, [Next]_vars PROVE TruthInv'
  OBVIOUS
<1> USE Pairs, SessionAssumption
    DEF TruthInv, StageInv, Sure, TypeInv, FollowTypeOK, InHand, Hand,
        JournalTypeOK, journalVars, outboxVars, workerVars, stopVars, dispVars
<1> HIDE DEF Actions
<1>1. ASSUME NEW g \in Runs, Start(g) PROVE TruthInv'
  BY <1>1 DEF Start
<1>2. CASE WorkerEnds \/ StopSignal \/ HandlerExits
  BY <1>2 DEF WorkerEnds, StopSignal, HandlerExits, Gone, Leaves
<1>3. CASE \/ LoadScoped \/ RecoveryDone \/ NextTarget \/ MuteAndJournal
           \/ ReturnAndJournal \/ FlushGroup \/ FlushNothing \/ AckGroup
           \/ DeleteAcked \/ DeleteOpen \/ DrainTurns \/ DrainEnds
           \/ (\E a \in Actions : DrainDeliver(a))
           \/ (\E a \in Actions : DrainAck(a))
           \/ (\E a \in Actions : DrainDelete(a)) \/ StartupDone
           \/ DispatcherDies
  BY <1>3 DEF LoadScoped, RecoveryDone, NextTarget, MuteAndJournal,
      ReturnAndJournal, FlushGroup, FlushNothing, AckGroup, DeleteAcked,
      DeleteOpen, DrainTurns, DrainEnds, DrainDeliver, DrainAck,
      DrainDelete, StartupDone, DispatcherDies, AckCycle, DeleteGroup,
      Deliver, DrainGoes, Journal, JournalStages, Pass, Step
<1>4. ASSUME NEW a \in Actions, SettleOffline(a) PROVE TruthInv'
  BY <1>4 DEF SettleOffline, WriteStage
<1>5. ASSUME NEW a \in Actions, SettleBySnapshots(a) PROVE TruthInv'
  BY <1>5, ProofNeedsFollow DEF SettleBySnapshots, Counts, Persist
<1>6. ASSUME NEW u \in Users, Choose(u) PROVE TruthInv'
  BY <1>6 DEF Choose, WriteStage, Step
<1>7. CASE StartAttempt
  BY <1>7 DEF StartAttempt, WriteStage, Step
<1>8. CASE Tap
  BY <1>8 DEF Tap, Landing, Step
<1>9. CASE ClickRaises
  BY <1>9 DEF ClickRaises, Landing, Step
<1>10. CASE SeeFollowing
  BY <1>10 DEF SeeFollowing, WriteStage, Step
<1>11. CASE SeeUnclear
  BY <1>11 DEF SeeUnclear, Doubt, WriteStage, Step
<1>12. CASE NoTapSeen
  BY <1>12 DEF NoTapSeen, Doubt, WriteStage, Step
<1>13. CASE PersistFollow
  BY <1>13 DEF PersistFollow, Counts, Persist, Step
<1>14. CASE PersistUnconfirmed
  BY <1>14 DEF PersistUnconfirmed, Step
<1>15. CASE MarkPersisted
  BY <1>15 DEF MarkPersisted, Marks, WriteStage, Step
<1>16. CASE ReadIntent
  BY <1>16 DEF ReadIntent
<1>17. CASE WriteIntent
  BY <1>17 DEF WriteIntent, WriteStage
<1>18. CASE DrainLoad
  BY <1>18 DEF DrainLoad, DrainGoes, Loaded, Replayable
<1>19. ASSUME NEW a \in Actions, DrainReplay(a) PROVE TruthInv'
  BY <1>19 DEF DrainReplay, Counts, Persist
<1>20. ASSUME NEW a \in Actions, DrainMark(a) PROVE TruthInv'
  BY <1>20 DEF DrainMark, Marks, WriteStage, DrainGoes
<1>21. CASE DispatcherStarts
  BY <1>21 DEF DispatcherStarts, Loaded, Replayable
<1>22. ASSUME NEW a \in Actions, StartupReplay(a) PROVE TruthInv'
  BY <1>22 DEF StartupReplay, Counts, Persist
<1>23. ASSUME NEW a \in Actions, StartupMark(a) PROVE TruthInv'
  BY <1>23 DEF StartupMark, Marks, WriteStage
<1>24. CASE UNCHANGED vars
  BY <1>24 DEF vars, journalVars, outboxVars, workerVars, stopVars, dispVars
<1> QED
  BY <1>1, <1>2, <1>3, <1>4, <1>5, <1>6, <1>7, <1>8, <1>9, <1>10, <1>11,
     <1>12, <1>13, <1>14, <1>15, <1>16, <1>17, <1>18, <1>19, <1>20, <1>21,
     <1>22, <1>23, <1>24
  DEF Next, RecoveryNext, CandidateNext, BarrierNext, StopNext, DispatcherNext

-----------------------------------------------------------------------------
\* The action is counted or can still be, without the phone.
Counting(a) == stage[a] \in Sure \/ a \in counted

\* One action per user counts; and a user followed by the live run's own intent
\* was not followed for another run.
OwnerInv ==
    /\ \A a, b \in Actions : Counting(a) /\ Counting(b) /\ UserOf(a) = UserOf(b) => a = b
    /\ \A u \in following : run # NoRun /\ stage[<<run, u>>] # "none" =>
          \A g \in Runs \ {run} : ~Counting(<<g, u>>)

\* Every step keeps the owner of a follow unique.
LEMMA OwnerStep ==
  TypeInv /\ StageInv /\ TruthInv /\ OwnerInv /\ [Next]_vars =>
    OwnerInv'
<1> SUFFICES ASSUME TypeInv, StageInv, TruthInv, OwnerInv, [Next]_vars
             PROVE OwnerInv'
  OBVIOUS
<1> USE Pairs, SessionAssumption
    DEF OwnerInv, Counting, TruthInv, StageInv, Sure, TypeInv, FollowTypeOK, InHand, Hand,
        JournalTypeOK, journalVars, outboxVars, workerVars, stopVars, dispVars
<1> HIDE DEF Actions
<1>1. ASSUME NEW g \in Runs, Start(g) PROVE OwnerInv'
  BY <1>1 DEF Start
<1>2. CASE WorkerEnds \/ StopSignal \/ HandlerExits
  BY <1>2 DEF WorkerEnds, StopSignal, HandlerExits, Gone, Leaves
<1>3. CASE \/ LoadScoped \/ RecoveryDone \/ NextTarget \/ MuteAndJournal
           \/ ReturnAndJournal \/ FlushGroup \/ FlushNothing \/ AckGroup
           \/ DeleteAcked \/ DeleteOpen \/ DrainTurns \/ DrainEnds
           \/ (\E a \in Actions : DrainDeliver(a))
           \/ (\E a \in Actions : DrainAck(a))
           \/ (\E a \in Actions : DrainDelete(a)) \/ StartupDone
           \/ DispatcherDies
  <2>1. UNCHANGED <<stage, counted, following, run>>
    BY <1>3 DEF LoadScoped, RecoveryDone, NextTarget, MuteAndJournal,
        ReturnAndJournal, FlushGroup, FlushNothing, AckGroup, DeleteAcked,
        DeleteOpen, DrainTurns, DrainEnds, DrainDeliver, DrainAck,
        DrainDelete, StartupDone, DispatcherDies, DrainGoes, Journal, Pass, Step
  <2> QED
    BY <2>1
<1>4. ASSUME NEW a \in Actions, SettleOffline(a) PROVE OwnerInv'
  BY <1>4 DEF SettleOffline, WriteStage
<1>5. ASSUME NEW a \in Actions, SettleBySnapshots(a) PROVE OwnerInv'
  <2>1. UserOf(a) \in following
    BY <1>5, ProofNeedsFollow DEF SettleBySnapshots
  <2>2. RunOfAction(a) = run /\ stage[a] # "none" /\ run # NoRun
    BY <1>5 DEF SettleBySnapshots, Foremost
  <2>3. \A b \in Actions : UserOf(b) = UserOf(a) /\ Counting(b) => b = a
    BY <2>1, <2>2
  <2>4. counted' = counted \union {a} /\ UNCHANGED <<stage, following, run>>
    BY <1>5 DEF SettleBySnapshots, Counts, Persist
  <2> QED
    BY <2>1, <2>2, <2>3, <2>4
<1>6. ASSUME NEW u \in Users, Choose(u) PROVE OwnerInv'
  BY <1>6 DEF Choose, WriteStage, Step
<1>7. CASE StartAttempt
  BY <1>7 DEF StartAttempt, WriteStage, Step
<1>8. CASE Tap
  BY <1>8 DEF Tap, Landing, Step
<1>9. CASE ClickRaises
  BY <1>9 DEF ClickRaises, Landing, Step
<1>10. CASE SeeFollowing
  BY <1>10 DEF SeeFollowing, WriteStage, Step
<1>11. CASE SeeUnclear
  BY <1>11 DEF SeeUnclear, Doubt, WriteStage, Step
<1>12. CASE NoTapSeen
  BY <1>12 DEF NoTapSeen, Doubt, WriteStage, Step
<1>13. CASE PersistFollow
  BY <1>13 DEF PersistFollow, Counts, Persist, Step
<1>14. CASE PersistUnconfirmed
  BY <1>14 DEF PersistUnconfirmed, Step
<1>15. CASE MarkPersisted
  BY <1>15 DEF MarkPersisted, Marks, WriteStage, Step
<1>16. CASE ReadIntent
  BY <1>16 DEF ReadIntent
<1>17. CASE WriteIntent
  BY <1>17 DEF WriteIntent, WriteStage
<1>18. CASE DrainLoad
  BY <1>18 DEF DrainLoad, DrainGoes, Loaded, Replayable
<1>19. ASSUME NEW a \in Actions, DrainReplay(a) PROVE OwnerInv'
  BY <1>19 DEF DrainReplay, Counts, Persist
<1>20. ASSUME NEW a \in Actions, DrainMark(a) PROVE OwnerInv'
  BY <1>20 DEF DrainMark, Marks, WriteStage, DrainGoes
<1>21. CASE DispatcherStarts
  BY <1>21 DEF DispatcherStarts, Loaded, Replayable
<1>22. ASSUME NEW a \in Actions, StartupReplay(a) PROVE OwnerInv'
  BY <1>22 DEF StartupReplay, Counts, Persist
<1>23. ASSUME NEW a \in Actions, StartupMark(a) PROVE OwnerInv'
  BY <1>23 DEF StartupMark, Marks, WriteStage
<1>24. CASE UNCHANGED vars
  BY <1>24 DEF vars, journalVars, outboxVars, workerVars, stopVars, dispVars
<1> QED
  BY <1>1, <1>2, <1>3, <1>4, <1>5, <1>6, <1>7, <1>8, <1>9, <1>10, <1>11,
     <1>12, <1>13, <1>14, <1>15, <1>16, <1>17, <1>18, <1>19, <1>20, <1>21,
     <1>22, <1>23, <1>24
  DEF Next, RecoveryNext, CandidateNext, BarrierNext, StopNext, DispatcherNext

-----------------------------------------------------------------------------
\* The intent is one that recovery looks at, or closed by its count.
KeptStage(a) == stage[a] \in Started \union {"persisted"}

\* Only a tap given up as not sent drops an intent that was kept.
LEMMA KeptStays ==
  TypeInv /\ StageInv /\ [Next]_vars =>
    \A a \in Actions : KeptStage(a) /\ ~NoTapSeen => KeptStage(a)'
<1> SUFFICES ASSUME TypeInv, StageInv, [Next]_vars
             PROVE \A a \in Actions : KeptStage(a) /\ ~NoTapSeen => KeptStage(a)'
  OBVIOUS
<1> USE Pairs, SessionAssumption
    DEF KeptStage, Started, StageInv, Sure, TypeInv, FollowTypeOK, InHand, Hand,
        JournalTypeOK, journalVars, outboxVars, workerVars, stopVars, dispVars
<1> HIDE DEF Actions
<1>1. ASSUME NEW g \in Runs, Start(g)
      PROVE \A b \in Actions : KeptStage(b) /\ ~NoTapSeen => KeptStage(b)'
  BY <1>1 DEF Start
<1>2. CASE WorkerEnds \/ StopSignal \/ HandlerExits
  BY <1>2 DEF WorkerEnds, StopSignal, HandlerExits, Gone, Leaves
<1>3. CASE \/ LoadScoped \/ RecoveryDone \/ NextTarget \/ MuteAndJournal
           \/ ReturnAndJournal \/ FlushGroup \/ FlushNothing \/ AckGroup
           \/ DeleteAcked \/ DeleteOpen \/ DrainTurns \/ DrainEnds
           \/ (\E a \in Actions : DrainDeliver(a))
           \/ (\E a \in Actions : DrainAck(a))
           \/ (\E a \in Actions : DrainDelete(a)) \/ StartupDone
           \/ DispatcherDies
  BY <1>3 DEF LoadScoped, RecoveryDone, NextTarget, MuteAndJournal,
      ReturnAndJournal, FlushGroup, FlushNothing, AckGroup, DeleteAcked,
      DeleteOpen, DrainTurns, DrainEnds, DrainDeliver, DrainAck,
      DrainDelete, StartupDone, DispatcherDies, AckCycle, DeleteGroup,
      Deliver, DrainGoes, Journal, JournalStages, Pass, Step
<1>4. ASSUME NEW a \in Actions, SettleOffline(a)
      PROVE \A b \in Actions : KeptStage(b) /\ ~NoTapSeen => KeptStage(b)'
  BY <1>4 DEF SettleOffline, WriteStage
<1>5. ASSUME NEW a \in Actions, SettleBySnapshots(a)
      PROVE \A b \in Actions : KeptStage(b) /\ ~NoTapSeen => KeptStage(b)'
  BY <1>5 DEF SettleBySnapshots, Counts, Persist
<1>6. ASSUME NEW u \in Users, Choose(u)
      PROVE \A b \in Actions : KeptStage(b) /\ ~NoTapSeen => KeptStage(b)'
  BY <1>6 DEF Choose, WriteStage, Step
<1>7. CASE StartAttempt
  BY <1>7 DEF StartAttempt, WriteStage, Step
<1>8. CASE Tap
  BY <1>8 DEF Tap, Landing, Step
<1>9. CASE ClickRaises
  BY <1>9 DEF ClickRaises, Landing, Step
<1>10. CASE SeeFollowing
  BY <1>10 DEF SeeFollowing, WriteStage, Step
<1>11. CASE SeeUnclear
  BY <1>11 DEF SeeUnclear, Doubt, WriteStage, Step
<1>12. CASE NoTapSeen
  BY <1>12
<1>13. CASE PersistFollow
  BY <1>13 DEF PersistFollow, Counts, Persist, Step
<1>14. CASE PersistUnconfirmed
  BY <1>14 DEF PersistUnconfirmed, Step
<1>15. CASE MarkPersisted
  BY <1>15 DEF MarkPersisted, Marks, WriteStage, Step
<1>16. CASE ReadIntent
  BY <1>16 DEF ReadIntent
<1>17. CASE WriteIntent
  BY <1>17 DEF WriteIntent, WriteStage
<1>18. CASE DrainLoad
  BY <1>18 DEF DrainLoad, DrainGoes, Loaded, Replayable
<1>19. ASSUME NEW a \in Actions, DrainReplay(a)
       PROVE \A b \in Actions : KeptStage(b) /\ ~NoTapSeen => KeptStage(b)'
  BY <1>19 DEF DrainReplay, Counts, Persist
<1>20. ASSUME NEW a \in Actions, DrainMark(a)
       PROVE \A b \in Actions : KeptStage(b) /\ ~NoTapSeen => KeptStage(b)'
  BY <1>20 DEF DrainMark, Marks, WriteStage, DrainGoes
<1>21. CASE DispatcherStarts
  BY <1>21 DEF DispatcherStarts, Loaded, Replayable
<1>22. ASSUME NEW a \in Actions, StartupReplay(a)
       PROVE \A b \in Actions : KeptStage(b) /\ ~NoTapSeen => KeptStage(b)'
  BY <1>22 DEF StartupReplay, Counts, Persist
<1>23. ASSUME NEW a \in Actions, StartupMark(a)
       PROVE \A b \in Actions : KeptStage(b) /\ ~NoTapSeen => KeptStage(b)'
  BY <1>23 DEF StartupMark, Marks, WriteStage
<1>24. CASE UNCHANGED vars
  BY <1>24 DEF vars, journalVars, outboxVars, workerVars, stopVars, dispVars
<1> QED
  BY <1>1, <1>2, <1>3, <1>4, <1>5, <1>6, <1>7, <1>8, <1>9, <1>10, <1>11,
     <1>12, <1>13, <1>14, <1>15, <1>16, <1>17, <1>18, <1>19, <1>20, <1>21,
     <1>22, <1>23, <1>24
  DEF Next, RecoveryNext, CandidateNext, BarrierNext, StopNext, DispatcherNext

\* Only a click makes the phone follow.
LEMMA OnlyTapsFollow ==
  TypeInv /\ [Next]_vars => following' = following \/ Tap \/ ClickRaises
<1> SUFFICES ASSUME TypeInv, [Next]_vars, ~Tap, ~ClickRaises
             PROVE following' = following
  OBVIOUS
<1> USE DEF Step, WriteStage, Counts, Persist, Marks, DrainGoes,
        journalVars, outboxVars, workerVars, stopVars, dispVars
<1>1. CASE (\E g \in Runs : Start(g)) \/ WorkerEnds
  BY <1>1 DEF Start, WorkerEnds, Gone, Leaves
<1>2. CASE \/ LoadScoped \/ RecoveryDone
           \/ (\E a \in Actions : SettleOffline(a))
           \/ (\E a \in Actions : SettleBySnapshots(a))
  BY <1>2
  DEF LoadScoped, RecoveryDone, SettleOffline, SettleBySnapshots, Counts,
      Persist, Step, WriteStage
<1>3. CASE \/ (\E u \in Users : Choose(u)) \/ NextTarget \/ StartAttempt
           \/ SeeFollowing \/ SeeUnclear \/ NoTapSeen
  BY <1>3 DEF Choose, NextTarget, StartAttempt, SeeFollowing, SeeUnclear,
      NoTapSeen, Doubt, Step, WriteStage
<1>4. CASE \/ PersistFollow \/ PersistUnconfirmed \/ MarkPersisted
           \/ MuteAndJournal \/ ReturnAndJournal \/ ReadIntent \/ WriteIntent
  BY <1>4 DEF PersistFollow, PersistUnconfirmed, MarkPersisted, MuteAndJournal,
      ReturnAndJournal, ReadIntent, WriteIntent, Counts, Journal,
      JournalStages, Marks, Persist, Step, WriteStage
<1>5. CASE FlushGroup \/ FlushNothing \/ AckGroup \/ DeleteAcked \/ DeleteOpen
  BY <1>5 DEF FlushGroup, FlushNothing, AckGroup, DeleteAcked, DeleteOpen,
      AckCycle, DeleteGroup, Deliver, Pass, Step
<1>6. CASE \/ StopSignal \/ DrainLoad \/ DrainTurns \/ DrainEnds
           \/ HandlerExits \/ (\E a \in Actions : DrainReplay(a))
           \/ (\E a \in Actions : DrainMark(a))
           \/ (\E a \in Actions : DrainDeliver(a))
           \/ (\E a \in Actions : DrainAck(a))
           \/ (\E a \in Actions : DrainDelete(a))
  BY <1>6 DEF StopSignal, DrainLoad, DrainTurns, DrainEnds, HandlerExits,
      DrainReplay, DrainMark, DrainDeliver, DrainAck, DrainDelete,
      AckCycle, Counts, DeleteGroup, Deliver, DrainGoes, Gone, Leaves,
      Loaded, Marks, Persist, Replayable, WriteStage
<1>7. CASE \/ DispatcherStarts \/ StartupDone \/ DispatcherDies
           \/ (\E a \in Actions : StartupReplay(a))
           \/ (\E a \in Actions : StartupMark(a))
  BY <1>7 DEF DispatcherStarts, StartupDone, DispatcherDies, StartupReplay,
      StartupMark, Counts, Loaded, Marks, Persist, Replayable, WriteStage
<1>8. CASE UNCHANGED vars
  BY <1>8 DEF vars, journalVars, outboxVars, workerVars, stopVars, dispVars
<1> QED
  BY <1>1, <1>2, <1>3, <1>4, <1>5, <1>6, <1>7, <1>8
  DEF Next, RecoveryNext, CandidateNext, BarrierNext, StopNext, DispatcherNext

\* A step that makes the phone follow leaves the attempt on disk, and no other
\* than a tap given up as not sent drops the intent of whoever is followed.
OutcomeKept(u) == Kept(u)' \/ (u \in following /\ ~Kept(u)) \/ NoTapSeen

LEMMA OutcomeStep ==
  TypeInv /\ StageInv /\ [Next]_vars => \A u \in following' : OutcomeKept(u)
<1> SUFFICES ASSUME TypeInv, StageInv, [Next]_vars, NEW u \in following'
             PROVE  OutcomeKept(u)
  OBVIOUS
<1>1. CASE u \in following
  <2>1. SUFFICES ASSUME Kept(u), ~NoTapSeen PROVE Kept(u)'
    BY <1>1 DEF OutcomeKept
  <2>2. PICK g \in Runs : KeptStage(<<g, u>>)
    BY <2>1 DEF Kept, KeptStage
  <2>3. <<g, u>> \in Actions
    BY <1>1, Pairs DEF TypeInv, FollowTypeOK, JournalTypeOK
  <2>4. KeptStage(<<g, u>>)'
    BY <2>1, <2>2, <2>3, KeptStays
  <2> QED
    BY <2>4 DEF Kept, KeptStage
<1>2. CASE u \notin following
  <2>1. Tap \/ ClickRaises
    BY <1>2, OnlyTapsFollow
  <2>2. /\ u = UserOf(cur) /\ cur \in Actions /\ stage' = stage
        /\ stage[cur] = "physical_attempt_started"
    BY <1>2, <2>1 DEF Tap, ClickRaises, Landing, TypeInv, InHand, Hand, StageInv
  <2>3. <<RunOfAction(cur), u>> = cur /\ RunOfAction(cur) \in Runs
    BY <2>2, Pairs
  <2> QED
    BY <2>2, <2>3 DEF OutcomeKept, Kept, Started
<1> QED
  BY <1>1, <1>2

-----------------------------------------------------------------------------
(* The outbox between two candidates.                                      *)

\* Rows are of started runs; those of the live run are its candidate's alone
\* until it stops; what is to be deleted is delivered and acknowledged.
OutboxInv ==
    /\ \A a \in Actions : rows[a] # {} => RunOfAction(a) \in used
    /\ \A a \in Actions : RunOfAction(a) = run /\ rows[a] # {} =>
          pc \in {"exit", "stopped"} \/ a = cur
    /\ pc \in Aiming \union {"p0c", "recover", "list", "persist", "mark"} =>
          \A a \in Actions : RunOfAction(a) = run => rows[a] = {}
    /\ pc \in {"settle", "delete"} => rows[cur] \subseteq delivered[cur]
    /\ pc = "delete" => cur \in acked /\ CycleReady(cur)

\* Every step keeps the outbox of the live run to its candidate.
LEMMA OutboxStep ==
  TypeInv /\ StageInv /\ OutboxInv /\ [Next]_vars =>
    OutboxInv'
<1> SUFFICES ASSUME TypeInv, StageInv, OutboxInv, [Next]_vars PROVE OutboxInv'
  OBVIOUS
<1> USE Pairs, SessionAssumption
    DEF OutboxInv, Aiming, CycleReady, PostStages, Mutes, ReturnCT, OutboxTypeOK, StageInv,
        TypeInv, FollowTypeOK, InHand, Hand,
        JournalTypeOK, journalVars, outboxVars, workerVars, stopVars, dispVars
<1> HIDE DEF Actions
<1>1. ASSUME NEW g \in Runs, Start(g) PROVE OutboxInv'
  BY <1>1 DEF Start
<1>2. CASE WorkerEnds
  BY <1>2 DEF WorkerEnds, Gone, Leaves
<1>3. CASE LoadScoped
  BY <1>3 DEF LoadScoped
<1>4. CASE RecoveryDone
  BY <1>4 DEF RecoveryDone, Step
<1>5. ASSUME NEW a \in Actions, SettleOffline(a) PROVE OutboxInv'
  BY <1>5 DEF SettleOffline, WriteStage
<1>6. ASSUME NEW a \in Actions, SettleBySnapshots(a) PROVE OutboxInv'
  BY <1>6 DEF SettleBySnapshots, Counts, Persist
<1>7. ASSUME NEW u \in Users, Choose(u) PROVE OutboxInv'
  BY <1>7 DEF Choose, WriteStage, Step
<1>8. CASE NextTarget
  BY <1>8 DEF NextTarget, Step
<1>9. CASE StartAttempt
  BY <1>9 DEF StartAttempt, WriteStage, Step
<1>10. CASE Tap
  BY <1>10 DEF Tap, Landing, Step
<1>11. CASE ClickRaises
  BY <1>11 DEF ClickRaises, Landing, Step
<1>12. CASE SeeFollowing
  BY <1>12 DEF SeeFollowing, WriteStage, Step
<1>13. CASE SeeUnclear
  BY <1>13 DEF SeeUnclear, Doubt, WriteStage, Step
<1>14. CASE NoTapSeen
  BY <1>14 DEF NoTapSeen, Doubt, WriteStage, Step
<1>15. CASE PersistFollow
  BY <1>15 DEF PersistFollow, Counts, Persist, Step
<1>16. CASE PersistUnconfirmed
  BY <1>16 DEF PersistUnconfirmed, Step
<1>17. CASE MarkPersisted
  BY <1>17 DEF MarkPersisted, Marks, WriteStage, Step
<1>18. CASE MuteAndJournal
  BY <1>18 DEF MuteAndJournal, Journal, JournalStages
<1>19. CASE ReturnAndJournal
  BY <1>19 DEF ReturnAndJournal, Journal, JournalStages
<1>20. CASE ReadIntent
  BY <1>20 DEF ReadIntent
<1>21. CASE WriteIntent
  BY <1>21 DEF WriteIntent, WriteStage
<1>22. CASE FlushGroup
  BY <1>22 DEF FlushGroup, Deliver, Step
<1>23. CASE FlushNothing
  BY <1>23 DEF FlushNothing, Pass, Step
<1>24. CASE AckGroup
  BY <1>24 DEF AckGroup, AckCycle, Step
<1>25. CASE DeleteAcked
  BY <1>25 DEF DeleteAcked, DeleteGroup, Pass, Step
<1>26. CASE DeleteOpen
  BY <1>26 DEF DeleteOpen, DeleteGroup, Pass, Step
<1>27. CASE StopSignal
  BY <1>27 DEF StopSignal, Leaves
<1>28. CASE DrainLoad
  BY <1>28 DEF DrainLoad, DrainGoes, Loaded, Replayable
<1>29. CASE DrainTurns
  BY <1>29 DEF DrainTurns, DrainGoes
<1>30. CASE DrainEnds
  BY <1>30 DEF DrainEnds, DrainGoes
<1>31. CASE HandlerExits
  BY <1>31 DEF HandlerExits, Gone, Leaves
<1>32. ASSUME NEW a \in Actions, DrainReplay(a) PROVE OutboxInv'
  BY <1>32 DEF DrainReplay, Counts, Persist
<1>33. ASSUME NEW a \in Actions, DrainMark(a) PROVE OutboxInv'
  BY <1>33 DEF DrainMark, Marks, WriteStage, DrainGoes
<1>34. ASSUME NEW a \in Actions, DrainDeliver(a) PROVE OutboxInv'
  BY <1>34 DEF DrainDeliver, Deliver, DrainGoes
<1>35. ASSUME NEW a \in Actions, DrainAck(a) PROVE OutboxInv'
  BY <1>35 DEF DrainAck, AckCycle, DrainGoes
<1>36. ASSUME NEW a \in Actions, DrainDelete(a) PROVE OutboxInv'
  BY <1>36 DEF DrainDelete, DeleteGroup, DrainGoes
<1>37. CASE DispatcherStarts
  BY <1>37 DEF DispatcherStarts, Loaded, Replayable
<1>38. CASE StartupDone
  BY <1>38 DEF StartupDone
<1>39. CASE DispatcherDies
  BY <1>39 DEF DispatcherDies
<1>40. ASSUME NEW a \in Actions, StartupReplay(a) PROVE OutboxInv'
  BY <1>40 DEF StartupReplay, Counts, Persist
<1>41. ASSUME NEW a \in Actions, StartupMark(a) PROVE OutboxInv'
  BY <1>41 DEF StartupMark, Marks, WriteStage
<1>42. CASE UNCHANGED vars
  BY <1>42 DEF vars, journalVars, outboxVars, workerVars, stopVars, dispVars
<1> QED
  BY <1>1, <1>2, <1>3, <1>4, <1>5, <1>6, <1>7, <1>8, <1>9, <1>10, <1>11,
     <1>12, <1>13, <1>14, <1>15, <1>16, <1>17, <1>18, <1>19, <1>20, <1>21,
     <1>22, <1>23, <1>24, <1>25, <1>26, <1>27, <1>28, <1>29, <1>30, <1>31,
     <1>32, <1>33, <1>34, <1>35, <1>36, <1>37, <1>38, <1>39, <1>40, <1>41,
     <1>42
  DEF Next, RecoveryNext, CandidateNext, BarrierNext, StopNext, DispatcherNext

\* What RowsLeaveDelivered asks of a step.
RowsStep ==
    \A a \in Actions : \A s \in rows[a] \ rows'[a] :
        /\ s \in delivered[a]
        /\ s = ReturnCT => a \in acked /\ Mutes \in delivered[a]

\* Every step that deletes a row has delivered it.
LEMMA RowsLemma == TypeInv /\ OutboxInv /\ [Next]_vars => RowsStep
<1> SUFFICES ASSUME TypeInv, OutboxInv, [Next]_vars PROVE RowsStep
  OBVIOUS
<1> USE Pairs, SessionAssumption
    DEF RowsStep, OutboxInv, CycleReady, PostStages, Mutes, ReturnCT, OutboxTypeOK,
        TypeInv, FollowTypeOK, InHand, Hand,
        JournalTypeOK, journalVars, outboxVars, workerVars, stopVars, dispVars
<1> HIDE DEF Actions
<1>1. CASE \/ (\E g \in Runs : Start(g)) \/ WorkerEnds \/ LoadScoped
           \/ RecoveryDone \/ (\E a \in Actions : SettleOffline(a))
           \/ (\E a \in Actions : SettleBySnapshots(a))
  BY <1>1 DEF Start, WorkerEnds, LoadScoped, RecoveryDone, SettleOffline,
      SettleBySnapshots, Counts, Gone, Leaves, Persist, Step, WriteStage
<1>2. CASE \/ (\E u \in Users : Choose(u)) \/ NextTarget \/ StartAttempt \/ Tap
           \/ ClickRaises \/ SeeFollowing \/ SeeUnclear \/ NoTapSeen
           \/ PersistFollow \/ PersistUnconfirmed \/ MarkPersisted
  BY <1>2 DEF Choose, NextTarget, StartAttempt, Tap, ClickRaises, SeeFollowing,
      SeeUnclear, NoTapSeen, PersistFollow, PersistUnconfirmed,
      MarkPersisted, Counts, Doubt, Landing, Marks, Persist, Step,
      WriteStage
<1>3. CASE MuteAndJournal
  BY <1>3 DEF MuteAndJournal, Journal, JournalStages
<1>4. CASE ReturnAndJournal
  BY <1>4 DEF ReturnAndJournal, Journal, JournalStages
<1>5. CASE ReadIntent \/ WriteIntent \/ FlushGroup \/ FlushNothing \/ AckGroup
  BY <1>5 DEF ReadIntent, WriteIntent, FlushGroup, FlushNothing, AckGroup,
      AckCycle, Deliver, Pass, Step, WriteStage
<1>6. CASE DeleteAcked
  BY <1>6 DEF DeleteAcked, DeleteGroup, Pass, Step
<1>7. CASE DeleteOpen
  BY <1>7 DEF DeleteOpen, DeleteGroup, Pass, Step
<1>8. CASE \/ StopSignal \/ DrainLoad \/ DrainTurns \/ DrainEnds
           \/ HandlerExits \/ (\E a \in Actions : DrainReplay(a))
           \/ (\E a \in Actions : DrainMark(a))
           \/ (\E a \in Actions : DrainDeliver(a))
           \/ (\E a \in Actions : DrainAck(a))
  BY <1>8 DEF StopSignal, DrainLoad, DrainTurns, DrainEnds, HandlerExits,
      DrainReplay, DrainMark, DrainDeliver, DrainAck, AckCycle, Counts,
      Deliver, DrainGoes, Gone, Leaves, Loaded, Marks, Persist,
      Replayable, WriteStage
<1>9. ASSUME NEW a \in Actions, DrainDelete(a) PROVE RowsStep
  BY <1>9 DEF DrainDelete, DeleteGroup, DrainGoes
<1>10. CASE \/ DispatcherStarts \/ StartupDone \/ DispatcherDies
            \/ (\E a \in Actions : StartupReplay(a))
            \/ (\E a \in Actions : StartupMark(a))
  BY <1>10 DEF DispatcherStarts, StartupDone, DispatcherDies, StartupReplay,
      StartupMark, Counts, Loaded, Marks, Persist, Replayable, WriteStage
<1>11. CASE UNCHANGED vars
  BY <1>11 DEF vars, journalVars, outboxVars, workerVars, stopVars, dispVars
<1> QED
  BY <1>1, <1>2, <1>3, <1>4, <1>5, <1>6, <1>7, <1>8, <1>9, <1>10, <1>11
  DEF Next, RecoveryNext, CandidateNext, BarrierNext, StopNext, DispatcherNext

-----------------------------------------------------------------------------
(* Recovery and startup.                                                   *)

\* Recovery has not forgotten any intent of its scope.
RecoveryInv == pc = "recover" => Scoped(run) \subseteq todo

\* Every step keeps the scope of recovery in its hands.
LEMMA RecoveryStep ==
  TypeInv /\ StageInv /\ RecoveryInv /\ [Next]_vars =>
    RecoveryInv'
<1> SUFFICES ASSUME TypeInv, StageInv, RecoveryInv, [Next]_vars
             PROVE RecoveryInv'
  OBVIOUS
<1> USE Pairs, SessionAssumption
    DEF RecoveryInv, Scoped, SessionOf, Nonterminal, Started, StageInv, Sure, TypeInv, FollowTypeOK, InHand, Hand,
        JournalTypeOK, journalVars, outboxVars, workerVars, stopVars, dispVars
<1> HIDE DEF Actions
<1>1. CASE \/ (\E g \in Runs : Start(g)) \/ WorkerEnds \/ StopSignal
           \/ HandlerExits
  BY <1>1 DEF Start, WorkerEnds, StopSignal, HandlerExits, Gone, Leaves
<1>2. CASE LoadScoped
  BY <1>2 DEF LoadScoped
<1>3. CASE RecoveryDone
  BY <1>3 DEF RecoveryDone, Step
<1>4. ASSUME NEW a \in Actions, SettleOffline(a) PROVE RecoveryInv'
  BY <1>4 DEF SettleOffline, WriteStage
<1>5. ASSUME NEW a \in Actions, SettleBySnapshots(a) PROVE RecoveryInv'
  BY <1>5 DEF SettleBySnapshots, Counts, Persist
<1>6. ASSUME NEW u \in Users, Choose(u) PROVE RecoveryInv'
  BY <1>6 DEF Choose, WriteStage, Step
<1>7. CASE NextTarget
  BY <1>7 DEF NextTarget, Step
<1>8. CASE StartAttempt
  BY <1>8 DEF StartAttempt, WriteStage, Step
<1>9. CASE \/ Tap \/ ClickRaises \/ SeeFollowing \/ SeeUnclear \/ NoTapSeen
           \/ PersistFollow \/ PersistUnconfirmed \/ MarkPersisted
  BY <1>9 DEF Tap, ClickRaises, SeeFollowing, SeeUnclear, NoTapSeen,
      PersistFollow, PersistUnconfirmed, MarkPersisted, Counts, Doubt,
      Landing, Marks, Persist, Step, WriteStage
<1>10. CASE \/ MuteAndJournal \/ ReturnAndJournal \/ ReadIntent \/ WriteIntent
            \/ FlushGroup \/ FlushNothing \/ AckGroup \/ DeleteAcked
            \/ DeleteOpen
  BY <1>10 DEF MuteAndJournal, ReturnAndJournal, ReadIntent, WriteIntent,
      FlushGroup, FlushNothing, AckGroup, DeleteAcked, DeleteOpen,
      AckCycle, DeleteGroup, Deliver, Journal, JournalStages, Pass, Step,
      WriteStage
<1>11. CASE \/ DrainLoad \/ DrainTurns \/ DrainEnds
            \/ (\E a \in Actions : DrainReplay(a))
            \/ (\E a \in Actions : DrainMark(a))
            \/ (\E a \in Actions : DrainDeliver(a))
            \/ (\E a \in Actions : DrainAck(a))
            \/ (\E a \in Actions : DrainDelete(a))
  BY <1>11 DEF DrainLoad, DrainTurns, DrainEnds, DrainReplay, DrainMark,
      DrainDeliver, DrainAck, DrainDelete, AckCycle, Counts, DeleteGroup,
      Deliver, DrainGoes, Loaded, Marks, Persist, Replayable, WriteStage
<1>12. CASE DispatcherStarts
  BY <1>12 DEF DispatcherStarts, Loaded, Replayable
<1>13. CASE StartupDone
  BY <1>13 DEF StartupDone
<1>14. CASE DispatcherDies
  BY <1>14 DEF DispatcherDies
<1>15. ASSUME NEW a \in Actions, StartupReplay(a) PROVE RecoveryInv'
  BY <1>15 DEF StartupReplay, Counts, Persist
<1>16. ASSUME NEW a \in Actions, StartupMark(a) PROVE RecoveryInv'
  BY <1>16 DEF StartupMark, Marks, WriteStage
<1>17. CASE UNCHANGED vars
  BY <1>17 DEF vars, journalVars, outboxVars, workerVars, stopVars, dispVars
<1> QED
  BY <1>1, <1>2, <1>3, <1>4, <1>5, <1>6, <1>7, <1>8, <1>9, <1>10, <1>11,
     <1>12, <1>13, <1>14, <1>15, <1>16, <1>17
  DEF Next, RecoveryNext, CandidateNext, BarrierNext, StopNext, DispatcherNext

\* The journal is finite, so its cardinality means something.
IntentsInv == IsFiniteSet(Intents)

\* Every step adds one intent at most.
LEMMA IntentsStep == IntentsInv /\ [Next]_vars => IntentsInv'
<1> SUFFICES ASSUME IntentsInv, [Next]_vars PROVE IntentsInv'
  OBVIOUS
<1>1. \E x : Intents' \subseteq Intents \union {x}
  <2> USE DEF Intents, journalVars, outboxVars, workerVars, stopVars, dispVars
  <2>1. CASE \/ (\E g \in Runs : Start(g)) \/ WorkerEnds \/ LoadScoped
             \/ RecoveryDone \/ (\E a \in Actions : SettleBySnapshots(a))
             \/ NextTarget \/ Tap \/ ClickRaises \/ PersistFollow
             \/ PersistUnconfirmed
    BY <2>1 DEF Start, WorkerEnds, LoadScoped, RecoveryDone, SettleBySnapshots,
        NextTarget, Tap, ClickRaises, PersistFollow, PersistUnconfirmed,
        Counts, Gone, Landing, Leaves, Persist, Step
  <2>2. ASSUME NEW a \in Actions, SettleOffline(a)
        PROVE \E x : Intents' \subseteq Intents \union {x}
    BY <2>2 DEF SettleOffline, WriteStage
  <2>3. ASSUME NEW u \in Users, Choose(u)
        PROVE \E x : Intents' \subseteq Intents \union {x}
    BY <2>3 DEF Choose, WriteStage, Step
  <2>4. CASE StartAttempt
    BY <2>4 DEF StartAttempt, WriteStage, Step
  <2>5. CASE SeeFollowing
    BY <2>5 DEF SeeFollowing, WriteStage, Step
  <2>6. CASE SeeUnclear
    BY <2>6 DEF SeeUnclear, Doubt, WriteStage, Step
  <2>7. CASE NoTapSeen
    BY <2>7 DEF NoTapSeen, Doubt, WriteStage, Step
  <2>8. CASE MarkPersisted
    <3>1. Intents' \subseteq Intents \union {cur}
      <4>1. CASE WriteStage(cur, "persisted")
        BY <4>1 DEF WriteStage
      <4>2. CASE UNCHANGED stage
        BY <4>2
      <4> QED
        BY <2>8, <4>1, <4>2 DEF MarkPersisted, Marks
    <3> QED
      BY <3>1
  <2>9. CASE \/ MuteAndJournal \/ ReturnAndJournal \/ ReadIntent \/ FlushGroup
             \/ FlushNothing \/ AckGroup \/ DeleteAcked \/ DeleteOpen
    BY <2>9 DEF MuteAndJournal, ReturnAndJournal, ReadIntent, FlushGroup,
        FlushNothing, AckGroup, DeleteAcked, DeleteOpen, AckCycle,
        DeleteGroup, Deliver, Journal, JournalStages, Pass, Step
  <2>10. CASE WriteIntent
    BY <2>10 DEF WriteIntent, WriteStage
  <2>11. CASE \/ StopSignal \/ DrainLoad \/ DrainTurns \/ DrainEnds
              \/ HandlerExits \/ (\E a \in Actions : DrainReplay(a))
              \/ (\E a \in Actions : DrainDeliver(a))
              \/ (\E a \in Actions : DrainAck(a))
              \/ (\E a \in Actions : DrainDelete(a))
    BY <2>11 DEF StopSignal, DrainLoad, DrainTurns, DrainEnds, HandlerExits,
        DrainReplay, DrainDeliver, DrainAck, DrainDelete, AckCycle,
        Counts, DeleteGroup, Deliver, DrainGoes, Gone, Leaves, Loaded,
        Persist, Replayable
  <2>12. ASSUME NEW a \in Actions, DrainMark(a)
         PROVE \E x : Intents' \subseteq Intents \union {x}
    BY <2>12 DEF DrainMark, Marks, WriteStage, DrainGoes
  <2>13. CASE \/ DispatcherStarts \/ StartupDone \/ DispatcherDies
              \/ (\E a \in Actions : StartupReplay(a))
    BY <2>13 DEF DispatcherStarts, StartupDone, DispatcherDies, StartupReplay,
        Counts, Loaded, Persist, Replayable
  <2>14. ASSUME NEW a \in Actions, StartupMark(a)
         PROVE \E x : Intents' \subseteq Intents \union {x}
    BY <2>14 DEF StartupMark, Marks, WriteStage
  <2>15. CASE UNCHANGED vars
    BY <2>15 DEF vars, journalVars, outboxVars, workerVars, stopVars, dispVars
  <2> QED
    BY <2>1, <2>2, <2>3, <2>4, <2>5, <2>6, <2>7, <2>8, <2>9, <2>10, <2>11,
       <2>12, <2>13, <2>14, <2>15
    DEF Next, RecoveryNext, CandidateNext, BarrierNext, StopNext, DispatcherNext
<1> QED
  BY <1>1, FS_AddElement, FS_Subset DEF IntentsInv

\* Where no worker lived at its start none does during its replay, and its batch
\* holds whatever is left to count.
StartupInv ==
    disp = "replay" =>
        /\ run = NoRun
        /\ Cardinality(Intents) <= StartupLimit =>
              \A a \in Actions : stage[a] = "verified" => a \in counted \union batch

\* A load under the limit takes everything.
LEMMA LoadsAll ==
  ASSUME IntentsInv, NEW S \in Loaded(StartupLimit), Cardinality(Intents) <= StartupLimit
  PROVE  S = Nonterminal
<1>1. Nonterminal \subseteq Intents
  BY DEF Nonterminal, Intents, Started
<1>2. IsFiniteSet(Nonterminal) /\ Cardinality(Nonterminal) <= Cardinality(Intents)
  BY <1>1, FS_Subset DEF IntentsInv
<1>3. Cardinality(Nonterminal) \in Nat /\ Cardinality(Intents) \in Nat
  BY <1>2, FS_CardinalityType DEF IntentsInv
<1>4. S \subseteq Nonterminal /\ Cardinality(S) = Cardinality(Nonterminal)
  BY <1>2, <1>3, SessionAssumption DEF Loaded, Min2
<1> QED
  BY <1>2, <1>4, FS_Subset

\* Every step keeps the uncounted follows in the batch.
LEMMA StartupStep ==
  TypeInv /\ StageInv /\ IntentsInv /\ StartupInv /\ [Next]_vars =>
    StartupInv'
<1> SUFFICES ASSUME TypeInv, StageInv, IntentsInv, StartupInv, [Next]_vars
             PROVE StartupInv'
  OBVIOUS
<1> USE Pairs, SessionAssumption
    DEF StartupInv, StageInv, Sure, TypeInv, FollowTypeOK, InHand, Hand,
        JournalTypeOK, journalVars, outboxVars, workerVars, stopVars, dispVars
<1> HIDE DEF Actions
<1>1. ASSUME NEW g \in Runs, Start(g) PROVE StartupInv'
  BY <1>1 DEF Start
<1>2. CASE WorkerEnds \/ StopSignal \/ HandlerExits
  BY <1>2 DEF WorkerEnds, StopSignal, HandlerExits, Gone, Leaves
<1>3. CASE \/ LoadScoped \/ RecoveryDone
           \/ (\E a \in Actions : SettleOffline(a))
           \/ (\E a \in Actions : SettleBySnapshots(a))
           \/ (\E u \in Users : Choose(u)) \/ NextTarget \/ StartAttempt
  BY <1>3
  DEF LoadScoped, RecoveryDone, SettleOffline, SettleBySnapshots, Choose,
      NextTarget, StartAttempt, Counts, Persist, Step, WriteStage
<1>4. CASE \/ Tap \/ ClickRaises \/ SeeFollowing \/ SeeUnclear \/ NoTapSeen
           \/ PersistFollow \/ PersistUnconfirmed \/ MarkPersisted
  BY <1>4 DEF Tap, ClickRaises, SeeFollowing, SeeUnclear, NoTapSeen,
      PersistFollow, PersistUnconfirmed, MarkPersisted, Counts, Doubt,
      Landing, Marks, Persist, Step, WriteStage
<1>5. CASE \/ MuteAndJournal \/ ReturnAndJournal \/ ReadIntent \/ WriteIntent
           \/ FlushGroup \/ FlushNothing \/ AckGroup \/ DeleteAcked
           \/ DeleteOpen
  BY <1>5 DEF MuteAndJournal, ReturnAndJournal, ReadIntent, WriteIntent,
      FlushGroup, FlushNothing, AckGroup, DeleteAcked, DeleteOpen,
      AckCycle, DeleteGroup, Deliver, Journal, JournalStages, Pass, Step,
      WriteStage
<1>6. CASE \/ DrainLoad \/ DrainTurns \/ DrainEnds
           \/ (\E a \in Actions : DrainReplay(a))
           \/ (\E a \in Actions : DrainMark(a))
           \/ (\E a \in Actions : DrainDeliver(a))
           \/ (\E a \in Actions : DrainAck(a))
           \/ (\E a \in Actions : DrainDelete(a))
  BY <1>6 DEF DrainLoad, DrainTurns, DrainEnds, DrainReplay, DrainMark,
      DrainDeliver, DrainAck, DrainDelete, AckCycle, Counts, DeleteGroup,
      Deliver, DrainGoes, Loaded, Marks, Persist, Replayable, WriteStage
<1>7. CASE DispatcherStarts
  <2>1. PICK S \in Loaded(StartupLimit) : batch' = Replayable(S, Runs)
    BY <1>7 DEF DispatcherStarts
  <2>2. /\ disp' = "replay" => run = NoRun
        /\ UNCHANGED <<stage, run, counted>>
    BY <1>7 DEF DispatcherStarts
  <2>3. Intents' = Intents
    BY <2>2 DEF Intents
  <2>4. ASSUME Cardinality(Intents) <= StartupLimit, NEW a \in Actions, stage[a] = "verified"
        PROVE  a \in batch'
    BY <2>1, <2>4, LoadsAll DEF Replayable, Nonterminal, Started
  <2> QED
    BY <2>2, <2>3, <2>4
<1>8. CASE StartupDone
  BY <1>8 DEF StartupDone
<1>9. CASE DispatcherDies
  BY <1>9 DEF DispatcherDies
<1>10. ASSUME NEW a \in Actions, StartupReplay(a) PROVE StartupInv'
  <2>1. Intents' = Intents
    BY <1>10 DEF StartupReplay, Counts, Intents
  <2> QED
    BY <1>10, <2>1 DEF StartupReplay, Counts, Persist
<1>11. ASSUME NEW a \in Actions, StartupMark(a) PROVE StartupInv'
  <2>1. a \in batch /\ a \in counted /\ batch' = batch \ {a}
        /\ UNCHANGED <<run, counted, disp>>
    BY <1>11 DEF StartupMark, Marks
  <2>2. \A b \in Actions : stage'[b] = IF b = a THEN "persisted" ELSE stage[b]
    BY <1>11 DEF StartupMark, Marks, WriteStage
  <2>3. Intents' = Intents
    BY <2>1, <2>2 DEF Intents
  <2> QED
    BY <2>1, <2>2, <2>3
<1>12. CASE UNCHANGED vars
  <2>1. Intents' = Intents
    BY <1>12 DEF vars, Intents
  <2> QED
    BY <1>12, <2>1
    DEF vars, journalVars, outboxVars, workerVars, stopVars, dispVars
<1> QED
  BY <1>1, <1>2, <1>3, <1>4, <1>5, <1>6, <1>7, <1>8, <1>9, <1>10, <1>11, <1>12
  DEF Next, RecoveryNext, CandidateNext, BarrierNext, StopNext, DispatcherNext

-----------------------------------------------------------------------------
(* The tally.                                                              *)

\* A step counts one action or lands one follow, never both.
LEMMA OneAtATime ==
  ASSUME TypeInv, [Next]_vars
  PROVE  \/ counted' = counted /\ following' = following
         \/ \E a \in Actions : counted' = counted \union {a} /\ following' = following
         \/ \E u \in Users : counted' = counted /\ following' = following \union {u}
<1> DEFINE Goal == \/ counted' = counted /\ following' = following
                   \/ \E a \in Actions : counted' = counted \union {a} /\ following' = following
                   \/ \E u \in Users : counted' = counted /\ following' = following \union {u}
<1> SUFFICES Goal
  OBVIOUS
<1> USE Pairs DEF TypeInv, InHand, Hand,
        journalVars, outboxVars, workerVars, stopVars, dispVars
<1> HIDE DEF Actions
<1>1. CASE (\E g \in Runs : Start(g)) \/ WorkerEnds
  BY <1>1 DEF Start, WorkerEnds, Gone, Leaves
<1>2. CASE LoadScoped \/ RecoveryDone \/ (\E a \in Actions : SettleOffline(a))
  BY <1>2 DEF LoadScoped, RecoveryDone, SettleOffline, Step, WriteStage
<1>3. ASSUME NEW a \in Actions, SettleBySnapshots(a) PROVE Goal
  BY <1>3 DEF SettleBySnapshots, Counts, Persist
<1>4. CASE \/ (\E u \in Users : Choose(u)) \/ NextTarget \/ StartAttempt
           \/ SeeFollowing \/ SeeUnclear \/ NoTapSeen
  BY <1>4 DEF Choose, NextTarget, StartAttempt, SeeFollowing, SeeUnclear,
      NoTapSeen, Doubt, Step, WriteStage
<1>5. CASE Tap
  BY <1>5 DEF Tap, Landing, Step
<1>6. CASE ClickRaises
  BY <1>6 DEF ClickRaises, Landing, Step
<1>7. CASE PersistFollow
  BY <1>7 DEF PersistFollow, Counts, Persist, Step
<1>8. CASE PersistUnconfirmed
  BY <1>8 DEF PersistUnconfirmed, Step
<1>9. CASE \/ MarkPersisted \/ MuteAndJournal \/ ReturnAndJournal \/ ReadIntent
           \/ WriteIntent
  BY <1>9 DEF MarkPersisted, MuteAndJournal, ReturnAndJournal, ReadIntent,
      WriteIntent, Journal, JournalStages, Marks, Step, WriteStage
<1>10. CASE FlushGroup \/ FlushNothing \/ AckGroup \/ DeleteAcked \/ DeleteOpen
  BY <1>10 DEF FlushGroup, FlushNothing, AckGroup, DeleteAcked, DeleteOpen,
      AckCycle, DeleteGroup, Deliver, Pass, Step
<1>11. CASE \/ StopSignal \/ DrainLoad \/ DrainTurns \/ DrainEnds
            \/ HandlerExits \/ (\E a \in Actions : DrainMark(a))
            \/ (\E a \in Actions : DrainDeliver(a))
            \/ (\E a \in Actions : DrainAck(a))
            \/ (\E a \in Actions : DrainDelete(a))
  BY <1>11 DEF StopSignal, DrainLoad, DrainTurns, DrainEnds, HandlerExits,
      DrainMark, DrainDeliver, DrainAck, DrainDelete, AckCycle,
      DeleteGroup, Deliver, DrainGoes, Gone, Leaves, Loaded, Marks,
      Replayable, WriteStage
<1>12. ASSUME NEW a \in Actions, DrainReplay(a) PROVE Goal
  BY <1>12 DEF DrainReplay, Counts, Persist
<1>13. CASE \/ DispatcherStarts \/ StartupDone \/ DispatcherDies
            \/ (\E a \in Actions : StartupMark(a))
  BY <1>13
  DEF DispatcherStarts, StartupDone, DispatcherDies, StartupMark, Loaded,
      Marks, Replayable, WriteStage
<1>14. ASSUME NEW a \in Actions, StartupReplay(a) PROVE Goal
  BY <1>14 DEF StartupReplay, Counts, Persist
<1>15. CASE UNCHANGED vars
  BY <1>15 DEF vars, journalVars, outboxVars, workerVars, stopVars, dispVars
<1> QED
  BY <1>1, <1>2, <1>3, <1>4, <1>5, <1>6, <1>7, <1>8, <1>9, <1>10, <1>11,
     <1>12, <1>13, <1>14, <1>15
  DEF Next, RecoveryNext, CandidateNext, BarrierNext, StopNext, DispatcherNext

\* The users the database counts.
Counted == {UserOf(a) : a \in counted}

\* Every step is a step of the tally, or leaves it alone.
LEMMA TallyStep ==
  ASSUME TypeInv, TruthInv', [Next]_vars
  PROVE  [Tally!TallyNext]_<<following, Counted>>
<1>1. CASE counted' = counted /\ following' = following
  BY <1>1 DEF Counted
<1>2. ASSUME NEW a \in Actions, counted' = counted \union {a}, following' = following
      PROVE  [Tally!TallyNext]_<<following, Counted>>
  <2>1. Counted' = Counted \union {UserOf(a)}
    BY <1>2 DEF Counted
  <2>2. UserOf(a) \in following /\ UserOf(a) \in Users
    BY <1>2, Pairs DEF TruthInv
  <2>3. CASE UserOf(a) \in Counted
    BY <1>2, <2>1, <2>3
  <2>4. CASE UserOf(a) \notin Counted
    <3>1. Tally!Tally(UserOf(a))
      BY <1>2, <2>1, <2>2, <2>4 DEF Tally!Tally, Counted
    <3> QED
      BY <2>2, <3>1 DEF Tally!TallyNext
  <2> QED
    BY <2>3, <2>4
<1>3. ASSUME NEW u \in Users, counted' = counted, following' = following \union {u}
      PROVE  [Tally!TallyNext]_<<following, Counted>>
  <2>1. Counted' = Counted
    BY <1>3 DEF Counted
  <2>2. CASE u \in following
    BY <1>3, <2>1, <2>2
  <2>3. CASE u \notin following
    <3>1. Tally!Act(u)
      BY <1>3, <2>1, <2>3 DEF Tally!Act, Counted
    <3> QED
      BY <3>1 DEF Tally!TallyNext
  <2> QED
    BY <2>2, <2>3
<1> QED
  BY <1>1, <1>2, <1>3, OneAtATime

-----------------------------------------------------------------------------
(* The theorems.                                                           *)

\* The inductive invariant.
Inv ==
    /\ TypeInv
    /\ StageInv
    /\ CountInv
    /\ TruthInv
    /\ OwnerInv
    /\ OutboxInv
    /\ RecoveryInv
    /\ IntentsInv
    /\ StartupInv

\* It holds at the start.
LEMMA InvInit == Init => Inv
<1> SUFFICES ASSUME Init PROVE Inv
  OBVIOUS
<1> USE Pairs, SessionAssumption DEF Init, JournalInit, OutboxInit
<1> HIDE DEF Actions
<1>1. TypeInv
  BY DEF TypeInv, FollowTypeOK, InHand, Hand, JournalTypeOK, OutboxTypeOK,
     WorkerSteps, Stages
<1>2. StageInv
  BY DEF StageInv, Sure
<1>3. CountInv /\ TruthInv /\ OwnerInv
  BY DEF CountInv, PersistedIsCounted, TruthInv, OwnerInv, Counting, Sure
<1>4. OutboxInv /\ RecoveryInv /\ StartupInv
  BY <1>1 DEF OutboxInv, Aiming, RecoveryInv, StartupInv, TypeInv, FollowTypeOK
<1>5. IntentsInv
  <2>1. Intents = {}
    BY DEF Intents
  <2> QED
    BY <2>1, FS_EmptySet DEF IntentsInv
<1> QED
  BY <1>1, <1>2, <1>3, <1>4, <1>5 DEF Inv

\* Every step keeps it.
LEMMA InvStep == Inv /\ [Next]_vars => Inv'
  BY TypeStep, StageStep, CountStep, TruthStep, OwnerStep, OutboxStep,
     RecoveryStep,
     IntentsStep, StartupStep DEF Inv

\* It holds throughout.
LEMMA InvAlways == Spec => []Inv
  BY InvInit, InvStep, PTL DEF Spec

\* Every variable keeps its type.
THEOREM FollowTypes == Spec => []FollowTypeOK
<1>1. Inv => FollowTypeOK
  BY DEF Inv, TypeInv
<1> QED
  BY <1>1, InvAlways, PTL

\* An intent is closed as persisted only over a committed canonical event.
THEOREM FollowPersisted == Spec => []PersistedIsCounted
<1>1. Inv => PersistedIsCounted
  BY DEF Inv, CountInv
<1> QED
  BY <1>1, InvAlways, PTL

\* A user is counted for one run only.
THEOREM FollowCountedOnce == Spec => []CountedOnce
<1>1. Inv => CountedOnce
  BY DEF Inv, TypeInv, FollowTypeOK, JournalTypeOK, OwnerInv, Counting,
     CountedOnce
<1> QED
  BY <1>1, InvAlways, PTL

\* While a candidate is in hand nothing of an earlier one of the run is left
\* in the outbox.
THEOREM FollowNextCandidate == Spec => []NextCandidateBlocked
<1>1. Inv => NextCandidateBlocked
  BY DEF Inv, OutboxInv, NextCandidateBlocked
<1> QED
  BY <1>1, InvAlways, PTL

\* Whoever comes to be followed has an intent that recovery looks at or that is
\* closed by its count, and loses it by nothing but a click that raised.
THEOREM FollowTapOutcome == Spec => TapOutcomeKept
<1>1. Inv /\ [Next]_vars =>
        [\A u \in following' : Kept(u)' \/ (u \in following /\ ~Kept(u)) \/ NoTapSeen]_vars
  BY OutcomeStep DEF Inv, OutcomeKept
<1> QED
  BY <1>1, InvAlways, PTL DEF Spec, TapOutcomeKept

\* A row leaves the outbox only when it is delivered, the one that closes a
\* cycle only with its mutes and the ledger's acknowledgement.
THEOREM FollowRows == Spec => RowsLeaveDelivered
<1>1. Inv /\ [Next]_vars => [RowsStep]_vars
  BY RowsLemma DEF Inv
<1>2. [][RowsStep]_vars => RowsLeaveDelivered
  BY PTL DEF RowsLeaveDelivered, RowsStep
<1> QED
  BY <1>1, <1>2, InvAlways, PTL DEF Spec

\* P0C ends only when each follow its own run caused is counted, or was given up
\* as not tapped.
THEOREM FollowRecovery == Spec => RecoveryCountsOwn
<1>1. Inv /\ [Next]_vars =>
        [RecoveryDone =>
            \A u \in following : LET a == <<run, u>> IN
                stage[a] # "none" => a \in counted \/ stage[a] = "abandoned"]_vars
  <2> SUFFICES ASSUME Inv, RecoveryDone, NEW u \in following, stage[<<run, u>>] # "none"
               PROVE  <<run, u>> \in counted \/ stage[<<run, u>>] = "abandoned"
    OBVIOUS
  <2>1. Scoped(run) = {}
    BY DEF Inv, RecoveryInv, RecoveryDone
  <2>2. run \in Runs /\ u \in Users
    BY DEF Inv, TypeInv, FollowTypeOK, JournalTypeOK, WorkerSteps, RecoveryDone
  <2>3. <<run, u>> \in Actions /\ RunOfAction(<<run, u>>) = run
    BY <2>2, Pairs
  <2>4. <<run, u>> \notin Nonterminal
    BY <2>1, <2>3 DEF Scoped
  <2>5. stage[<<run, u>>] \in Terminal
    BY <2>3, <2>4
    DEF Inv, TypeInv, FollowTypeOK, JournalTypeOK, Stages, Nonterminal
  <2> QED
    BY <2>3, <2>5 DEF Terminal, Inv, CountInv, PersistedIsCounted
<1> QED
  BY <1>1, InvAlways, PTL DEF Spec, RecoveryCountsOwn

\* A dispatcher that started without a worker beside it, and whose replay limit
\* covers the journal, serves only when every verified follow is counted.
THEOREM FollowStartup == Spec => StartupCountsAll
<1>1. Inv /\ [Next]_vars =>
        [StartupDone /\ disp = "replay" /\ Cardinality(Intents) <= StartupLimit =>
            \A a \in Actions : stage[a] = "verified" => a \in counted]_vars
  BY DEF Inv, StartupInv, StartupDone
<1> QED
  BY <1>1, InvAlways, PTL DEF Spec, StartupCountsAll

\* The Follow sessions implement the tally: only follows that took effect are
\* counted, each once, and none is uncounted.
THEOREM FollowImplementsTally == Spec => TallyPromise
<1>1. Init => Tally!TallyInit
  BY DEF Init, JournalInit, Tally!TallyInit
<1>2. Inv /\ Inv' /\ [Next]_vars => [Tally!TallyNext]_<<following, Counted>>
  BY TallyStep DEF Inv
<1>3. Inv /\ Inv' /\ [Next]_vars => [Tally!TallyNext]_(Tally!tallyVars)
  BY <1>2 DEF Tally!tallyVars, Counted
<1> QED
  BY <1>1, <1>3, InvAlways, PTL DEF Spec, TallyPromise, Tally!TallySpec
=============================================================================
