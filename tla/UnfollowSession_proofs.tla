---------------------- MODULE UnfollowSession_proofs ----------------------
(***************************************************************************)
(* What the Unfollow sessions guarantee for every set of runs and users,   *)
(* every limit and whatever business session each run is given.  The quota *)
(* and the tally need no more than the types and the truth of the events;  *)
(* what a plan may miss needs, in addition, that the reconciliation        *)
(* settles all it has in scope and that an unfollow leaves its attempt     *)
(* open, counted or abandoned.                                             *)
(***************************************************************************)
EXTENDS UnfollowSession, TLAPS, FiniteSetTheorems

Aiming == {"prep", "armed", "tapped", "missed", "persist", "mark"}

\* Where the session uses its action, it has one; a candidate is of its own
\* run, was followed, and is within its budget.
InHand ==
    /\ pc \in Aiming \union {"close"} => cur \in Actions
    /\ pc \in Aiming => RunOfAction(cur) = run /\ UserOf(cur) \in Followed /\ budget > 0

TypeInv == UnfollowTypeOK /\ InHand

\* Action ids are pairs.
LEMMA Pairs ==
  /\ \A a \in Actions : RunOfAction(a) \in Runs /\ UserOf(a) \in Users
                          /\ a = <<RunOfAction(a), UserOf(a)>>
  /\ \A g \in Runs, u \in Users :
        <<g, u>> \in Actions /\ RunOfAction(<<g, u>>) = g /\ UserOf(<<g, u>>) = u
  BY DEF Actions, RunOfAction, UserOf

\* Every step keeps the types.
LEMMA TypeStep == TypeInv /\ [Next]_vars => TypeInv'
<1> SUFFICES ASSUME TypeInv, [Next]_vars PROVE TypeInv'
  OBVIOUS
<1> USE Pairs, UnfollowAssumption
    DEF TypeInv, UnfollowTypeOK, InHand, Aiming, Steps, Following, Stages, Attempted,
        Terminal, durableVars, sessionVars
<1> HIDE DEF Actions
<1>1. CASE SessionEnds
  BY <1>1 DEF SessionEnds, Over, durableVars
<1>2. ASSUME NEW g \in Runs, Start(g) PROVE TypeInv'
  BY <1>2 DEF Start, durableVars, Scoped, Nonterminal
<1>3. ASSUME NEW a \in Actions, SettlePrepared(a) PROVE TypeInv'
  BY <1>3 DEF SettlePrepared, WriteStage
<1>4. ASSUME NEW a \in Actions, SettleByReceipt(a) PROVE TypeInv'
  BY <1>4 DEF SettleByReceipt, WriteStage
<1>5. ASSUME NEW a \in Actions, SettleByObservation(a) PROVE TypeInv'
  BY <1>5 DEF SettleByObservation, Persist, Step
<1>6. CASE CloseReconciled
  BY <1>6 DEF CloseReconciled, WriteStage
<1>7. ASSUME NEW a \in Actions, LeaveUnresolved(a) PROVE TypeInv'
  BY <1>7 DEF LeaveUnresolved, WriteStage, Over
<1>8. CASE Plan
  BY <1>8 DEF Plan, durableVars, Budgets
<1>9. ASSUME NEW u \in Users, Choose(u) PROVE TypeInv'
  BY <1>9 DEF Choose, WriteStage, Step
<1>10. ASSUME NEW u \in Users, AlreadyNotFollowing(u) PROVE TypeInv'
  BY <1>10 DEF AlreadyNotFollowing, sessionVars
<1>11. CASE StartAttempt
  BY <1>11 DEF StartAttempt, WriteStage, Step
<1>12. CASE Tap
  BY <1>12 DEF Tap, Landing, Step
<1>13. CASE TapFails
  BY <1>13 DEF TapFails, Landing, Step
<1>14. CASE AbandonAttempt
  BY <1>14 DEF AbandonAttempt, WriteStage, Over
<1>15. CASE VerifyGone
  BY <1>15 DEF VerifyGone, WriteStage, Step
<1>16. CASE VerifyDoubtful
  BY <1>16 DEF VerifyDoubtful, WriteStage, Over
<1>17. CASE PersistUnfollow
  BY <1>17 DEF PersistUnfollow, Persist, Step
<1>18. CASE PersistUnconfirmed
  BY <1>18 DEF PersistUnconfirmed, Persist, Over
<1>19. CASE MarkPersisted
  BY <1>19 DEF MarkPersisted, WriteStage
<1>20. CASE UNCHANGED vars
  BY <1>20 DEF vars, durableVars, sessionVars
<1> QED
  BY <1>1, <1>2, <1>3, <1>4, <1>5, <1>6, <1>7, <1>8, <1>9, <1>10, <1>11,
     <1>12, <1>13, <1>14, <1>15, <1>16, <1>17, <1>18, <1>19, <1>20
  DEF Next, ReconcileNext, CandidateNext

-----------------------------------------------------------------------------
\* What is closed, or about to be closed, as done is counted.
ClosedInv ==
    /\ ClosedIsCounted
    /\ pc \in {"close", "mark"} => cur \in events

\* Every step closes only over a count.
LEMMA ClosedStep == TypeInv /\ ClosedInv /\ [Next]_vars => ClosedInv'
<1> SUFFICES ASSUME TypeInv, ClosedInv, [Next]_vars PROVE ClosedInv'
  OBVIOUS
<1> USE Pairs, UnfollowAssumption
    DEF ClosedInv, ClosedIsCounted, TypeInv, UnfollowTypeOK, InHand, Aiming, durableVars, sessionVars
<1> HIDE DEF Actions
<1>1. CASE SessionEnds \/ (\E g \in Runs : Start(g))
  BY <1>1 DEF SessionEnds, Start, Over, durableVars
<1>2. ASSUME NEW a \in Actions, SettlePrepared(a) PROVE ClosedInv'
  BY <1>2 DEF SettlePrepared, WriteStage
<1>3. ASSUME NEW a \in Actions, SettleByReceipt(a) PROVE ClosedInv'
  BY <1>3 DEF SettleByReceipt, WriteStage
<1>4. ASSUME NEW a \in Actions, SettleByObservation(a) PROVE ClosedInv'
  BY <1>4 DEF SettleByObservation, Persist, Step
<1>5. CASE CloseReconciled
  BY <1>5 DEF CloseReconciled, WriteStage
<1>6. ASSUME NEW a \in Actions, LeaveUnresolved(a) PROVE ClosedInv'
  BY <1>6 DEF LeaveUnresolved, WriteStage, Over
<1>7. CASE Plan \/ (\E u \in Users : AlreadyNotFollowing(u)) \/ Tap \/ TapFails
  BY <1>7 DEF Plan, AlreadyNotFollowing, Tap, TapFails, Landing, Step,
      durableVars, sessionVars
<1>8. ASSUME NEW u \in Users, Choose(u) PROVE ClosedInv'
  BY <1>8 DEF Choose, WriteStage, Step
<1>9. CASE StartAttempt
  BY <1>9 DEF StartAttempt, WriteStage, Step
<1>10. CASE AbandonAttempt
  BY <1>10 DEF AbandonAttempt, WriteStage, Over
<1>11. CASE VerifyGone
  BY <1>11 DEF VerifyGone, WriteStage, Step
<1>12. CASE VerifyDoubtful
  BY <1>12 DEF VerifyDoubtful, WriteStage, Over
<1>13. CASE PersistUnfollow
  BY <1>13 DEF PersistUnfollow, Persist, Step
<1>14. CASE PersistUnconfirmed
  BY <1>14 DEF PersistUnconfirmed, Persist, Over
<1>15. CASE MarkPersisted
  BY <1>15 DEF MarkPersisted, WriteStage
<1>16. CASE UNCHANGED vars
  BY <1>16 DEF vars, durableVars, sessionVars
<1> QED
  BY <1>1, <1>2, <1>3, <1>4, <1>5, <1>6, <1>7, <1>8, <1>9, <1>10, <1>11,
     <1>12, <1>13, <1>14, <1>15, <1>16
  DEF Next, ReconcileNext, CandidateNext

-----------------------------------------------------------------------------
\* Only users that were followed are acted on, and only those are counted that
\* a tap has unfollowed.
TruthInv ==
    /\ \A a \in Actions : stage[a] # "none" => UserOf(a) \in Followed
    /\ \A a \in todo : stage[a] # "none"
    /\ \A a \in events : UserOf(a) \in landed
    /\ pc = "persist" => UserOf(cur) \in landed

\* Two concordant observations, of which at most one is wrong, tell the truth.
LEMMA ProofNeedsUnfollow ==
  ASSUME NEW u, NEW seen \in Observations(u), Proved(seen)
  PROVE  u \notin Following
  BY DEF Observations, Proved

\* Every step counts only what took effect.
LEMMA TruthStep == TypeInv /\ ClosedInv /\ TruthInv /\ [Next]_vars => TruthInv'
<1> SUFFICES ASSUME TypeInv, ClosedInv, TruthInv, [Next]_vars PROVE TruthInv'
  OBVIOUS
<1> USE Pairs, UnfollowAssumption
    DEF TruthInv, ClosedInv, Following, TypeInv, UnfollowTypeOK, InHand, Aiming, durableVars, sessionVars
<1> HIDE DEF Actions
<1>1. CASE SessionEnds
  BY <1>1 DEF SessionEnds, Over, durableVars
<1>2. ASSUME NEW g \in Runs, Start(g) PROVE TruthInv'
  BY <1>2 DEF Start, durableVars, Scoped, Nonterminal, Attempted
<1>3. ASSUME NEW a \in Actions, SettlePrepared(a) PROVE TruthInv'
  BY <1>3 DEF SettlePrepared, WriteStage
<1>4. ASSUME NEW a \in Actions, SettleByReceipt(a) PROVE TruthInv'
  BY <1>4 DEF SettleByReceipt, WriteStage
<1>5. ASSUME NEW a \in Actions, SettleByObservation(a) PROVE TruthInv'
  BY <1>5, ProofNeedsUnfollow DEF SettleByObservation, Persist, Step
<1>6. CASE CloseReconciled
  BY <1>6 DEF CloseReconciled, WriteStage
<1>7. ASSUME NEW a \in Actions, LeaveUnresolved(a) PROVE TruthInv'
  BY <1>7 DEF LeaveUnresolved, WriteStage, Over
<1>8. CASE Plan \/ (\E u \in Users : AlreadyNotFollowing(u))
  BY <1>8 DEF Plan, AlreadyNotFollowing, durableVars, sessionVars
<1>9. ASSUME NEW u \in Users, Choose(u) PROVE TruthInv'
  BY <1>9 DEF Choose, WriteStage, Step
<1>10. CASE StartAttempt
  BY <1>10 DEF StartAttempt, WriteStage, Step
<1>11. CASE Tap
  BY <1>11 DEF Tap, Landing, Step
<1>12. CASE TapFails
  BY <1>12 DEF TapFails, Landing, Step
<1>13. CASE AbandonAttempt
  BY <1>13 DEF AbandonAttempt, WriteStage, Over
<1>14. CASE VerifyGone
  BY <1>14 DEF VerifyGone, WriteStage, Step
<1>15. CASE VerifyDoubtful
  BY <1>15 DEF VerifyDoubtful, WriteStage, Over
<1>16. CASE PersistUnfollow
  BY <1>16 DEF PersistUnfollow, Persist, Step
<1>17. CASE PersistUnconfirmed
  BY <1>17 DEF PersistUnconfirmed, Persist, Over
<1>18. CASE MarkPersisted
  BY <1>18 DEF MarkPersisted, WriteStage
<1>19. CASE UNCHANGED vars
  BY <1>19 DEF vars, durableVars, sessionVars
<1> QED
  BY <1>1, <1>2, <1>3, <1>4, <1>5, <1>6, <1>7, <1>8, <1>9, <1>10, <1>11,
     <1>12, <1>13, <1>14, <1>15, <1>16, <1>17, <1>18, <1>19
  DEF Next, ReconcileNext, CandidateNext

-----------------------------------------------------------------------------
(* The quota.                                                              *)

QuotaInv ==
    /\ IsFiniteSet(Gone)
    /\ pc \in {"loop", "prep", "armed", "tapped", "missed", "persist"} /\ budget > 0 =>
          Cardinality(Gone) + budget <= DayLimit
    /\ pc = "mark" => Cardinality(Gone) + budget <= DayLimit + 1

\* An event adds one user at most.
LEMMA GoneGrows ==
  ASSUME QuotaInv, NEW a \in Actions, Persist(a)
  PROVE  /\ IsFiniteSet(Gone')
         /\ Cardinality(Gone) \in Nat /\ Cardinality(Gone') \in Nat
         /\ Cardinality(Gone') <= Cardinality(Gone) + 1
<1>1. Gone' = Gone \union {UserOf(a)}
  BY DEF Gone, Persist
<1>2. Cardinality(Gone) \in Nat
  BY FS_CardinalityType DEF QuotaInv
<1>3. /\ IsFiniteSet(Gone')
      /\ Cardinality(Gone') = IF UserOf(a) \in Gone THEN Cardinality(Gone)
                                                   ELSE Cardinality(Gone) + 1
  BY <1>1, FS_AddElement DEF QuotaInv
<1> QED
  BY <1>2, <1>3

\* Every step keeps the budget within what the day leaves.
LEMMA QuotaStep == TypeInv /\ QuotaInv /\ [Next]_vars => QuotaInv'
<1> SUFFICES ASSUME TypeInv, QuotaInv, [Next]_vars PROVE QuotaInv'
  OBVIOUS
<1> USE Pairs, UnfollowAssumption
    DEF QuotaInv, TypeInv, UnfollowTypeOK, InHand, Aiming, durableVars, sessionVars
<1> HIDE DEF Actions
<1>0. Cardinality(Gone) \in Nat
  BY FS_CardinalityType DEF QuotaInv
<1>a. UNCHANGED events => Gone' = Gone
  BY DEF Gone
<1> HIDE DEF Gone
<1>1. CASE \/ SessionEnds \/ (\E g \in Runs : Start(g))
           \/ (\E a \in Actions : SettlePrepared(a))
           \/ (\E a \in Actions : SettleByReceipt(a)) \/ CloseReconciled
           \/ (\E a \in Actions : LeaveUnresolved(a))
  BY <1>1, <1>0, <1>a DEF SessionEnds, Start, SettlePrepared, SettleByReceipt,
      CloseReconciled, LeaveUnresolved, Over, WriteStage, durableVars
<1>2. ASSUME NEW a \in Actions, SettleByObservation(a) PROVE QuotaInv'
  BY <1>2, <1>0, GoneGrows DEF SettleByObservation, Persist, Step
<1>3. CASE Plan
  BY <1>3, <1>0, <1>a DEF Plan, durableVars, Budgets
<1>4. CASE \/ (\E u \in Users : Choose(u))
           \/ (\E u \in Users : AlreadyNotFollowing(u)) \/ StartAttempt \/ Tap
           \/ TapFails \/ AbandonAttempt \/ VerifyGone \/ VerifyDoubtful
  BY <1>4, <1>0, <1>a
  DEF Choose, AlreadyNotFollowing, StartAttempt, Tap, TapFails,
      AbandonAttempt, VerifyGone, VerifyDoubtful, Landing, Over, Step,
      WriteStage, sessionVars
<1>5. CASE PersistUnfollow
  BY <1>5, <1>0, GoneGrows DEF PersistUnfollow, Persist, Step
<1>6. CASE PersistUnconfirmed
  BY <1>6, <1>0, GoneGrows DEF PersistUnconfirmed, Persist, Over
<1>7. CASE MarkPersisted
  BY <1>7, <1>0, <1>a DEF MarkPersisted, WriteStage
<1>8. CASE UNCHANGED vars
  BY <1>8, <1>0, <1>a DEF vars, durableVars, sessionVars
<1> QED
  BY <1>1, <1>2, <1>3, <1>4, <1>5, <1>6, <1>7, <1>8
  DEF Next, ReconcileNext, CandidateNext

-----------------------------------------------------------------------------
(* The reconciliation.                                                     *)

\* Until the plan is made, what the session has in scope is still to settle.
ScopeInv == pc \in {"reconcile", "close"} => Scoped(run) \subseteq todo

\* Every step keeps the scope covered.
LEMMA ScopeStep == TypeInv /\ ScopeInv /\ [Next]_vars => ScopeInv'
<1> SUFFICES ASSUME TypeInv, ScopeInv, [Next]_vars PROVE ScopeInv'
  OBVIOUS
<1> USE Pairs, UnfollowAssumption
    DEF ScopeInv, Scoped, Nonterminal, Attempted, TypeInv, UnfollowTypeOK, InHand,
        Aiming, durableVars, sessionVars
<1> HIDE DEF Actions
<1>1. ASSUME NEW g \in Runs, Start(g) PROVE ScopeInv'
  BY <1>1 DEF Start, durableVars
<1>2. ASSUME NEW a \in Actions, SettlePrepared(a) PROVE ScopeInv'
  BY <1>2 DEF SettlePrepared, WriteStage
<1>3. ASSUME NEW a \in Actions, SettleByReceipt(a) PROVE ScopeInv'
  BY <1>3 DEF SettleByReceipt, WriteStage
<1>4. ASSUME NEW a \in Actions, SettleByObservation(a) PROVE ScopeInv'
  BY <1>4 DEF SettleByObservation, Persist, Step
<1>5. CASE CloseReconciled
  BY <1>5 DEF CloseReconciled, WriteStage
<1>6. CASE SessionEnds \/ (\E a \in Actions : LeaveUnresolved(a)) \/ Plan
  BY <1>6 DEF SessionEnds, LeaveUnresolved, Plan, Over
<1>7. CASE CandidateNext
  BY <1>7
  DEF CandidateNext, Choose, AlreadyNotFollowing, StartAttempt, Tap, TapFails,
      AbandonAttempt, VerifyGone, VerifyDoubtful, PersistUnfollow,
      PersistUnconfirmed, MarkPersisted, Over, Step
<1>8. CASE UNCHANGED vars
  BY <1>8 DEF vars
<1> QED
  BY <1>1, <1>2, <1>3, <1>4, <1>5, <1>6, <1>7, <1>8 DEF Next, ReconcileNext

-----------------------------------------------------------------------------
(* What becomes of an unfollow.                                            *)

Open(u) ==
    u \in Gone \/ \E g \in Runs : stage[<<g, u>>] \in Attempted \union {"abandoned"}

\* Whoever a tap has unfollowed is counted or has an attempt that is open or
\* was abandoned: an attempt is open before its tap.
LandedInv ==
    /\ \A u \in landed : Open(u)
    /\ pc = "armed" => stage[cur] \in Attempted

\* An attempt stays open or abandoned until it is counted.
LEMMA OpenStays ==
  ASSUME TypeInv, ClosedInv, [Next]_vars, NEW u \in Users, Open(u)
  PROVE  Open(u)'
<1> USE Pairs, UnfollowAssumption
    DEF Open, Gone, Attempted, ClosedInv, TypeInv, UnfollowTypeOK, InHand, Aiming,
        durableVars, sessionVars
<1> HIDE DEF Actions
<1>1. CASE \/ SessionEnds \/ (\E g \in Runs : Start(g)) \/ Plan
           \/ (\E v \in Users : AlreadyNotFollowing(v)) \/ Tap \/ TapFails
  BY <1>1 DEF SessionEnds, Start, Plan, AlreadyNotFollowing, Tap, TapFails,
      Landing, Over, Step, durableVars, sessionVars
<1>2. ASSUME NEW a \in Actions, SettlePrepared(a) PROVE Open(u)'
  BY <1>2 DEF SettlePrepared, WriteStage
<1>3. ASSUME NEW a \in Actions, SettleByReceipt(a) PROVE Open(u)'
  BY <1>3 DEF SettleByReceipt, WriteStage
<1>4. ASSUME NEW a \in Actions, SettleByObservation(a) PROVE Open(u)'
  BY <1>4 DEF SettleByObservation, Persist, Step
<1>5. CASE CloseReconciled
  BY <1>5 DEF CloseReconciled, WriteStage
<1>6. ASSUME NEW a \in Actions, LeaveUnresolved(a) PROVE Open(u)'
  BY <1>6 DEF LeaveUnresolved, WriteStage, Over
<1>7. ASSUME NEW v \in Users, Choose(v) PROVE Open(u)'
  BY <1>7 DEF Choose, WriteStage, Step
<1>8. CASE StartAttempt
  BY <1>8 DEF StartAttempt, WriteStage, Step
<1>9. CASE AbandonAttempt
  BY <1>9 DEF AbandonAttempt, WriteStage, Over
<1>10. CASE VerifyGone
  BY <1>10 DEF VerifyGone, WriteStage, Step
<1>11. CASE VerifyDoubtful
  BY <1>11 DEF VerifyDoubtful, WriteStage, Over
<1>12. CASE PersistUnfollow
  BY <1>12 DEF PersistUnfollow, Persist, Step
<1>13. CASE PersistUnconfirmed
  BY <1>13 DEF PersistUnconfirmed, Persist, Over
<1>14. CASE MarkPersisted
  BY <1>14 DEF MarkPersisted, WriteStage
<1>15. CASE UNCHANGED vars
  BY <1>15 DEF vars, durableVars, sessionVars
<1> QED
  BY <1>1, <1>2, <1>3, <1>4, <1>5, <1>6, <1>7, <1>8, <1>9, <1>10, <1>11,
     <1>12, <1>13, <1>14, <1>15
  DEF Next, ReconcileNext, CandidateNext

\* Every step keeps an attempt open for whoever is unfollowed.
LEMMA LandedStep ==
  ASSUME TypeInv, ClosedInv, LandedInv, [Next]_vars
  PROVE  LandedInv'
<1> USE Pairs, UnfollowAssumption DEF TypeInv, UnfollowTypeOK, InHand, Aiming
<1> HIDE DEF Actions
<1>1. \A u \in landed : Open(u)
  BY DEF LandedInv
<1>2. \/ landed' = landed
      \/ (Tap \/ TapFails) /\ landed' = landed \union {UserOf(cur)}
  <2>1. CASE \/ SessionEnds \/ (\E g \in Runs : Start(g))
             \/ (\E a \in Actions : SettlePrepared(a))
             \/ (\E a \in Actions : SettleByReceipt(a))
             \/ (\E a \in Actions : SettleByObservation(a)) \/ CloseReconciled
             \/ (\E a \in Actions : LeaveUnresolved(a)) \/ Plan
    BY <2>1 DEF SessionEnds, Start, SettlePrepared, SettleByReceipt,
        SettleByObservation, CloseReconciled, LeaveUnresolved, Plan, Over,
        Persist, Step, WriteStage, durableVars
  <2>2. CASE \/ (\E u \in Users : Choose(u))
             \/ (\E u \in Users : AlreadyNotFollowing(u)) \/ StartAttempt
             \/ AbandonAttempt \/ VerifyGone \/ VerifyDoubtful
    BY <2>2 DEF Choose, AlreadyNotFollowing, StartAttempt, AbandonAttempt,
        VerifyGone, VerifyDoubtful, Over, Step, WriteStage, sessionVars
  <2>3. CASE Tap \/ TapFails
    BY <2>3 DEF Tap, TapFails, Landing
  <2>4. CASE PersistUnfollow \/ PersistUnconfirmed \/ MarkPersisted
    BY <2>4
    DEF PersistUnfollow, PersistUnconfirmed, MarkPersisted, Over, Persist,
        Step, WriteStage
  <2>5. CASE UNCHANGED vars
    BY <2>5 DEF vars, durableVars, sessionVars
  <2> QED
    BY <2>1, <2>2, <2>3, <2>4, <2>5
    DEF Next, ReconcileNext, CandidateNext
<1>3. \A u \in landed' : Open(u)'
  <2> TAKE u \in landed'
  <2>1. CASE u \in landed
    BY <1>1, <2>1, OpenStays
  <2>2. CASE u \notin landed
    <3>1. (Tap \/ TapFails) /\ u = UserOf(cur)
      BY <1>2, <2>2
    <3>2. stage[cur] \in Attempted /\ stage' = stage /\ cur \in Actions
      BY <3>1 DEF Tap, TapFails, LandedInv
    <3> QED
      BY <3>1, <3>2 DEF Open
  <2> QED
    BY <2>1, <2>2
<1>4. (pc = "armed" => stage[cur] \in Attempted)'
  <2> USE DEF LandedInv, Attempted, durableVars, sessionVars
  <2>1. CASE \/ SessionEnds \/ (\E g \in Runs : Start(g))
             \/ (\E a \in Actions : SettlePrepared(a))
             \/ (\E a \in Actions : SettleByReceipt(a))
             \/ (\E a \in Actions : SettleByObservation(a)) \/ CloseReconciled
             \/ (\E a \in Actions : LeaveUnresolved(a)) \/ Plan
    BY <2>1 DEF SessionEnds, Start, SettlePrepared, SettleByReceipt,
        SettleByObservation, CloseReconciled, LeaveUnresolved, Plan, Over,
        Persist, Step, WriteStage, durableVars
  <2>2. CASE \/ (\E u \in Users : Choose(u))
             \/ (\E u \in Users : AlreadyNotFollowing(u)) \/ Tap \/ TapFails
             \/ AbandonAttempt \/ VerifyGone \/ VerifyDoubtful
             \/ PersistUnfollow \/ PersistUnconfirmed \/ MarkPersisted
    BY <2>2 DEF Choose, AlreadyNotFollowing, Tap, TapFails, AbandonAttempt,
        VerifyGone, VerifyDoubtful, PersistUnfollow, PersistUnconfirmed,
        MarkPersisted, Landing, Over, Persist, Step, WriteStage,
        sessionVars
  <2>3. CASE StartAttempt
    BY <2>3 DEF StartAttempt, WriteStage, Step
  <2>4. CASE UNCHANGED vars
    BY <2>4 DEF vars, durableVars, sessionVars
  <2> QED
    BY <2>1, <2>2, <2>3, <2>4
    DEF Next, ReconcileNext, CandidateNext
<1> QED
  BY <1>3, <1>4 DEF LandedInv

-----------------------------------------------------------------------------
(* The tally.                                                              *)

\* A step counts one action or lands one unfollow, never both.
LEMMA OneAtATime ==
  ASSUME TypeInv, [Next]_vars
  PROVE  \/ events' = events /\ landed' = landed
         \/ \E a \in Actions : Persist(a) /\ landed' = landed
         \/ \E u \in Users : events' = events /\ landed' = landed \union {u}
<1> DEFINE Goal == \/ events' = events /\ landed' = landed
                   \/ \E a \in Actions : Persist(a) /\ landed' = landed
                   \/ \E u \in Users : events' = events /\ landed' = landed \union {u}
<1> SUFFICES Goal
  OBVIOUS
<1> USE Pairs DEF TypeInv, InHand, Aiming, durableVars, sessionVars
<1> HIDE DEF Actions
<1>1. CASE \/ SessionEnds \/ (\E g \in Runs : Start(g))
           \/ (\E a \in Actions : SettlePrepared(a))
           \/ (\E a \in Actions : SettleByReceipt(a)) \/ CloseReconciled
           \/ (\E a \in Actions : LeaveUnresolved(a)) \/ Plan
  BY <1>1 DEF SessionEnds, Start, SettlePrepared, SettleByReceipt,
      CloseReconciled, LeaveUnresolved, Plan, Over, WriteStage,
      durableVars
<1>2. ASSUME NEW a \in Actions, SettleByObservation(a) PROVE Goal
  BY <1>2 DEF SettleByObservation, Persist, Step
<1>3. CASE \/ (\E u \in Users : Choose(u))
           \/ (\E u \in Users : AlreadyNotFollowing(u)) \/ StartAttempt
           \/ AbandonAttempt \/ VerifyGone \/ VerifyDoubtful \/ MarkPersisted
  BY <1>3 DEF Choose, AlreadyNotFollowing, StartAttempt, AbandonAttempt,
      VerifyGone, VerifyDoubtful, MarkPersisted, Over, Step, WriteStage,
      sessionVars
<1>4. CASE Tap
  BY <1>4 DEF Tap, Landing, Step
<1>5. CASE TapFails
  BY <1>5 DEF TapFails, Landing, Step
<1>6. CASE PersistUnfollow
  BY <1>6 DEF PersistUnfollow, Persist, Step
<1>7. CASE PersistUnconfirmed
  BY <1>7 DEF PersistUnconfirmed, Persist, Over
<1>8. CASE UNCHANGED vars
  BY <1>8 DEF vars, durableVars, sessionVars
<1> QED
  BY <1>1, <1>2, <1>3, <1>4, <1>5, <1>6, <1>7, <1>8
  DEF Next, ReconcileNext, CandidateNext

\* Every step is a step of the tally, or leaves it alone.
LEMMA TallyStep ==
  ASSUME TypeInv, TruthInv', [Next]_vars
  PROVE  [Tally!TallyNext]_<<landed, Gone>>
<1>1. CASE events' = events /\ landed' = landed
  BY <1>1 DEF Gone
<1>2. ASSUME NEW a \in Actions, Persist(a), landed' = landed
      PROVE  [Tally!TallyNext]_<<landed, Gone>>
  <2>1. Gone' = Gone \union {UserOf(a)}
    BY <1>2 DEF Gone, Persist
  <2>2. UserOf(a) \in landed /\ UserOf(a) \in Users
    BY <1>2, Pairs DEF TruthInv, Persist
  <2>3. CASE UserOf(a) \in Gone
    BY <1>2, <2>1, <2>3
  <2>4. CASE UserOf(a) \notin Gone
    <3>1. Tally!Tally(UserOf(a))
      BY <1>2, <2>1, <2>2, <2>4 DEF Tally!Tally
    <3> QED
      BY <2>2, <3>1 DEF Tally!TallyNext
  <2> QED
    BY <2>3, <2>4
<1>3. ASSUME NEW u \in Users, events' = events, landed' = landed \union {u}
      PROVE  [Tally!TallyNext]_<<landed, Gone>>
  <2>1. Gone' = Gone
    BY <1>3 DEF Gone
  <2>2. CASE u \in landed
    BY <1>3, <2>1, <2>2
  <2>3. CASE u \notin landed
    <3>1. Tally!Act(u)
      BY <1>3, <2>1, <2>3 DEF Tally!Act
    <3> QED
      BY <3>1 DEF Tally!TallyNext
  <2> QED
    BY <2>2, <2>3
<1> QED
  BY <1>1, <1>2, <1>3, OneAtATime

-----------------------------------------------------------------------------
(* The theorems.                                                           *)

\* The inductive invariant, whatever the constants.
Inv == TypeInv /\ ClosedInv /\ TruthInv /\ QuotaInv

\* It holds at the start.
LEMMA InvInit == Init => Inv
<1> SUFFICES ASSUME Init PROVE Inv
  OBVIOUS
<1>1. TypeInv
  BY UnfollowAssumption
  DEF Init, TypeInv, UnfollowTypeOK, InHand, Aiming, Steps, Stages
<1>2. ClosedInv /\ TruthInv
  BY DEF Init, ClosedInv, ClosedIsCounted, TruthInv
<1>3. Gone = {}
  BY DEF Init, Gone
<1>4. QuotaInv
  BY <1>3, FS_EmptySet DEF Init, QuotaInv
<1> QED
  BY <1>1, <1>2, <1>4 DEF Inv

\* It holds throughout.
LEMMA InvAlways == Spec => []Inv
<1>1. Inv /\ [Next]_vars => Inv'
  BY TypeStep, ClosedStep, TruthStep, QuotaStep DEF Inv
<1> QED
  BY InvInit, <1>1, PTL DEF Spec

\* Every variable keeps its type.
THEOREM UnfollowTypes == Spec => []UnfollowTypeOK
<1>1. Inv => UnfollowTypeOK
  BY DEF Inv, TypeInv
<1> QED
  BY <1>1, InvAlways, PTL

\* An intent is closed as persisted or reconciled only over a canonical event.
THEOREM UnfollowClosed == Spec => []ClosedIsCounted
<1>1. Inv => ClosedIsCounted
  BY DEF Inv, ClosedInv
<1> QED
  BY <1>1, InvAlways, PTL

\* No tap is sent once the day's count has reached the day's limit.
THEOREM UnfollowQuota == Spec => TapsWithinQuota
<1>1. Inv /\ [Next]_vars => [Tap => Cardinality(Gone) < DayLimit]_vars
  <2> SUFFICES ASSUME Inv, Tap PROVE Cardinality(Gone) < DayLimit
    OBVIOUS
  <2>1. pc = "armed" /\ budget > 0 /\ budget \in Nat
    BY UnfollowAssumption
    DEF Tap, Inv, TypeInv, UnfollowTypeOK, InHand, Aiming
  <2>2. Cardinality(Gone) \in Nat /\ Cardinality(Gone) + budget <= DayLimit
    BY <2>1, FS_CardinalityType DEF Inv, QuotaInv
  <2> QED
    BY <2>1, <2>2, UnfollowAssumption
<1> QED
  BY <1>1, InvAlways, PTL DEF Spec, TapsWithinQuota

\* The Unfollow sessions implement the tally: only unfollows that took effect
\* are counted, each once, and none is uncounted.
THEOREM UnfollowImplementsTally == Spec => TallyPromise
<1>1. Init => Tally!TallyInit
  BY DEF Init, Gone, Tally!TallyInit
<1>2. Inv /\ Inv' /\ [Next]_vars => [Tally!TallyNext]_(Tally!tallyVars)
  BY TallyStep DEF Inv, Tally!tallyVars
<1> QED
  BY <1>1, <1>2, InvAlways, PTL DEF Spec, TallyPromise, Tally!TallySpec

\* Whatever business session each run is given, a plan misses an unfollow only
\* when its attempt was abandoned, or is open in another business session.
THEOREM UnfollowPlan == Spec => PlanMissesOnlyOpen
<1>1. Init => ScopeInv /\ LandedInv
  BY DEF Init, ScopeInv, LandedInv
<1>2. Inv /\ ScopeInv /\ LandedInv /\ [Next]_vars => ScopeInv' /\ LandedInv'
  BY ScopeStep, LandedStep DEF Inv
<1>3. Inv /\ ScopeInv /\ LandedInv /\ [Next]_vars =>
        [Plan => \A u \in landed \ Gone : MissedByRight(u)]_vars
  <2> SUFFICES ASSUME Inv, ScopeInv, LandedInv, Plan, NEW u \in landed \ Gone
               PROVE  MissedByRight(u)
    OBVIOUS
  <2>1. Scoped(run) = {}
    BY DEF Plan, ScopeInv
  <2>2. u \in Users
    BY UnfollowAssumption DEF Inv, TypeInv, UnfollowTypeOK
  <2>3. PICK g \in Runs : stage[<<g, u>>] \in Attempted \union {"abandoned"}
    BY DEF LandedInv, Open
  <2>4. CASE stage[<<g, u>>] \in Attempted
    <3>1. <<g, u>> \in Nonterminal /\ RunOfAction(<<g, u>>) = g
      BY <2>2, <2>4, Pairs DEF Nonterminal
    <3>2. SessionOf[g] # SessionOf[run]
      BY <2>1, <3>1 DEF Scoped
    <3> QED
      BY <2>4, <3>2 DEF MissedByRight
  <2> QED
    BY <2>3, <2>4 DEF MissedByRight
<1> QED
  BY <1>1, <1>2, <1>3, InvAlways, PTL DEF Spec, PlanMissesOnlyOpen
=============================================================================
