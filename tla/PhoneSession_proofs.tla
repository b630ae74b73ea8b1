------------------------- MODULE PhoneSession_proofs -------------------------
(***************************************************************************)
(* The plane implements the phone session.  A step of the plane enters one *)
(* worker, assigns one, closes one run, answers one request, or moves      *)
(* workers off the phone at most; the invariants of DriverBacking_proofs   *)
(* say that it does so when the session allows.                            *)
(***************************************************************************)
EXTENDS DriverBacking_proofs

Place(g) == PlaceOf(cpc[g])
Answered(r) == OutcomeOf(status[r])
Closed(g) == OutcomeOf(igStatus[g])

StaysPut(g) == PlaceOf(cpc'[g]) = Place(g) /\ (cpc'[g] = "none" => cpc[g] = "none")
GoesOver(g) == PlaceOf(cpc'[g]) = "over"
OnlyMoves(g) == \A h \in Runs : StaysPut(h) \/ (h = g /\ GoesOver(h))
AnswersSame == \A r \in Requests : OutcomeOf(status'[r]) = Answered(r)
ResultsSame == \A g \in Runs : OutcomeOf(igStatus'[g]) = Closed(g)

Leaving ==
    /\ AnswersSame /\ ResultsSame /\ creq' = creq
    /\ \A g \in Runs : StaysPut(g) \/ GoesOver(g)

Entering(g) ==
    /\ AnswersSame /\ ResultsSame /\ creq' = creq
    /\ cpc[g] = "gate"
    /\ cpc'[g] = "work"
    /\ \A h \in Runs : h # g => cpc'[h] = cpc[h]

Assigning(g, r) ==
    /\ AnswersSame /\ ResultsSame
    /\ cpc[g] = "none"
    /\ cpc' = [cpc EXCEPT ![g] = "boot"]
    /\ creq' = [creq EXCEPT ![g] = r]

Closing(g) ==
    /\ AnswersSame /\ creq' = creq
    /\ igStatus[g] \notin RunTerminal
    /\ igStatus'[g] \in RunTerminal
    /\ igStatus'[g] = "completed" => cpc[g] = "cleanup"
    /\ \A h \in Runs : h # g => igStatus'[h] = igStatus[h]
    /\ OnlyMoves(g)

Answering(r) ==
    /\ ResultsSame /\ creq' = creq
    /\ status[r] \notin TerminalStatus
    /\ status'[r] \in TerminalStatus
    /\ status'[r] = "completed" => \E g \in Runs : creq[g] = r /\ igStatus[g] = "completed"
    /\ \A q \in Requests : q # r => status'[q] = status[q]
    /\ \/ \A h \in Runs : StaysPut(h)
       \/ \E g \in Runs : creq[g] = r /\ ~Driving(g) /\ OnlyMoves(g)

SessionMove ==
    \/ Leaving
    \/ \E g \in Runs : Entering(g) \/ Closing(g) \/ \E r \in Requests : Assigning(g, r)
    \/ \E r \in Requests : Answering(r)

\* A worker that was never launched has no request.
Unassigned == \A g \in Runs : cpc[g] = "none" => creq[g] = NoRequest

-----------------------------------------------------------------------------
(* What the kinds of steps are in the session.                             *)

LEMMA OutcomeValues ==
  ASSUME NEW s
  PROVE  /\ s \in TerminalStatus \union RunTerminal => OutcomeOf(s) = s /\ s # "open"
         /\ s \notin TerminalStatus \union RunTerminal => OutcomeOf(s) = "open"
  BY DEF OutcomeOf, TerminalStatus, RunTerminal

LEMMA StatusOutcomes ==
  ASSUME LedgerTypeOK
  PROVE  /\ \A r \in Requests : Answered(r) = IF status[r] \in TerminalStatus THEN status[r] ELSE "open"
         /\ \A g \in Runs : Closed(g) = IF igStatus[g] \in RunTerminal THEN igStatus[g] ELSE "open"
  BY OutcomeValues
  DEF LedgerTypeOK, Answered, Closed, OutcomeOf, TerminalStatus, RunTerminal, ActiveStatus, InFlight

LEMMA LeavingLeaves ==
  ASSUME Leaving
  PROVE  Session!Next
<1> DEFINE S == {g \in Runs : GoesOver(g)}
<1>1. [g \in Runs |-> PlaceOf(cpc'[g])] = [g \in Runs |-> IF g \in S THEN "over" ELSE PlaceOf(cpc[g])]
  BY DEF Leaving, StaysPut, GoesOver, Place
<1>2. /\ [g \in Runs |-> OutcomeOf(igStatus'[g])] = [g \in Runs |-> OutcomeOf(igStatus[g])]
      /\ [r \in Requests |-> OutcomeOf(status'[r])] = [r \in Requests |-> OutcomeOf(status[r])]
  BY DEF Leaving, AnswersSame, ResultsSame, Answered, Closed
<1>3. \A g \in Runs : [h \in Runs |-> PlaceOf(cpc[h])][g] = PlaceOf(cpc[g])
  OBVIOUS
<1>4. Session!Leave(S)
  BY <1>1, <1>2, <1>3 DEF Session!Leave, Leaving
<1> QED
  BY <1>4 DEF Session!Next

LEMMA EnteringEnters ==
  ASSUME ControlInv, BackingInv', OneContender', AutoRequests = {}, LedgerTypeOK,
         NEW g \in Runs, Entering(g)
  PROVE  Session!Next
<1> USE DEF Exited
<1>type. PlaneTypeOK
  BY ControlInvSplit
<1>serve. creq[g] \in Requests
  BY <1>type DEF Entering, PlaneTypeOK, ChildrenServe
<1>on. cpc'[g] = "work" /\ \A h \in Runs : h # g => cpc'[h] = cpc[h]
  BY DEF Entering
<1>1. status'[creq[g]] = "running" /\ igStatus'[g] = "running"
  BY <1>on DEF BackingInv, ChildRows, Driving, Backed, Entering
<1>2. OutcomeOf(status[creq[g]]) = "open" /\ OutcomeOf(igStatus[g]) = "open"
  BY <1>1, <1>serve, OutcomeValues
  DEF Entering, AnswersSame, ResultsSame, Answered, Closed, TerminalStatus, RunTerminal
<1>3. ASSUME NEW h \in Runs, PlaceOf(cpc[h]) = "on"
      PROVE  PhoneFor(creq[h]) # PhoneFor(creq[g]) /\ creq[h] \in Requests
  <2>1. h # g /\ cpc[h] \in {"work", "cleanup"}
    BY <1>3 DEF PlaceOf, Entering
  <2>2. creq[h] \in Requests
    BY <2>1, <1>type DEF PlaneTypeOK, ChildrenServe
  <2>3. Contends(h)' /\ Contends(g)'
    <3>1. Driving(h)' /\ Driving(g)'
      BY <2>1, <1>on DEF Driving
    <3>2. Backed(h)' /\ Backed(g)'
      BY <3>1 DEF BackingInv, ChildRows
    <3> QED
      BY <3>1, <3>2 DEF Contends, Driving, Backed, Live, Active, ActiveStatus, InFlight
  <2> QED
    BY <2>1, <2>2, <2>3 DEF OneContender, Entering
<1>place. [h \in Runs |-> PlaceOf(cpc'[h])] = [[h \in Runs |-> PlaceOf(cpc[h])] EXCEPT ![g] = "on"]
  BY <1>on DEF PlaceOf
<1>same. /\ [h \in Runs |-> OutcomeOf(igStatus'[h])] = [h \in Runs |-> OutcomeOf(igStatus[h])]
         /\ [r \in Requests |-> OutcomeOf(status'[r])] = [r \in Requests |-> OutcomeOf(status[r])]
         /\ creq' = creq
  BY DEF Entering, AnswersSame, ResultsSame, Answered, Closed
<1>before. PlaceOf(cpc[g]) = "before"
  BY DEF Entering, PlaceOf
<1>4. Session!Enter(g)
  BY <1>serve, <1>2, <1>3, <1>place, <1>same, <1>before DEF Session!Enter
<1> QED
  BY <1>4 DEF Session!Next

LEMMA AssigningAssigns ==
  ASSUME ControlInv, Unassigned, NEW g \in Runs, NEW r \in Requests, Assigning(g, r)
  PROVE  Session!Next
<1>type. PlaneTypeOK
  BY ControlInvSplit
<1>place. [h \in Runs |-> PlaceOf(cpc'[h])] = [h \in Runs |-> PlaceOf(cpc[h])]
  BY <1>type DEF Assigning, PlaneTypeOK, PlaceOf
<1>same. /\ [h \in Runs |-> OutcomeOf(igStatus'[h])] = [h \in Runs |-> OutcomeOf(igStatus[h])]
         /\ [q \in Requests |-> OutcomeOf(status'[q])] = [q \in Requests |-> OutcomeOf(status[q])]
  BY DEF Assigning, AnswersSame, ResultsSame, Answered, Closed
<1>1. PlaceOf(cpc[g]) = "before" /\ creq[g] = NoRequest /\ creq' = [creq EXCEPT ![g] = r]
  BY DEF Assigning, PlaceOf, Unassigned
<1>2. Session!Assign(g, r)
  BY <1>place, <1>same, <1>1 DEF Session!Assign
<1> QED
  BY <1>2 DEF Session!Next

\* Moving one worker at most.
LEMMA OneMove ==
  ASSUME NEW g \in Runs, OnlyMoves(g)
  PROVE  Session!MayLeave(g)
<1> DEFINE P == [h \in Runs |-> PlaceOf(cpc[h])]
           Q == [h \in Runs |-> PlaceOf(cpc'[h])]
<1>1. CASE StaysPut(g)
  <2>1. Q = P
    BY <1>1 DEF OnlyMoves, StaysPut, Place
  <2> QED
    BY <2>1 DEF Session!MayLeave
<1>2. CASE GoesOver(g)
  <2>1. Q = [P EXCEPT ![g] = "over"]
    BY <1>2 DEF OnlyMoves, StaysPut, GoesOver, Place
  <2> QED
    BY <2>1 DEF Session!MayLeave
<1> QED
  BY <1>1, <1>2 DEF OnlyMoves

LEMMA ClosingCloses ==
  ASSUME ControlInv, ControlInv', BackingInv', NEW g \in Runs, Closing(g)
  PROVE  Session!Next
<1>type. LedgerTypeOK /\ LedgerTypeOK'
  BY ControlInvSplit DEF ControlInv, RunControlTypeOK
<1> DEFINE v == igStatus'[g]
<1>1. v \in RunTerminal /\ OutcomeOf(v) = v
  BY OutcomeValues DEF Closing
<1>2. OutcomeOf(igStatus[g]) = "open"
  BY <1>type, StatusOutcomes DEF Closing, Closed
<1>3. [h \in Runs |-> OutcomeOf(igStatus'[h])] = [[h \in Runs |-> OutcomeOf(igStatus[h])] EXCEPT ![g] = v]
  BY <1>1 DEF Closing
<1>4. [r \in Requests |-> OutcomeOf(status'[r])] = [r \in Requests |-> OutcomeOf(status[r])]
  BY DEF Closing, AnswersSame, Answered
<1>5. PlaceOf(cpc'[g]) # "on"
  BY <1>1 DEF PlaceOf, BackingInv, ChildRows, Driving, Backed, RunTerminal
<1>6. v = "completed" => PlaceOf(cpc[g]) = "on"
  BY DEF Closing, PlaceOf
<1>7. Session!MayLeave(g)
  BY OneMove DEF Closing
<1>8. creq' = creq
  BY DEF Closing
<1> HIDE DEF v
<1>9. Session!Close(g, v)
  BY <1>2, <1>3, <1>4, <1>5, <1>6, <1>7, <1>8 DEF Session!Close
<1> QED
  BY <1>1, <1>9 DEF Session!Next

LEMMA AnsweringAnswers ==
  ASSUME ControlInv, BackingInv', NEW r \in Requests, Answering(r)
  PROVE  Session!Next
<1>type. LedgerTypeOK
  BY ControlInvSplit
<1> DEFINE v == status'[r]
<1>1. v \in TerminalStatus /\ OutcomeOf(v) = v
  BY OutcomeValues DEF Answering
<1>2. OutcomeOf(status[r]) = "open"
  BY <1>type, StatusOutcomes DEF Answering, Answered
<1>3. [q \in Requests |-> OutcomeOf(status'[q])] = [[q \in Requests |-> OutcomeOf(status[q])] EXCEPT ![r] = v]
  BY <1>1 DEF Answering
<1>4. /\ [h \in Runs |-> OutcomeOf(igStatus'[h])] = [h \in Runs |-> OutcomeOf(igStatus[h])]
      /\ creq' = creq
  BY DEF Answering, ResultsSame, Closed
<1>5. ASSUME NEW g \in Runs, creq[g] = r PROVE PlaceOf(cpc[g]) # "on"
  <2>1. PlaceOf(cpc'[g]) # "on"
    BY <1>1, <1>4, <1>5 DEF PlaceOf, BackingInv, ChildRows, Driving, Backed, TerminalStatus
  <2> QED
    BY <2>1 DEF Answering, StaysPut, OnlyMoves, Place, PlaceOf, Driving
<1>6. v = "completed" => \E g \in Runs : creq[g] = r /\ OutcomeOf(igStatus[g]) = "completed"
  BY OutcomeValues DEF Answering, TerminalStatus
<1>7. \/ [h \in Runs |-> PlaceOf(cpc'[h])] = [h \in Runs |-> PlaceOf(cpc[h])]
      \/ \E g \in Runs : creq[g] = r /\ Session!MayLeave(g)
  BY OneMove DEF Answering, StaysPut, Place
<1> HIDE DEF v
<1>8. Session!Answer(r, v)
  BY <1>2, <1>3, <1>4, <1>5, <1>6, <1>7 DEF Session!Answer
<1> QED
  BY <1>1, <1>8 DEF Session!Next

-----------------------------------------------------------------------------
(* Every step of the plane is one of these.                                *)

\* A completed request is linked, and its run completed before it.
LEMMA CompletedComes ==
  ASSUME ControlInv, LedgerInv, BackingInv, CompletedInv, CompletedInv', [Next]_vars,
         NEW r \in Requests, status[r] # "completed", status'[r] = "completed",
         runOf[r] # NoRun, igStatus' = igStatus
  PROVE  \E g \in Runs : creq[g] = r /\ igStatus[g] = "completed"
<1>1. runOf'[r] = runOf[r] /\ runOf[r] \in Runs
  BY ControlLedgerStep, FinalOutcomeLemma, ControlInvSplit
  DEF LedgerStep, FinalOutcomeStep, LedgerTypeOK
<1>2. igStatus[runOf[r]] = "completed"
  BY <1>1 DEF CompletedInv, CompletedMeansCompleted
<1> QED
  BY <1>1, <1>2 DEF BackingInv, LinkedRuns

LEMMA SameAnswers ==
  ASSUME \A r \in Requests : SameRow(r)
  PROVE  AnswersSame
  BY DEF SameRow, AnswersSame, Answered

LEMMA QuietMove ==
  ASSUME UNCHANGED <<queueVars, childVars>>
  PROVE  Leaving
  BY DEF queueVars, ledgerVars, runVars, childVars, Leaving, AnswersSame, ResultsSame, Answered,
     Closed, StaysPut, Place

\* A call of complete_account_run_request that moves nobody.
LEMMA CompletingMove ==
  ASSUME ControlInv, LedgerInv, BackingInv, CompletedInv, CompletedInv', [Next]_vars,
         NEW r \in Requests, NEW v \in TerminalStatus, TryComplete(Me, r, v),
         v = "completed" => runOf[r] # NoRun, UNCHANGED <<cpc, creq>>
  PROVE  Leaving \/ Answering(r)
<1>type. LedgerTypeOK
  BY ControlInvSplit
<1>0. UNCHANGED igStatus /\ ResultsSame
  BY <1>type, TryCompleteEffect DEF ResultsSame, Closed
<1>put. \A h \in Runs : StaysPut(h)
  BY DEF StaysPut, Place
<1>1. CASE UNCHANGED queueVars
  BY <1>1, <1>0, <1>put DEF queueVars, ledgerVars, Leaving, AnswersSame, Answered
<1>2. CASE Complete(Me, r, v)
  <2>1. /\ status[r] \in InFlight /\ status'[r] = v
        /\ \A q \in Requests : q # r => status'[q] = status[q]
    BY <1>2, <1>type DEF Complete, CanComplete, LedgerTypeOK
  <2>2. status[r] \notin TerminalStatus
    BY <2>1 DEF InFlight, TerminalStatus
  <2>3. v = "completed" => \E g \in Runs : creq[g] = r /\ igStatus[g] = "completed"
    BY <1>0, <2>1, <2>2, CompletedComes DEF TerminalStatus
  <2> QED
    BY <1>0, <1>put, <2>1, <2>2, <2>3 DEF Answering
<1> QED
  BY <1>1, <1>2 DEF TryComplete

\* How a worker exits: it settles its request from a cancel check or after the
\* publication only, and closes its run only when the link is refused.
LEMMA ChildExits ==
  ASSUME ControlInv, BackingInv, NEW g \in Runs, ChildStep(g), cpc'[g] \in Exited
  PROVE  \/ UNCHANGED queueVars
         \/ cpc[g] = "link" /\ PatchRun(g, "failed")
         \/ cpc[g] \in {"unlinked", "gate"} /\ TryComplete(Me, creq[g], "canceled")
         \/ cpc[g] = "close" /\ TryComplete(Me, creq[g], RequestStatusFor(cres[g]))
<1>cpc. cpc \in [Runs -> {"none", "boot", "link", "unlinked", "gate", "work", "cleanup", "close"}
                         \union Exited]
  BY ControlInvSplit DEF PlaneTypeOK
<1>goto. ASSUME NEW pc, cpc' = [cpc EXCEPT ![g] = pc] PROVE pc \in Exited
  BY <1>goto, <1>cpc
<1>1. CASE ChildCreateRun(g) \/ ChildEndWork(g)
  BY <1>1, <1>goto DEF ChildCreateRun, ChildEndWork, Goto, Exited
<1>2. CASE ChildLink(g)
  BY <1>2, <1>goto DEF ChildLink, LinkMissed, Goto, Exited
<1>3. CASE ChildLinkFails(g)
  BY <1>3, <1>goto DEF ChildLinkFails, LinkMissed, Goto, Exited
<1>4. CASE ChildUnlinked(g) \/ ChildGate(g) \/ ChildGateFails(g)
  BY <1>4, <1>goto DEF ChildUnlinked, ChildGate, ChildGateFails, ChildAborts, Goto, Exited
<1>5. CASE ChildPublish(g)
  BY <1>5, <1>goto DEF ChildPublish, Goto, Exited
<1>6. CASE ChildClose(g)
  BY <1>6 DEF ChildClose
<1> QED
  BY <1>1, <1>2, <1>3, <1>4, <1>5, <1>6
  DEF ChildStep, ChildProceeds, ChildFails, ChildBail, ChildCreateRunFails, ChildSetupFails,
      ChildPublishFails, ChildCloseFails, ChildStopped, ChildDies

LEMMA ChildSessionMove ==
  ASSUME Orderly, ControlInv, LedgerInv, BackingInv, CompletedInv, CompletedInv', [Next]_vars,
         NEW g \in Runs, ChildStep(g)
  PROVE  SessionMove
<1> USE DEF Exited
<1> DEFINE r == creq[g]
<1>type. PlaneTypeOK /\ LedgerTypeOK
  BY ControlInvSplit
<1>move. /\ Live(g) /\ r \in Requests /\ creq' = creq
         /\ \A h \in Runs : h # g => cpc'[h] = cpc[h] /\ igStatus'[h] = igStatus[h]
         /\ \A q \in Requests : q # r => status'[q] = status[q]
         /\ ChildMove(g)
  BY ChildMoves DEF ChildEffect, OthersSame, SameRow
<1>others. \A h \in Runs : h # g => StaysPut(h) /\ OutcomeOf(igStatus'[h]) = Closed(h)
  BY <1>move DEF StaysPut, Place, Closed
<1>rest. \A q \in Requests : q # r => OutcomeOf(status'[q]) = Answered(q)
  BY <1>move DEF Answered
<1>old. igStatus[g] \in RunTerminal => igStatus'[g] = igStatus[g]
  BY WritersLook
<1>open. igStatus'[g] = "running" => OutcomeOf(igStatus'[g]) = Closed(g)
  BY <1>old, <1>type, StatusOutcomes, OutcomeValues DEF TerminalStatus, RunTerminal
<1>1. CASE cpc'[g] \in Exited
  <2>over. GoesOver(g) /\ OnlyMoves(g)
    BY <1>1, <1>others DEF GoesOver, OnlyMoves, PlaceOf
  <2>try. ASSUME NEW v \in TerminalStatus, TryComplete(Me, r, v), cpc[g] \in {"unlinked", "gate", "close"},
                 v = "completed" => runOf[r] # NoRun
          PROVE  Leaving \/ Answering(r)
    <3>0. UNCHANGED igStatus /\ ResultsSame
      BY <2>try, <1>move, <1>type, TryCompleteEffect DEF ResultsSame, Closed
    <3>1. CASE UNCHANGED queueVars
      BY <3>0, <3>1, <2>over, <1>move
      DEF queueVars, ledgerVars, Leaving, AnswersSame, Answered, OnlyMoves
    <3>2. CASE Complete(Me, r, v)
      <4>1. status[r] \in InFlight /\ status'[r] = v
        BY <3>2, <1>move, <1>type DEF Complete, CanComplete, LedgerTypeOK
      <4>2. status[r] \notin TerminalStatus
        BY <4>1 DEF InFlight, TerminalStatus
      <4>3. v = "completed" => \E h \in Runs : creq[h] = r /\ igStatus[h] = "completed"
        BY <2>try, <3>0, <4>1, <4>2, <1>move, CompletedComes DEF TerminalStatus
      <4> QED
        BY <2>try, <3>0, <4>1, <4>2, <4>3, <2>over, <1>move DEF Answering, Driving
    <3> QED
      BY <2>try, <3>1, <3>2 DEF TryComplete
  <2>1. CASE UNCHANGED queueVars
    <3>1. AnswersSame /\ ResultsSame
      BY <2>1 DEF queueVars, ledgerVars, runVars, AnswersSame, ResultsSame, Answered, Closed
    <3> QED
      BY <3>1, <2>over, <1>move DEF Leaving, OnlyMoves, SessionMove
  <2>2. CASE cpc[g] = "link" /\ PatchRun(g, "failed")
    <3>1. UNCHANGED ledgerVars /\ igStatus'[g] = "failed" /\ igStatus[g] = "running"
      BY <2>2, <1>type DEF PatchRun, LedgerTypeOK, BackingInv, ChildRows
    <3>2. AnswersSame
      BY <3>1 DEF ledgerVars, AnswersSame, Answered
    <3>3. Closing(g)
      BY <3>1, <3>2, <2>over, <1>move DEF Closing, RunTerminal
    <3> QED
      BY <3>3 DEF SessionMove
  <2>3. CASE cpc[g] \in {"unlinked", "gate"} /\ TryComplete(Me, r, "canceled")
    BY <2>3, <2>try, <1>move DEF TerminalStatus, SessionMove
  <2>4. CASE cpc[g] = "close" /\ TryComplete(Me, r, RequestStatusFor(cres[g]))
    <3>1. runOf[r] = g /\ g # NoRun
      BY <2>4, LedgerAssumption DEF BackingInv, ChildRows
    <3> QED
      BY <2>4, <3>1, <2>try, <1>move, RunStatuses DEF SessionMove
  <2> QED
    BY <1>1, <2>1, <2>2, <2>3, <2>4, ChildExits
<1>2. CASE /\ cpc[g] \in {"boot", "link"} /\ cpc'[g] \in {"link", "unlinked", "gate"}
           /\ OutcomeOf(igStatus'[g]) = Closed(g)
           /\ OutcomeOf(status'[r]) = Answered(r)
  <2>1. StaysPut(g)
    BY <1>2 DEF StaysPut, Place, PlaceOf
  <2> QED
    BY <2>1, <1>2, <1>others, <1>rest, <1>move DEF Leaving, AnswersSame, ResultsSame, SessionMove
<1>3. CASE cpc[g] = "gate" /\ cpc'[g] = "work" /\ SameRow(r) /\ igStatus'[g] = igStatus[g]
  BY <1>3, <1>others, <1>rest, <1>move
  DEF Entering, AnswersSame, ResultsSame, SameRow, Answered, Closed, SessionMove
<1>4. CASE cpc[g] = "work" /\ cpc'[g] = "cleanup" /\ SameRow(r) /\ igStatus'[g] = igStatus[g]
  <2>1. StaysPut(g)
    BY <1>4 DEF StaysPut, Place, PlaceOf
  <2> QED
    BY <2>1, <1>4, <1>others, <1>rest, <1>move
    DEF Leaving, AnswersSame, ResultsSame, SameRow, Answered, Closed, SessionMove
<1>5. CASE /\ cpc[g] = "cleanup" /\ cpc'[g] = "close"
           /\ SameRow(r) /\ igStatus'[g] \in RunTerminal
  <2>1. igStatus[g] = "running"
    BY <1>5 DEF BackingInv, ChildRows, Driving, Backed
  <2>2. GoesOver(g)
    BY <1>5 DEF GoesOver, PlaceOf
  <2>3. Closing(g)
    BY <2>1, <2>2, <1>5, <1>others, <1>rest, <1>move
    DEF Closing, AnswersSame, SameRow, Answered, OnlyMoves, RunTerminal
  <2> QED
    BY <2>3 DEF SessionMove
<1>6. CASE cpc[g] = "boot" /\ cpc'[g] = "link" /\ SameRow(r) /\ igStatus'[g] = "running"
  BY <1>2, <1>6, <1>open DEF SameRow, Answered
<1>7. CASE /\ cpc[g] = "link" /\ cpc'[g] = "gate"
           /\ status[r] \in Owned /\ status'[r] = "running" /\ igStatus'[g] = igStatus[g]
  <2>1. OutcomeOf(status'[r]) = Answered(r)
    BY <1>7, OutcomeValues DEF Owned, TerminalStatus, RunTerminal, Answered
  <2> QED
    BY <2>1, <1>2, <1>7 DEF Closed
<1>8. CASE /\ cpc[g] \in {"boot", "link"} /\ cpc'[g] = "unlinked"
           /\ SameRow(r) /\ igStatus'[g] = igStatus[g]
  BY <1>2, <1>8 DEF SameRow, Answered, Closed
<1> QED
  BY <1>move, <1>1, <1>3, <1>4, <1>5, <1>6, <1>7, <1>8 DEF ChildMove

LEMMA TaskSessionMove ==
  ASSUME ControlInv, LedgerInv, BackingInv, CompletedInv, CompletedInv', [Next]_vars,
         NEW s \in Slots, TaskStep(s)
  PROVE  SessionMove
<1> USE DEF SessionMove
<1>type. PlaneTypeOK /\ LedgerTypeOK
  BY ControlInvSplit
<1>serve. Busy(s) => treq[s] \in Requests
  BY <1>type DEF PlaneTypeOK, TasksServe
<1>queue. ASSUME UNCHANGED queueVars PROVE AnswersSame /\ ResultsSame
  BY <1>queue DEF queueVars, ledgerVars, runVars, AnswersSame, ResultsSame, Answered, Closed
<1>1. CASE TaskMarks(s)
  <2>1. CASE UNCHANGED queueVars
    BY <1>1, <2>1, QuietMove DEF TaskMarks
  <2>2. CASE MarkStarting(Me, treq[s])
    <3>1. AnswersSame /\ ResultsSame
      BY <2>2, <1>type, OutcomeValues
      DEF MarkStarting, CanMarkStarting, LedgerTypeOK, runVars, AnswersSame, ResultsSame, Answered,
          Closed, TerminalStatus, RunTerminal
    <3> QED
      BY <1>1, <3>1 DEF TaskMarks, childVars, Leaving, StaysPut, Place
  <2> QED
    BY <1>1, <2>1, <2>2 DEF TaskMarks
<1>2. CASE TaskRefuses(s) \/ TaskRefusesResume(s)
  <2>1. /\ treq[s] \in Requests /\ TryComplete(Me, treq[s], "blocked")
        /\ UNCHANGED childVars
    BY <1>2, <1>serve DEF TaskRefuses, TaskRefusesResume, Busy
  <2> QED
    BY <2>1, CompletingMove DEF childVars, TerminalStatus
<1>3. CASE TaskTakesLock(s)
  <2>1. treq[s] \in Requests /\ UNCHANGED childVars
    BY <1>3, <1>serve DEF TaskTakesLock, Busy
  <2>2. UNCHANGED queueVars \/ TryComplete(Me, treq[s], "blocked")
    BY <1>3 DEF TaskTakesLock
  <2> QED
    BY <2>1, <2>2, QuietMove, CompletingMove DEF childVars, TerminalStatus
<1>4. ASSUME NEW g \in Runs, TaskLaunches(s, g) PROVE SessionMove
  <2>1. /\ treq[s] \in Requests /\ UNCHANGED queueVars /\ SpawnChild(g, treq[s])
    BY <1>4, <1>serve DEF TaskLaunches, Busy
  <2>2. Assigning(g, treq[s])
    BY <2>1, <1>queue DEF SpawnChild, Assigning
  <2> QED
    BY <2>1, <2>2
<1>5. CASE TaskSeesCancel(s) \/ TaskTimesOut(s)
  <2>1. /\ Terminate(tchild[s]) /\ UNCHANGED queueVars
        /\ tchild[s] \in Runs /\ creq' = creq
    BY <1>5, <1>type DEF TaskSeesCancel, TaskTimesOut, SignalChild, PlaneTypeOK, TasksServe, Terminate
  <2>2. \A h \in Runs : cpc'[h] = cpc[h] \/ cpc'[h] = "exit1"
    BY <2>1, <1>type DEF Terminate, PlaneTypeOK
  <2> QED
    BY <2>1, <2>2, <1>queue DEF Leaving, StaysPut, GoesOver, Place, PlaceOf
<1>6. CASE TaskFinalizes(s)
  <2>1. treq[s] \in Requests /\ UNCHANGED childVars
    BY <1>6, <1>serve DEF TaskFinalizes, Busy
  <2>2. PICK v \in Verdicts(s) : TryComplete(Me, treq[s], v)
    BY <1>6 DEF TaskFinalizes
  <2>3. v \in TerminalStatus /\ (v = "completed" => runOf[treq[s]] # NoRun)
    BY DEF Verdicts, ContractMayHold, TerminalStatus
  <2> QED
    BY <2>1, <2>2, <2>3, CompletingMove DEF childVars
<1>7. CASE TaskReconciles(s)
  <2>1. CASE UNCHANGED queueVars
    BY <1>7, <2>1, QuietMove DEF TaskReconciles
  <2>2. CASE ~UNCHANGED queueVars
    <3> DEFINE g == trun[s]
    <3>1. /\ g \in Runs /\ igStatus[g] = "running" /\ PatchRun(g, RunStatusFor(tout[s]))
          /\ tout[s] \in TerminalStatus /\ UNCHANGED childVars
      BY <1>7, <2>2, <1>type DEF TaskReconciles, PlaneTypeOK, TasksServe
    <3>2. tout[s] # "completed"
      BY <1>7, <3>1 DEF TaskReconciles, CompletedInv, VerdictHolds
    <3>3. RunStatusFor(tout[s]) \in RunTerminal \ {"completed"}
      BY <3>1, <3>2, RunStatuses DEF RunStatusFor
    <3>4. /\ UNCHANGED ledgerVars /\ igStatus'[g] = RunStatusFor(tout[s])
          /\ \A h \in Runs : h # g => igStatus'[h] = igStatus[h]
      BY <3>1, <1>type DEF PatchRun, LedgerTypeOK
    <3>5. Closing(g)
      BY <3>1, <3>3, <3>4
      DEF Closing, ledgerVars, childVars, AnswersSame, Answered, RunTerminal, OnlyMoves, StaysPut, Place
    <3> QED
      BY <3>1, <3>5
  <2> QED
    BY <2>1, <2>2
<1>8. CASE TaskTakesResumeLock(s) \/ TaskSeesExit(s) \/ TaskReleases(s) \/ TaskIsLost(s)
  BY <1>8, QuietMove DEF TaskTakesResumeLock, TaskSeesExit, TaskReleases, TaskIsLost
<1> QED
  BY <1>1, <1>2, <1>3, <1>4, <1>5, <1>6, <1>7, <1>8 DEF TaskStep, TaskProceeds

LEMMA MainSessionMove ==
  ASSUME ControlInv, LedgerInv, BackingInv, CompletedInv, CompletedInv', [Next]_vars,
         DispatcherNext, \A s \in Slots : ~TaskStep(s)
  PROVE  SessionMove
<1> USE DEF SessionMove
<1>type. PlaneTypeOK /\ LedgerTypeOK
  BY ControlInvSplit
<1>put. ASSUME UNCHANGED childVars PROVE creq' = creq /\ \A h \in Runs : StaysPut(h)
  BY <1>put DEF childVars, StaysPut, Place
<1>reclaim. ASSUME mpc = "loop", NEW r \in Requests
            PROVE  ReclaimedStatus[r] = IF StaleClaim(r) THEN "queued" ELSE status[r]
  BY <1>reclaim, ReclaimedRows DEF Serving
<1>stale. ASSUME NEW r \in Requests, StaleClaim(r) \/ status[r] = "queued"
          PROVE  Answered(r) = "open"
  BY <1>stale, OutcomeValues DEF StaleClaim, Answered, TerminalStatus, RunTerminal
<1>open. OutcomeOf("queued") = "open" /\ OutcomeOf("claimed") = "open"
  BY DEF OutcomeOf, TerminalStatus, RunTerminal
<1>1. ASSUME NEW s \in Slots, NEW r \in Requests, MainClaims(s, r) PROVE SessionMove
  <2>1. /\ mpc = "loop" /\ ReclaimedStatus[r] = "queued"
        /\ UNCHANGED <<childVars, runVars>> /\ status' = [ReclaimedStatus EXCEPT ![r] = "claimed"]
    BY <1>1 DEF MainClaims, Claim, Claimable
  <2>2. Answered(r) = "open"
    BY <2>1, <1>reclaim, <1>stale
  <2>3. \A q \in Requests : status'[q] = IF q = r THEN "claimed" ELSE ReclaimedStatus[q]
    BY <2>1 DEF ReclaimedStatus
  <2>4. AnswersSame
    BY <2>1, <2>2, <2>3, <1>reclaim, <1>stale, <1>open DEF AnswersSame, Answered
  <2> QED
    BY <2>1, <2>4, <1>put DEF Leaving, runVars, ResultsSame, Closed
<1>2. CASE MainReclaims
  <2>1. mpc = "loop" /\ UNCHANGED <<childVars, runVars>> /\ status' = ReclaimedStatus
    BY <1>2 DEF MainReclaims, Reclaim
  <2>2. AnswersSame
    BY <2>1, <1>reclaim, <1>stale, <1>open DEF AnswersSame, Answered
  <2> QED
    BY <2>1, <2>2, <1>put DEF Leaving, runVars, ResultsSame, Closed
<1>3. ASSUME NEW r \in Requests, MainFindsOrphan(r) PROVE SessionMove
  <2> DEFINE g == runOf[r]
  <2>1. g \in Runs /\ igStatus[g] = "running" /\ UNCHANGED childVars
    BY <1>3, <1>type DEF MainFindsOrphan, IsOrphan, LedgerTypeOK
  <2>2. /\ UNCHANGED ledgerVars /\ igStatus'[g] \in RunTerminal \ {"completed"}
        /\ \A h \in Runs : h # g => igStatus'[h] = igStatus[h]
    BY <1>3, <2>1, <1>type DEF MainFindsOrphan, PatchRun, LedgerTypeOK, RunTerminal
  <2>3. Closing(g)
    BY <2>1, <2>2, <1>put DEF Closing, ledgerVars, AnswersSame, Answered, RunTerminal, OnlyMoves
  <2> QED
    BY <2>1, <2>3
<1>4. CASE MainClosesOrphan
  <2>1. PICK v \in TerminalStatus \ {"completed"} : TryComplete(Me, mreq, v)
    BY <1>4 DEF MainClosesOrphan, TerminalStatus
  <2>2. mreq \in Requests /\ UNCHANGED childVars
    BY <1>4, <1>type DEF MainClosesOrphan, PlaneTypeOK, MainServes
  <2> QED
    BY <2>1, <2>2, CompletingMove DEF childVars
<1>5. ASSUME NEW r \in Requests, MainSweepsTerminal(r) PROVE SessionMove
  <2>1. /\ runOf[r] # NoRun /\ UNCHANGED childVars
        /\ TryComplete(Me, r, RequestStatusFor(igStatus[runOf[r]]))
    BY <1>5 DEF MainSweepsTerminal, HasTerminalRun
  <2> QED
    BY <2>1, RunStatuses, CompletingMove DEF childVars
<1>6. CASE MainCrashes
  <2>1. /\ UNCHANGED <<queueVars, creq>>
        /\ \A h \in Runs : cpc'[h] = cpc[h] \/ cpc'[h] = "exit1"
    BY <1>6 DEF MainCrashes
  <2>2. AnswersSame /\ ResultsSame
    BY <2>1 DEF queueVars, ledgerVars, runVars, AnswersSame, ResultsSame, Answered, Closed
  <2> QED
    BY <2>1, <2>2 DEF Leaving, StaysPut, GoesOver, Place, PlaceOf
<1>7. CASE MainStarts \/ MainEndsOrphans \/ MainEndsTerminals \/ MainPreflight \/ MainDrained \/ MainStops
  BY <1>7, QuietMove
  DEF MainStarts, MainEndsOrphans, MainEndsTerminals, MainPreflight, MainDrained, MainStops
<1> QED
  BY <1>1, <1>2, <1>3, <1>4, <1>5, <1>6, <1>7 DEF DispatcherNext, MainProceeds

LEMMA EnvironmentSessionMove ==
  ASSUME ControlInv, EnvironmentNext
  PROVE  SessionMove
<1> USE DEF SessionMove
<1>type. LedgerTypeOK
  BY ControlInvSplit
<1>quiet. ASSUME UNCHANGED <<childVars, runVars>>, AnswersSame PROVE SessionMove
  BY <1>quiet DEF childVars, runVars, Leaving, StaysPut, Place, ResultsSame, Closed
<1>open. OutcomeOf("queued") = "open" /\ OutcomeOf("absent") = "open"
  BY DEF OutcomeOf, TerminalStatus, RunTerminal
<1>1. ASSUME NEW r \in Requests, Submit(r) PROVE SessionMove
  <2>1. /\ status[r] = "absent" /\ status' = [status EXCEPT ![r] = "queued"]
        /\ UNCHANGED <<childVars, runVars>>
    BY <1>1 DEF Submit, Create
  <2>2. AnswersSame
    BY <2>1, <1>type, <1>open DEF LedgerTypeOK, AnswersSame, Answered
  <2> QED
    BY <2>1, <2>2, <1>quiet
<1>2. ASSUME NEW r \in Requests, CancelRequest(r) PROVE SessionMove
  <2>1. Active(r) /\ UNCHANGED <<childVars, runVars>>
    BY <1>2 DEF CancelRequest, Cancel
  <2>2. CASE UNCHANGED status
    BY <2>1, <2>2, <1>quiet DEF AnswersSame, Answered
  <2>3. CASE status' = [status EXCEPT ![r] = "canceled"]
    <3>1. /\ status'[r] = "canceled"
          /\ \A q \in Requests : q # r => status'[q] = status[q]
      BY <2>3, <1>type DEF LedgerTypeOK
    <3>2. ResultsSame /\ creq' = creq /\ \A h \in Runs : StaysPut(h)
      BY <2>1 DEF childVars, runVars, ResultsSame, Closed, StaysPut, Place
    <3>3. Answering(r)
      BY <2>1, <3>1, <3>2 DEF Answering, Active, ActiveStatus, InFlight, TerminalStatus
    <3> QED
      BY <3>3
  <2> QED
    BY <1>2, <2>2, <2>3 DEF CancelRequest, Cancel
<1>3. ASSUME NEW r \in Requests, RequestLeaseLapses(r) PROVE SessionMove
  <2>1. UNCHANGED <<status, childVars, runVars>>
    BY <1>3 DEF RequestLeaseLapses, LeaseLapses
  <2> QED
    BY <2>1, <1>quiet DEF AnswersSame, Answered
<1>4. ASSUME NEW d \in Phones, PhoneLockLapses(d) PROVE SessionMove
  BY <1>4, QuietMove DEF PhoneLockLapses
<1> QED
  BY <1>1, <1>2, <1>3, <1>4 DEF EnvironmentNext

LEMMA EveryMove ==
  ASSUME Orderly, ControlInv, LedgerInv, BackingInv, CompletedInv, CompletedInv', [Next]_vars
  PROVE  SessionMove
<1>1. ASSUME NEW g \in Runs, ChildStep(g) PROVE SessionMove
  BY <1>1, ChildSessionMove
<1>2. ASSUME NEW s \in Slots, TaskStep(s) PROVE SessionMove
  BY <1>2, TaskSessionMove
<1>3. ASSUME DispatcherNext, \A s \in Slots : ~TaskStep(s) PROVE SessionMove
  BY <1>3, MainSessionMove
<1>4. CASE EnvironmentNext
  BY <1>4, EnvironmentSessionMove
<1>5. CASE UNCHANGED vars
  BY <1>5, QuietMove DEF vars, SessionMove
<1> QED
  BY <1>1, <1>2, <1>3, <1>4, <1>5 DEF Next, ChildrenNext

LEMMA UnassignedStep ==
  ASSUME ControlInv, Unassigned, SessionMove
  PROVE  Unassigned'
<1>type. PlaneTypeOK
  BY ControlInvSplit
<1>1. ASSUME creq' = creq, NEW g \in Runs, OnlyMoves(g) PROVE Unassigned'
  BY <1>1 DEF OnlyMoves, StaysPut, GoesOver, PlaceOf, Unassigned
<1>2. CASE Leaving
  BY <1>2 DEF Leaving, StaysPut, GoesOver, PlaceOf, Unassigned
<1>3. ASSUME NEW g \in Runs, Entering(g) PROVE Unassigned'
  BY <1>3 DEF Entering, Unassigned
<1>4. ASSUME NEW g \in Runs, Closing(g) PROVE Unassigned'
  BY <1>1, <1>4 DEF Closing
<1>5. ASSUME NEW g \in Runs, NEW r \in Requests, Assigning(g, r) PROVE Unassigned'
  BY <1>5, <1>type DEF Assigning, Unassigned, PlaneTypeOK
<1>6. ASSUME NEW r \in Requests, Answering(r) PROVE Unassigned'
  <2>1. CASE \A h \in Runs : StaysPut(h)
    BY <1>6, <2>1 DEF Answering, StaysPut, Unassigned
  <2> QED
    BY <1>1, <1>6, <2>1 DEF Answering
<1> QED
  BY <1>2, <1>3, <1>4, <1>5, <1>6 DEF SessionMove

LEMMA SessionStep ==
  ASSUME Orderly, AutoRequests = {}, ControlInv, ControlInv', LedgerInv, BackingInv, BackingInv',
         PhoneInv', CompletedInv, CompletedInv', Unassigned, [Next]_vars
  PROVE  Session!Next
<1>1. SessionMove
  BY EveryMove
<1>2. ASSUME NEW g \in Runs, Entering(g) PROVE Session!Next
  BY <1>2, EnteringEnters, ControlInvSplit DEF PhoneInv
<1> QED
  BY <1>1, <1>2, LeavingLeaves, AssigningAssigns, ClosingCloses, AnsweringAnswers DEF SessionMove

LEMMA SessionInit == Init => Session!Init
  BY DEF Init, LedgerInit, ChildInit, Session!Init, PlaceOf, OutcomeOf, TerminalStatus, RunTerminal

\* The plane implements the phone session, when it is orderly and every worker's
\* task takes the lock of the phone and looks at the answer.
THEOREM ControlImplementsSession == Orderly /\ AutoRequests = {} => (Spec => PhonePromise)
<1> SUFFICES ASSUME Orderly, AutoRequests = {} PROVE Spec => PhonePromise
  OBVIOUS
<1>1. Init => Unassigned
  BY DEF Init, ChildInit, Unassigned
<1>2. ControlInv /\ LedgerInv /\ BackingInv /\ CompletedInv /\ CompletedInv' /\ Unassigned
        /\ [Next]_vars => Unassigned'
  BY EveryMove, UnassignedStep
<1>3. Spec => []Unassigned
  BY <1>1, <1>2, BackingInvariant, CompletedAlways, ControlInvariant, RunControlLedger, PTL DEF Spec
<1>4. /\ ControlInv /\ ControlInv' /\ LedgerInv /\ BackingInv /\ BackingInv' /\ PhoneInv'
      /\ CompletedInv /\ CompletedInv' /\ Unassigned /\ [Next]_vars
      => [Session!Next]_(Session!sessionVars)
  BY SessionStep
<1> QED
  BY <1>3, <1>4, SessionInit, BackingInvariant, PhoneInvariant, CompletedAlways,
     ControlInvariant, RunControlLedger, PTL
  DEF Spec, PhonePromise, Session!Spec
=============================================================================
