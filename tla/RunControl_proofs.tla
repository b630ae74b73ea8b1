--------------------------- MODULE RunControl_proofs ---------------------------
(***************************************************************************)
(* What the Run Control plane guarantees for every set of accounts,        *)
(* requests, runs, slots and phones, and for every setting of its          *)
(* switches: its processes use the ledger only through the ledger's        *)
(* functions, so that everything proved of the ledger holds of the whole   *)
(* plane; and a request settled as completed is linked to a run that       *)
(* completed, when every account binds its worker to a linked run.         *)
(***************************************************************************)
EXTENDS RunControl, RunRequestQueue_proofs

\* A task, a child and an orphan reconciliation know whom they work for, and
\* what they are about to write is a status of the table they write it to.
TasksServe ==
    \A s \in Slots :
        /\ Busy(s) => treq[s] \in Requests
        /\ tpc[s] \in {"wait", "stopping"} => tchild[s] \in Runs /\ cpc[tchild[s]] # "none"
        /\ tpc[s] = "reconcile" => tout[s] \in TerminalStatus

ChildrenServe ==
    \A g \in Runs :
        /\ cpc[g] # "none" => creq[g] \in Requests
        /\ cpc[g] \in {"cleanup", "close"} => cres[g] \in RunTerminal

MainServes == mpc = "orphan" => mreq \in Requests

ControlInv ==
    /\ RunControlTypeOK
    /\ TasksServe
    /\ ChildrenServe
    /\ MainServes

LEMMA ControlInitInv == Init => ControlInv
<1> USE LedgerAssumption, RunnerAssumption, ControlAssumption
<1>1. LedgerInit => LedgerTypeOK
  BY LedgerInitInv DEF LedgerInv
<1> QED
  BY <1>1 DEF Init, ChildInit, Lock!LeaseInit, ControlInv, RunControlTypeOK, TasksServe,
      ChildrenServe, MainServes, Busy

-----------------------------------------------------------------------------
(* Every step of the plane is a step of the ledger.                        *)

LedgerStep == [AnyLedgerNext]_queueVars

LEMMA TryCompleteStep ==
  ASSUME NEW r \in Requests, NEW s \in TerminalStatus, TryComplete(Me, r, s)
  PROVE  LedgerStep
  BY RunnerAssumption DEF TryComplete, LedgerStep, AnyLedgerNext

LEMMA PatchStep ==
  ASSUME NEW g \in Runs, NEW s \in RunTerminal, PatchRun(g, s)
  PROVE  LedgerStep
  BY DEF LedgerStep, AnyLedgerNext

LEMMA RunStatuses ==
  ASSUME NEW s
  PROVE  /\ RequestStatusFor(s) \in TerminalStatus
         /\ s \in TerminalStatus => RunStatusFor(s) \in RunTerminal
  BY DEF RequestStatusFor, RunStatusFor, TerminalStatus, RunTerminal

LEMMA ChildLedgerStep ==
  ASSUME ControlInv, NEW g \in Runs, ChildStep(g)
  PROVE  LedgerStep
<1> USE LedgerAssumption, RunnerAssumption DEF ControlInv, ChildrenServe
<1>1. CASE ChildCreateRun(g)
  BY <1>1 DEF ChildCreateRun, LedgerStep, AnyLedgerNext
<1>2. ASSUME cpc[g] # "none", LinkMissed(g) PROVE LedgerStep
  BY <1>2, PatchStep DEF LinkMissed, RunTerminal, LedgerStep
<1>3. CASE ChildLink(g)
  <2>1. CASE CanLink(Me, creq[g])
    BY <1>3, <2>1 DEF ChildLink, LedgerStep, AnyLedgerNext
  <2>2. CASE ~CanLink(Me, creq[g])
    BY <1>2, <1>3, <2>2 DEF ChildLink
  <2> QED
    BY <2>1, <2>2
<1>4. CASE ChildLinkFails(g)
  BY <1>2, <1>4 DEF ChildLinkFails
<1>5. CASE ChildUnlinked(g) \/ ChildGate(g)
  BY <1>5, TryCompleteStep DEF ChildUnlinked, ChildGate, ChildAborts, TerminalStatus, LedgerStep
<1>6. CASE ChildPublish(g)
  BY <1>6, PatchStep DEF ChildPublish, LedgerStep
<1>7. CASE ChildClose(g)
  BY <1>7, TryCompleteStep, RunStatuses DEF ChildClose
<1>8. ASSUME UNCHANGED queueVars PROVE LedgerStep
  BY <1>8 DEF LedgerStep
<1> QED
  BY <1>1, <1>3, <1>4, <1>5, <1>6, <1>7, <1>8
  DEF ChildStep, ChildProceeds, ChildFails, ChildBail, ChildSetupFails, ChildStopped,
      ChildEndWork, ChildCreateRunFails, ChildGateFails, ChildPublishFails, ChildCloseFails,
      ChildDies

LEMMA TaskLedgerStep ==
  ASSUME ControlInv, NEW s \in Slots, TaskStep(s)
  PROVE  LedgerStep
<1> USE LedgerAssumption, RunnerAssumption DEF ControlInv, TasksServe, Busy
<1>1. CASE TaskMarks(s)
  BY <1>1 DEF TaskMarks, LedgerStep, AnyLedgerNext
<1>2. CASE TaskRefuses(s)
  BY <1>2, TryCompleteStep DEF TaskRefuses, TerminalStatus
<1>3. CASE TaskRefusesResume(s)
  BY <1>3, TryCompleteStep DEF TaskRefusesResume, TerminalStatus
<1>4. CASE TaskTakesLock(s)
  BY <1>4, TryCompleteStep DEF TaskTakesLock, TerminalStatus, LedgerStep
<1>5. CASE TaskFinalizes(s)
  BY <1>5, TryCompleteStep DEF TaskFinalizes, Verdicts, TerminalStatus
<1>6. CASE TaskReconciles(s)
  <2>1. trun[s] \in Runs \union {NoRun}
    BY DEF RunControlTypeOK
  <2> QED
    BY <1>6, <2>1, PatchStep, RunStatuses DEF TaskReconciles, LedgerStep
<1>7. ASSUME UNCHANGED queueVars PROVE LedgerStep
  BY <1>7 DEF LedgerStep
<1> QED
  BY <1>1, <1>2, <1>3, <1>4, <1>5, <1>6, <1>7
  DEF TaskStep, TaskProceeds, TaskTakesResumeLock, TaskLaunches, TaskSeesExit, TaskSeesCancel,
      TaskReleases, TaskTimesOut, TaskIsLost

LEMMA ControlLedgerStep == ControlInv /\ [Next]_vars => LedgerStep
<1> SUFFICES ASSUME ControlInv, [Next]_vars PROVE LedgerStep
  OBVIOUS
<1> USE LedgerAssumption, RunnerAssumption DEF ControlInv
<1>1. ASSUME UNCHANGED queueVars PROVE LedgerStep
  BY <1>1 DEF LedgerStep
<1>2. ASSUME NEW s \in Slots, NEW r \in Requests, MainClaims(s, r) PROVE LedgerStep
  BY <1>2 DEF MainClaims, LedgerStep, AnyLedgerNext
<1>3. CASE MainReclaims
  BY <1>3 DEF MainReclaims, LedgerStep, AnyLedgerNext
<1>4. ASSUME NEW r \in Requests, MainFindsOrphan(r) PROVE LedgerStep
  <2>1. runOf[r] \in Runs
    BY <1>4 DEF MainFindsOrphan, IsOrphan, RunControlTypeOK, LedgerTypeOK
  <2> QED
    BY <1>4, <2>1, PatchStep DEF MainFindsOrphan, RunTerminal
<1>5. CASE MainClosesOrphan
  BY <1>5, TryCompleteStep DEF MainClosesOrphan, MainServes, TerminalStatus
<1>6. ASSUME NEW r \in Requests, MainSweepsTerminal(r) PROVE LedgerStep
  BY <1>6, TryCompleteStep, RunStatuses DEF MainSweepsTerminal
<1>7. ASSUME NEW r \in Requests, Submit(r) \/ CancelRequest(r) \/ RequestLeaseLapses(r)
      PROVE  LedgerStep
  BY <1>7 DEF Submit, CancelRequest, RequestLeaseLapses, LedgerStep, AnyLedgerNext
<1>8. CASE DispatcherNext
  BY <1>1, <1>2, <1>3, <1>4, <1>5, <1>6, <1>8, TaskLedgerStep
  DEF DispatcherNext, MainProceeds, MainStarts, MainEndsOrphans, MainEndsTerminals,
      MainPreflight, MainDrained, MainStops, MainCrashes
<1>9. CASE ChildrenNext
  BY <1>9, ChildLedgerStep DEF ChildrenNext
<1>10. CASE EnvironmentNext
  BY <1>1, <1>7, <1>10 DEF EnvironmentNext, PhoneLockLapses
<1>11. CASE UNCHANGED vars
  BY <1>1, <1>11 DEF vars
<1> QED
  BY <1>8, <1>9, <1>10, <1>11 DEF Next

-----------------------------------------------------------------------------
(* Types.                                                                  *)

\* The variables of the plane beside the ledger's.
PlaneTypeOK ==
    /\ cpc \in [Runs -> {"none", "boot", "link", "unlinked", "gate", "work", "cleanup", "close"}
                       \union Exited]
    /\ creq \in [Runs -> Requests \union {NoRequest}]
    /\ cres \in [Runs -> RunTerminal \union {"none"}]
    /\ csig \in [Runs -> BOOLEAN]
    /\ faults \in 0 .. MaxFaults
    /\ holder \in [Phones -> Requests \union {NoRequest}]
    /\ tpc \in [Slots -> {"free", "gates", "starting", "launch", "wait", "stopping",
                         "release", "finalize", "reconcile"}]
    /\ treq \in [Slots -> Requests \union {NoRequest}]
    /\ tchild \in [Slots -> Runs \union {NoRun}]
    /\ tout \in [Slots -> TerminalStatus \union {"none", "late"}]
    /\ trun \in [Slots -> Runs \union {NoRun}]
    /\ mpc \in {"down", "orphans", "orphan", "terminals", "preflight", "loop", "drain"}
    /\ mreq \in Requests \union {NoRequest}
    /\ restarts \in 0 .. MaxRestarts
    /\ TasksServe
    /\ ChildrenServe
    /\ MainServes

LEMMA ControlInvSplit == ControlInv <=> LedgerTypeOK /\ PlaneTypeOK
  BY DEF ControlInv, RunControlTypeOK, PlaneTypeOK

LEMMA ChildTypeStep ==
  ASSUME ControlInv, NEW g \in Runs, ChildStep(g), UNCHANGED <<holder, taskVars, mainVars>>
  PROVE  PlaneTypeOK'
<1> USE LedgerAssumption, RunnerAssumption
    DEF PlaneTypeOK, Exited, TasksServe, ChildrenServe, MainServes, Busy, taskVars, mainVars,
        Goto, Fault
<1>type. PlaneTypeOK
  BY ControlInvSplit
<1>1. CASE ChildBail(g)
  BY <1>1, <1>type DEF ChildBail
<1>2. CASE ChildCreateRun(g)
  BY <1>2, <1>type DEF ChildCreateRun
<1>3. CASE ChildCreateRunFails(g)
  BY <1>3, <1>type DEF ChildCreateRunFails
<1>4. CASE ChildLink(g)
  BY <1>4, <1>type DEF ChildLink, LinkMissed
<1>5. CASE ChildLinkFails(g)
  BY <1>5, <1>type DEF ChildLinkFails, LinkMissed
<1>6. CASE ChildUnlinked(g) \/ ChildGate(g) \/ ChildGateFails(g)
  BY <1>6, <1>type DEF ChildUnlinked, ChildGate, ChildGateFails, ChildAborts
<1>7. CASE ChildSetupFails(g)
  BY <1>7, <1>type DEF ChildSetupFails
<1>8. CASE ChildEndWork(g)
  BY <1>8, <1>type DEF ChildEndWork
<1>9. CASE ChildPublish(g)
  BY <1>9, <1>type DEF ChildPublish, ExitCode
<1>10. CASE ChildPublishFails(g)
  BY <1>10, <1>type DEF ChildPublishFails, ExitCode
<1>11. CASE ChildClose(g)
  BY <1>11, <1>type DEF ChildClose, ExitCode
<1>12. CASE ChildCloseFails(g)
  BY <1>12, <1>type DEF ChildCloseFails, ExitCode
<1>13. CASE ChildStopped(g)
  BY <1>13, <1>type DEF ChildStopped, Live
<1>14. CASE ChildDies(g)
  BY <1>14, <1>type DEF ChildDies, Live
<1> QED
  BY <1>1, <1>2, <1>3, <1>4, <1>5, <1>6, <1>7, <1>8, <1>9, <1>10, <1>11, <1>12, <1>13, <1>14
  DEF ChildStep, ChildProceeds, ChildFails

\* A signal ends a child or marks it; it never takes one back to "none".
LEMMA TerminateType ==
  ASSUME PlaneTypeOK, NEW g \in Runs, cpc[g] # "none", Terminate(g)
  PROVE  /\ cpc' \in [Runs -> {"none", "boot", "link", "unlinked", "gate", "work", "cleanup", "close"}
                               \union Exited]
         /\ csig' \in [Runs -> BOOLEAN]
         /\ UNCHANGED <<creq, cres>>
         /\ \A h \in Runs : (cpc'[h] # "none" <=> cpc[h] # "none")
                             /\ (cpc'[h] = cpc[h] \/ cpc'[h] = "exit1")
  BY DEF PlaneTypeOK, Terminate, HandlerInstalled, Exited

LEMMA TaskTypeStep ==
  ASSUME ControlInv, NEW s \in Slots, TaskStep(s)
  PROVE  PlaneTypeOK'
<1> USE LedgerAssumption, ControlAssumption
    DEF PlaneTypeOK, Exited, TasksServe, ChildrenServe, MainServes, Busy, childVars, mainVars,
        TaskGoto, TaskEnds
<1>type. PlaneTypeOK /\ LedgerTypeOK
  BY ControlInvSplit
<1>lock. ASSUME NEW d, NEW r \in Requests, Lock!GrantTo(d, r) \/ Lock!Release(d, r)
         PROVE  holder' \in [Phones -> Requests \union {NoRequest}]
  BY <1>lock, <1>type DEF Lock!GrantTo, Lock!Release
<1>1. CASE TaskMarks(s)
  BY <1>1, <1>type DEF TaskMarks
<1>2. CASE TaskTakesResumeLock(s)
  BY <1>2, <1>type DEF TaskTakesResumeLock
<1>3. CASE TaskTakesLock(s)
  BY <1>3, <1>type, <1>lock DEF TaskTakesLock
<1>4. ASSUME NEW g \in Runs, TaskLaunches(s, g) PROVE PlaneTypeOK'
  BY <1>4, <1>type DEF TaskLaunches, SpawnChild
<1>5. CASE TaskSeesExit(s)
  BY <1>5, <1>type DEF TaskSeesExit
<1>6. CASE TaskSeesCancel(s)
  <2>1. Terminate(tchild[s]) /\ tchild[s] \in Runs /\ cpc[tchild[s]] # "none"
    BY <1>6, <1>type DEF TaskSeesCancel, SignalChild
  <2>2. ChildrenServe'
    BY <2>1, <1>type, TerminateType
  <2> QED
    BY <1>6, <1>type, <2>1, <2>2, TerminateType DEF TaskSeesCancel
<1>7. CASE TaskReleases(s)
  BY <1>7, <1>type, <1>lock DEF TaskReleases
<1>8. CASE TaskFinalizes(s)
  <2>1. Verdicts(s) \subseteq TerminalStatus
    BY DEF Verdicts, TerminalStatus
  <2>2. runOf[treq[s]] \in Runs \union {NoRun}
    BY <1>8, <1>type DEF LedgerTypeOK, TaskFinalizes
  <2> QED
    BY <1>8, <1>type, <2>1, <2>2 DEF TaskFinalizes
<1>9. CASE TaskReconciles(s)
  BY <1>9, <1>type DEF TaskReconciles
<1>10. CASE TaskRefuses(s)
  BY <1>10, <1>type DEF TaskRefuses
<1>11. CASE TaskRefusesResume(s)
  BY <1>11, <1>type, <1>lock DEF TaskRefusesResume
<1>12. CASE TaskTimesOut(s)
  <2>1. Terminate(tchild[s]) /\ tchild[s] \in Runs /\ cpc[tchild[s]] # "none"
    BY <1>12, <1>type DEF TaskTimesOut, SignalChild
  <2>2. ChildrenServe'
    BY <2>1, <1>type, TerminateType
  <2> QED
    BY <1>12, <1>type, <2>1, <2>2, TerminateType DEF TaskTimesOut
<1>13. CASE TaskIsLost(s)
  BY <1>13, <1>type, RunnerAssumption DEF TaskIsLost, Fault
<1> QED
  BY <1>1, <1>2, <1>3, <1>4, <1>5, <1>6, <1>7, <1>8, <1>9, <1>10, <1>11, <1>12, <1>13
  DEF TaskStep, TaskProceeds

LEMMA MainTypeStep ==
  ASSUME ControlInv, DispatcherNext, \A s \in Slots : ~TaskStep(s)
  PROVE  PlaneTypeOK'
<1> USE LedgerAssumption, RunnerAssumption, ControlAssumption
    DEF PlaneTypeOK, Exited, TasksServe, ChildrenServe, MainServes, Busy, childVars, taskVars,
        mainVars, MainGoto
<1>type. PlaneTypeOK
  BY ControlInvSplit
<1>1. ASSUME NEW s \in Slots, NEW r \in Requests, MainClaims(s, r) PROVE PlaneTypeOK'
  BY <1>1, <1>type DEF MainClaims
<1>2. ASSUME NEW r \in Requests, MainFindsOrphan(r) PROVE PlaneTypeOK'
  BY <1>2, <1>type DEF MainFindsOrphan
<1>3. CASE MainClosesOrphan
  BY <1>3, <1>type DEF MainClosesOrphan
<1>4. ASSUME NEW r \in Requests, MainSweepsTerminal(r) PROVE PlaneTypeOK'
  BY <1>4, <1>type DEF MainSweepsTerminal
<1>5. CASE MainStarts \/ MainEndsOrphans \/ MainEndsTerminals \/ MainPreflight \/ MainDrained
  BY <1>5, <1>type DEF MainStarts, MainEndsOrphans, MainEndsTerminals, MainPreflight, MainDrained
<1>6. CASE MainReclaims
  BY <1>6, <1>type DEF MainReclaims
<1>7. CASE MainStops
  BY <1>7, <1>type DEF MainStops
<1>8. CASE MainCrashes
  BY <1>8, <1>type DEF MainCrashes, Live
<1> QED
  BY <1>1, <1>2, <1>3, <1>4, <1>5, <1>6, <1>7, <1>8 DEF DispatcherNext, MainProceeds

LEMMA EnvironmentTypeStep ==
  ASSUME ControlInv, EnvironmentNext
  PROVE  PlaneTypeOK'
<1> USE DEF PlaneTypeOK, TasksServe, ChildrenServe, MainServes, Busy, childVars, taskVars, mainVars
<1>type. PlaneTypeOK
  BY ControlInvSplit
<1>1. ASSUME NEW r \in Requests, Submit(r) PROVE PlaneTypeOK'
  BY <1>1, <1>type DEF Submit, Lock!GrantTo
<1>2. ASSUME NEW r \in Requests, CancelRequest(r) \/ RequestLeaseLapses(r) PROVE PlaneTypeOK'
  BY <1>2, <1>type DEF CancelRequest, RequestLeaseLapses
<1>3. ASSUME NEW d \in Phones, PhoneLockLapses(d) PROVE PlaneTypeOK'
  BY <1>3, <1>type DEF PhoneLockLapses, Lock!Lapse
<1> QED
  BY <1>1, <1>2, <1>3 DEF EnvironmentNext

LEMMA ControlInvStep == ControlInv /\ [Next]_vars => ControlInv'
<1> SUFFICES ASSUME ControlInv, [Next]_vars PROVE ControlInv'
  OBVIOUS
<1>1. LedgerTypeOK'
  BY ControlLedgerStep, LedgerTypeStep, ControlInvSplit DEF LedgerStep
<1>2. ASSUME DispatcherNext PROVE PlaneTypeOK'
  BY <1>2, TaskTypeStep, MainTypeStep
<1>3. ASSUME ChildrenNext PROVE PlaneTypeOK'
  BY <1>3, ChildTypeStep DEF ChildrenNext
<1>4. ASSUME EnvironmentNext PROVE PlaneTypeOK'
  BY <1>4, EnvironmentTypeStep
<1>5. ASSUME UNCHANGED vars PROVE PlaneTypeOK'
  BY <1>5, ControlInvSplit
  DEF PlaneTypeOK, TasksServe, ChildrenServe, MainServes, Busy, vars, childVars, taskVars, mainVars
<1>6. PlaneTypeOK'
  BY <1>2, <1>3, <1>4, <1>5 DEF Next
<1> QED
  BY <1>1, <1>6, ControlInvSplit DEF ControlInv, RunControlTypeOK, PlaneTypeOK

\* The inductive invariant of the plane's types.
THEOREM ControlInvariant == Spec => []ControlInv
  BY ControlInitInv, ControlInvStep, PTL DEF Spec

\* No process of the plane, in whatever order they run, fail and restart,
\* writes a row or leaves a variable outside its domain.
THEOREM RunControlTypes == Spec => []RunControlTypeOK
<1>1. ControlInv => RunControlTypeOK
  BY DEF ControlInv
<1> QED
  BY <1>1, ControlInvariant, PTL

-----------------------------------------------------------------------------
(* What the ledger promises, the plane keeps.                              *)

\* Dispatcher, tasks, workers, crashes and lapsed leases drive the ledger
\* through its functions only, so its invariant holds in the whole plane.
THEOREM RunControlLedger == Spec => []LedgerInv
<1>1. Init => LedgerInv
  BY LedgerInitInv DEF Init
<1>2. ControlInv /\ LedgerInv /\ [Next]_vars => LedgerInv'
  BY ControlLedgerStep, LedgerInvStep DEF LedgerStep
<1> QED
  BY <1>1, <1>2, ControlInvariant, PTL DEF Spec

\* An account never has two active requests, across crashes, reclaims, lost
\* tasks and workers that outlive their dispatcher.
THEOREM RunControlOneActive == Spec => []OneActivePerAccount
<1>1. LedgerInv => OneActivePerAccount
  BY DEF LedgerInv
<1> QED
  BY <1>1, RunControlLedger, PTL

\* A canceled request is final or linked, whoever held it when it was canceled.
THEOREM RunControlCancel == Spec => []CancelDecides
<1>1. LedgerInv => CancelDecides
  BY DEF LedgerInv
<1> QED
  BY <1>1, RunControlLedger, PTL

\* Finalization, sweep, orphan recovery and the worker's own close all settle
\* requests; none of them rewrites an outcome another one wrote.
THEOREM RunControlFinalOutcome == Spec => FinalOutcome
<1>1. ControlInv /\ LedgerInv /\ [Next]_vars => [FinalOutcomeStep]_queueVars
  BY ControlLedgerStep, FinalOutcomeLemma DEF LedgerStep
<1> QED
  BY <1>1, ControlInvariant, RunControlLedger, PTL DEF Spec, FinalOutcome

\* The plane implements the account slot.
THEOREM RunControlImplementsSlot == Spec => SlotPromise
<1>1. Init => Slot!Init
  BY SlotInitial DEF Init
<1>2. ControlInv /\ ControlInv' /\ LedgerInv /\ [Next]_vars => [Slot!Next]_(Slot!slotVars)
  BY ControlLedgerStep, SlotStep DEF LedgerStep, ControlInv, RunControlTypeOK
<1> QED
  BY <1>1, <1>2, ControlInvariant, RunControlLedger, PTL DEF Spec, SlotPromise, Slot!Spec
-----------------------------------------------------------------------------
(* A worker beyond the link is the one its request is linked to: what      *)
(* create_run, the link or a stale claim leave unlinked goes no further.   *)

Bound == {"gate", "work", "cleanup", "close"}

BoundIsLinked == \A g \in Runs : cpc[g] \in Bound => runOf[creq[g]] = g

LEMMA BoundIsLinkedStep ==
  ASSUME ControlInv, LedgerInv, BoundIsLinked, [Next]_vars
  PROVE  BoundIsLinked'
<1> USE LedgerAssumption
<1>type. PlaneTypeOK /\ LedgerTypeOK
  BY ControlInvSplit
<1>serve. \A g \in Runs : cpc[g] # "none" => creq[g] \in Requests
  BY <1>type DEF PlaneTypeOK, ChildrenServe
\* A link is for ever.
<1>link. \A r \in Requests : runOf[r] # NoRun => runOf'[r] = runOf[r]
  BY ControlLedgerStep, FinalOutcomeLemma DEF LedgerStep, FinalOutcomeStep
<1>keep. ASSUME \A g \in Runs : cpc'[g] \in Bound => \/ cpc[g] \in Bound /\ creq'[g] = creq[g]
                                                     \/ runOf'[creq'[g]] = g
         PROVE  BoundIsLinked'
  BY <1>keep, <1>link, <1>serve DEF BoundIsLinked, Bound
<1>same. ASSUME UNCHANGED <<cpc, creq>> PROVE BoundIsLinked'
  BY <1>same, <1>keep
<1>1. ASSUME NEW g \in Runs, ChildStep(g) PROVE BoundIsLinked'
  <2> USE DEF Goto, Bound, Exited
  <2>0. \A h \in Runs : h # g => cpc'[h] = cpc[h] /\ creq'[h] = creq[h]
    BY <1>1, <1>type
    DEF PlaneTypeOK, ChildStep, ChildProceeds, ChildFails, ChildBail, ChildCreateRun,
        ChildCreateRunFails, ChildLink, ChildLinkFails, LinkMissed, ChildUnlinked, ChildAborts,
        ChildGate, ChildGateFails, ChildSetupFails, ChildEndWork, ChildPublish, ChildPublishFails, ChildClose, ChildCloseFails, ChildStopped,
        ChildDies
  <2>1. cpc'[g] \in Bound => cpc[g] \in Bound \/ runOf'[creq[g]] = g
    <3>1. CASE ChildLink(g)
      BY <3>1, <1>type, <1>serve
      DEF ChildLink, Link, LinkMissed, PlaneTypeOK, LedgerTypeOK
    <3>2. CASE ChildLinkFails(g)
      BY <3>2, <1>type, <1>serve DEF ChildLinkFails, LinkMissed, PlaneTypeOK
    <3>3. CASE ChildBail(g) \/ ChildCreateRun(g) \/ ChildCreateRunFails(g) \/ ChildUnlinked(g)
      BY <3>3, <1>type, <1>serve
      DEF ChildBail, ChildCreateRun, ChildCreateRunFails, ChildUnlinked, ChildAborts, PlaneTypeOK
    <3>4. CASE \/ ChildGate(g) \/ ChildGateFails(g) \/ ChildSetupFails(g) \/ ChildEndWork(g)
               \/ ChildPublish(g) \/ ChildPublishFails(g) \/ ChildClose(g) \/ ChildCloseFails(g)
      BY <3>4
      DEF ChildGate, ChildGateFails, ChildSetupFails, ChildEndWork, ChildPublish,
          ChildPublishFails, ChildClose, ChildCloseFails
    <3>5. CASE ChildStopped(g) \/ ChildDies(g)
      BY <3>5, <1>type DEF ChildStopped, ChildDies, PlaneTypeOK
    <3> QED
      BY <1>1, <3>1, <3>2, <3>3, <3>4, <3>5 DEF ChildStep, ChildProceeds, ChildFails
  <2>2. creq' = creq
    BY <1>1
    DEF ChildStep, ChildProceeds, ChildFails, ChildBail, ChildCreateRun,
        ChildCreateRunFails, ChildLink, ChildLinkFails, LinkMissed, ChildUnlinked, ChildAborts,
        ChildGate, ChildGateFails, ChildSetupFails, ChildEndWork, ChildPublish, ChildPublishFails, ChildClose, ChildCloseFails, ChildStopped,
        ChildDies
  <2> QED
    BY <2>0, <2>1, <2>2, <1>keep
<1>2. ASSUME NEW s \in Slots, TaskStep(s) PROVE BoundIsLinked'
  <2>1. ASSUME NEW g \in Runs, TaskLaunches(s, g) PROVE BoundIsLinked'
    BY <2>1, <1>type, <1>keep DEF TaskLaunches, SpawnChild, PlaneTypeOK, Bound
  <2>2. CASE TaskSeesCancel(s) \/ TaskTimesOut(s)
    <3>1. Terminate(tchild[s]) /\ tchild[s] \in Runs /\ cpc[tchild[s]] # "none"
      BY <2>2, <1>type DEF TaskSeesCancel, TaskTimesOut, SignalChild, PlaneTypeOK, TasksServe
    <3> QED
      BY <3>1, <1>type, <1>keep, TerminateType DEF Bound
  <2> QED
    BY <1>2, <1>same, <2>1, <2>2
    DEF TaskStep, TaskProceeds, TaskMarks, TaskTakesResumeLock, TaskTakesLock, TaskSeesExit,
        TaskReleases, TaskFinalizes, TaskReconciles, TaskRefuses, TaskRefusesResume, TaskIsLost,
        childVars
<1>3. ASSUME DispatcherNext, \A s \in Slots : ~TaskStep(s) PROVE BoundIsLinked'
  <2>1. CASE MainCrashes
    BY <2>1, <1>keep DEF MainCrashes, Bound
  <2> QED
    BY <1>3, <1>same, <2>1
    DEF DispatcherNext, MainProceeds, MainStarts, MainClosesOrphan, MainEndsOrphans,
        MainSweepsTerminal, MainEndsTerminals, MainPreflight, MainDrained, MainFindsOrphan,
        MainReclaims, MainStops, MainClaims, childVars
<1>4. CASE EnvironmentNext
  BY <1>4, <1>same
  DEF EnvironmentNext, Submit, CancelRequest, RequestLeaseLapses, PhoneLockLapses, childVars
<1>5. CASE UNCHANGED vars
  BY <1>5, <1>same DEF vars, childVars
<1> QED
  BY <1>1, <1>2, <1>3, <1>4, <1>5 DEF Next, ChildrenNext

\* No worker is at the cancel gates or beyond, on the phone or at its closing
\* writes, without the link of its request, whatever failed and whoever
\* reclaimed, canceled or relaunched.
THEOREM LinkedBeforePhone == Spec => []BoundIsLinked
<1>1. Init => BoundIsLinked
  BY DEF Init, ChildInit, BoundIsLinked, Bound
<1>2. ControlInv /\ LedgerInv /\ BoundIsLinked /\ [Next]_vars => BoundIsLinked'
  BY BoundIsLinkedStep
<1> QED
  BY <1>1, <1>2, ControlInvariant, RunControlLedger, PTL DEF Spec

-----------------------------------------------------------------------------
(***************************************************************************)
(* Completed means completed.  A worker publishes "completed" for its own  *)
(* run and then completes the request it serves, without looking whether   *)
(* that request is linked to this run: it is, by BoundIsLinked.  The       *)
(* dispatch task reads the run, completes the request and patches the run  *)
(* last.                                                                   *)
(***************************************************************************)
Publishing == {"close"} \union Exited

PublishedByWorker ==
    \A g \in Runs : igStatus[g] = "completed" => cpc[g] \in Publishing

ClosingPublished ==
    \A g \in Runs : cpc[g] = "close" /\ cres[g] = "completed" => igStatus[g] = "completed"

VerdictHolds ==
    \A s \in Slots :
        tpc[s] = "reconcile" /\ tout[s] = "completed"
          => trun[s] \in Runs /\ igStatus[trun[s]] = "completed"

CompletedInv ==
    /\ PublishedByWorker
    /\ ClosingPublished
    /\ VerdictHolds
    /\ CompletedMeansCompleted

\* What a step may do to the run rows, the request rows, the children and the
\* tasks without disturbing CompletedInv.
RunsKeep ==
    \A g \in Runs :
        /\ igStatus[g] = "completed" => igStatus'[g] = "completed"
        /\ igStatus'[g] = "completed" => igStatus[g] = "completed" \/ cpc'[g] = "close"

RowsKeep ==
    \A r \in Requests :
        status'[r] = "completed" /\ runOf'[r] # NoRun
          => status[r] = "completed" \/ igStatus'[runOf'[r]] = "completed"

ChildrenKeep ==
    \A g \in Runs :
        /\ cpc[g] \in Publishing => cpc'[g] \in Publishing
        /\ cpc'[g] = "close" => \/ cpc[g] = "close" /\ cres'[g] = cres[g]
                               \/ igStatus'[g] = cres'[g]

TasksKeep ==
    \A s \in Slots :
        tpc'[s] = "reconcile" /\ tout'[s] = "completed"
          => \/ tpc[s] = "reconcile" /\ tout[s] = "completed" /\ trun'[s] = trun[s]
             \/ trun'[s] \in Runs /\ igStatus'[trun'[s]] = "completed"

StepKeeps == RunsKeep /\ RowsKeep /\ ChildrenKeep /\ TasksKeep

\* No function of the ledger links a settled request.
LEMMA SettledKeepsRun ==
  ASSUME LedgerInv, LedgerStep, NEW r \in Requests, status[r] \in TerminalStatus
  PROVE  runOf'[r] = runOf[r]
<1> USE DEF LedgerInv, LedgerTypeOK, TerminalStatus
<1>1. ASSUME NEW w \in Workers, NEW q \in Requests, NEW run \in Runs, Link(w, q, run)
      PROVE  runOf'[r] = runOf[r]
  BY <1>1 DEF Link, CanLink
<1> QED
  BY <1>1 DEF LedgerStep, AnyLedgerNext, Create, Cancel, LeaseLapses, Reclaim, Claim, MarkStarting,
      Complete, Renew, InsertRun, PatchRun, ledgerVars, queueVars

LEMMA KeepsCompleted ==
  ASSUME ControlInv, ControlInv', LedgerInv, LedgerStep, CompletedInv, StepKeeps
  PROVE  CompletedInv'
<1> USE LedgerAssumption DEF CompletedInv, StepKeeps
<1>type. \A r \in Requests : runOf[r] \in Runs \union {NoRun}
  BY DEF ControlInv, RunControlTypeOK, LedgerTypeOK
<1>1. PublishedByWorker'
  BY DEF PublishedByWorker, RunsKeep, ChildrenKeep, Publishing
<1>2. ClosingPublished'
  BY DEF ClosingPublished, RunsKeep, ChildrenKeep
<1>3. VerdictHolds'
  BY DEF VerdictHolds, TasksKeep, RunsKeep
<1>4. CompletedMeansCompleted'
  <2> SUFFICES ASSUME NEW r \in Requests, status'[r] = "completed", runOf'[r] # NoRun
               PROVE  igStatus'[runOf'[r]] = "completed"
    BY DEF CompletedMeansCompleted
  <2>1. CASE status[r] = "completed"
    <3>1. runOf'[r] = runOf[r]
      BY <2>1, SettledKeepsRun DEF TerminalStatus
    <3> QED
      BY <2>1, <3>1, <1>type DEF CompletedMeansCompleted, RunsKeep
  <2>2. CASE status[r] # "completed"
    BY <2>2 DEF RowsKeep
  <2> QED
    BY <2>1, <2>2
<1> QED
  BY <1>1, <1>2, <1>3, <1>4

\* Where nothing is settled as completed and no run is written.
LEMMA QuietLedger ==
  ASSUME UNCHANGED igStatus,
         \A r \in Requests : status'[r] = "completed" => status[r] = "completed"
  PROVE  RunsKeep /\ RowsKeep
  BY DEF RunsKeep, RowsKeep

LEMMA QuietChildren == ASSUME UNCHANGED <<cpc, creq, cres>> PROVE ChildrenKeep
  BY DEF ChildrenKeep

LEMMA QuietTasks == ASSUME UNCHANGED taskVars PROVE TasksKeep
  BY DEF TasksKeep, taskVars

\* Completing a request with another outcome completes nothing.
LEMMA OtherOutcome ==
  ASSUME ControlInv, NEW r \in Requests, NEW s, s # "completed", TryComplete(Me, r, s)
  PROVE  /\ UNCHANGED igStatus
         /\ \A q \in Requests : status'[q] = "completed" => status[q] = "completed"
  BY DEF TryComplete, Complete, queueVars, ledgerVars, runVars, ControlInv, RunControlTypeOK,
         LedgerTypeOK

\* Completing a request whose run completed is what the property asks for.
LEMMA CompletedOutcome ==
  ASSUME ControlInv, NEW r \in Requests, NEW s, TryComplete(Me, r, s),
         s = "completed" /\ runOf[r] # NoRun => igStatus[runOf[r]] = "completed"
  PROVE  RunsKeep /\ RowsKeep /\ UNCHANGED <<runOf, igStatus>>
  BY DEF RunsKeep, RowsKeep, TryComplete, Complete, queueVars, ledgerVars, runVars, ControlInv,
         RunControlTypeOK, LedgerTypeOK

\* Patching a run with another status, when it is not completed already.
LEMMA OtherPatch ==
  ASSUME ControlInv, NEW g \in Runs, NEW s, s # "completed", igStatus[g] # "completed",
         PatchRun(g, s)
  PROVE  RunsKeep /\ RowsKeep
  BY DEF RunsKeep, RowsKeep, PatchRun, ledgerVars, ControlInv, RunControlTypeOK, LedgerTypeOK

LEMMA ChildKeeps ==
  ASSUME ControlInv, LedgerInv, CompletedInv, BoundIsLinked,
         NEW g \in Runs, ChildStep(g), UNCHANGED taskVars
  PROVE  StepKeeps
<1> USE LedgerAssumption DEF Goto, Publishing, Exited
<1>type. /\ cpc \in [Runs -> {"none", "boot", "link", "unlinked", "gate", "work", "cleanup", "close"}
                             \union Exited]
         /\ cres \in [Runs -> RunTerminal \union {"none"}]
         /\ cpc[g] # "none" => creq[g] \in Requests
         /\ igStatus \in [Runs -> {"absent", "running"} \union RunTerminal]
         /\ runOf \in [Requests -> Runs \union {NoRun}]
  BY DEF ControlInv, RunControlTypeOK, LedgerTypeOK, ChildrenServe
<1>pub. igStatus[g] = "completed" => cpc[g] \in Publishing
  BY DEF CompletedInv, PublishedByWorker
<1>tasks. TasksKeep
  BY QuietTasks
<1>quiet. ASSUME UNCHANGED queueVars PROVE RunsKeep /\ RowsKeep
  BY <1>quiet, QuietLedger DEF queueVars, ledgerVars, runVars
<1>other. ASSUME NEW pc, \/ pc \in Exited
                         \/ pc = "unlinked" /\ cpc[g] \in {"boot", "link"}
                         \/ pc = "work" /\ cpc[g] = "gate",
                 cpc' = [cpc EXCEPT ![g] = pc], UNCHANGED <<creq, cres>>
          PROVE  ChildrenKeep
  BY <1>type, <1>other DEF ChildrenKeep
<1>1. CASE ChildBail(g)
  BY <1>1, <1>tasks, <1>quiet, <1>other DEF ChildBail, StepKeeps
<1>2. CASE ChildCreateRun(g)
  <2>1. RunsKeep /\ RowsKeep
    BY <1>2, <1>type DEF ChildCreateRun, InsertRun, ledgerVars, RunsKeep, RowsKeep
  <2>2. ChildrenKeep
    BY <1>2, <1>type DEF ChildCreateRun, ChildrenKeep
  <2> QED
    BY <2>1, <2>2, <1>tasks DEF StepKeeps
<1>3. CASE ChildCreateRunFails(g)
  <2>1. ChildrenKeep
    BY <1>3, <1>other DEF ChildCreateRunFails
  <2> QED
    BY <1>3, <2>1, <1>tasks, <1>quiet DEF ChildCreateRunFails, StepKeeps
<1>unlinked. ASSUME cpc[g] = "link", LinkMissed(g), UNCHANGED cres PROVE StepKeeps
  <2>1. RunsKeep /\ RowsKeep
    BY <1>unlinked, <1>pub, <1>quiet, OtherPatch DEF LinkMissed
  <2>2. ChildrenKeep
    BY <1>unlinked, <1>other DEF LinkMissed
  <2> QED
    BY <2>1, <2>2, <1>tasks DEF StepKeeps
<1>4. CASE ChildLink(g)
  <2>1. CASE CanLink(Me, creq[g])
    <3>1. Link(Me, creq[g], g) /\ cpc' = [cpc EXCEPT ![g] = "gate"]
          /\ UNCHANGED <<creq, cres>> /\ creq[g] \in Requests
      BY <1>4, <2>1, <1>type DEF ChildLink
    <3>2. RunsKeep /\ RowsKeep
      BY <3>1, QuietLedger DEF Link, runVars, ControlInv, RunControlTypeOK, LedgerTypeOK
    <3>3. cpc[g] = "link" /\ runOf'[creq'[g]] = g
      BY <1>4, <3>1, <1>type DEF ChildLink, Link
    <3>4. \A h \in Runs : h # g => cpc'[h] = cpc[h]
      BY <3>1, <1>type
    <3>5. cpc'[g] = "gate"
      BY <3>1, <1>type
    <3>6. ChildrenKeep
      BY <3>1, <3>3, <3>4, <3>5 DEF ChildrenKeep
    <3> QED
      BY <3>2, <3>6, <1>tasks DEF StepKeeps
  <2>2. CASE ~CanLink(Me, creq[g])
    BY <1>4, <2>2, <1>unlinked DEF ChildLink
  <2> QED
    BY <2>1, <2>2
<1>5. CASE ChildLinkFails(g)
  BY <1>5, <1>unlinked DEF ChildLinkFails
<1>6. CASE ChildUnlinked(g) \/ ChildGate(g)
  <2>1. RunsKeep /\ RowsKeep
    BY <1>6, <1>type, <1>quiet, CompletedOutcome DEF ChildUnlinked, ChildGate, ChildAborts
  <2>2. ChildrenKeep
    BY <1>6, <1>type DEF ChildUnlinked, ChildGate, ChildAborts, ChildrenKeep
  <2> QED
    BY <2>1, <2>2, <1>tasks DEF StepKeeps
<1>7. CASE ChildSetupFails(g) \/ ChildGateFails(g)
  BY <1>7, <1>tasks, <1>quiet, <1>other DEF ChildSetupFails, ChildGateFails, StepKeeps
<1>8. CASE ChildEndWork(g)
  <2>1. ChildrenKeep
    BY <1>8, <1>type DEF ChildEndWork, ChildrenKeep
  <2> QED
    BY <1>8, <2>1, <1>tasks, <1>quiet DEF ChildEndWork, StepKeeps
<1>code. ExitCode(g) \in {"exit0", "exit1"}
  BY DEF ExitCode
<1>9. CASE ChildPublish(g)
  <2>1. PatchRun(g, cres[g]) /\ cpc' = [cpc EXCEPT ![g] = "close"] /\ cpc[g] = "cleanup"
        /\ UNCHANGED <<creq, cres>>
    BY <1>9 DEF ChildPublish
  <2>2. RunsKeep /\ RowsKeep
    BY <2>1, <1>type, <1>pub DEF PatchRun, ledgerVars, RunsKeep, RowsKeep
  <2>3. ChildrenKeep
    BY <2>1, <1>type DEF PatchRun, ChildrenKeep
  <2> QED
    BY <2>2, <2>3, <1>tasks DEF StepKeeps
<1>10. CASE ChildPublishFails(g)
  BY <1>10, <1>tasks, <1>quiet, <1>other, <1>code DEF ChildPublishFails, StepKeeps
<1>11. CASE ChildClose(g)
  <2>1. RequestStatusFor(cres[g]) = "completed" => cres[g] = "completed"
    BY DEF RequestStatusFor
  <2>2. runOf[creq[g]] = g /\ (cres[g] = "completed" => igStatus[g] = "completed")
    BY <1>11 DEF ChildClose, CompletedInv, BoundIsLinked, Bound, ClosingPublished
  <2>3. RunsKeep /\ RowsKeep
    BY <1>11, <2>1, <2>2, <1>type, CompletedOutcome DEF ChildClose
  <2> QED
    BY <1>11, <2>3, <1>tasks, <1>other, <1>code DEF ChildClose, StepKeeps
<1>12. CASE ChildCloseFails(g)
  BY <1>12, <1>tasks, <1>quiet, <1>other, <1>code DEF ChildCloseFails, StepKeeps
<1>13. CASE ChildStopped(g) \/ ChildDies(g)
  BY <1>13, <1>tasks, <1>quiet, <1>other DEF ChildStopped, ChildDies, Live, StepKeeps
<1> QED
  BY <1>1, <1>2, <1>3, <1>4, <1>5, <1>6, <1>7, <1>8, <1>9, <1>10, <1>11, <1>12, <1>13
  DEF ChildStep, ChildProceeds, ChildFails

LEMMA TaskKeeps ==
  ASSUME ControlInv, LedgerInv, CompletedInv, NEW s \in Slots, TaskStep(s)
  PROVE  StepKeeps
<1> USE LedgerAssumption DEF TaskGoto, TaskEnds, Busy, StepKeeps
<1>type. PlaneTypeOK /\ LedgerTypeOK
  BY ControlInvSplit
<1>serve. tpc[s] # "free" => treq[s] \in Requests
  BY DEF ControlInv, TasksServe
<1>quiet. ASSUME UNCHANGED queueVars PROVE RunsKeep /\ RowsKeep
  BY <1>quiet, QuietLedger DEF queueVars, ledgerVars, runVars
<1>child. ASSUME UNCHANGED childVars PROVE ChildrenKeep
  BY <1>child, QuietChildren DEF childVars
<1>task. ASSUME \/ /\ tpc' = [tpc EXCEPT ![s] = "free"] \/ tpc' = [tpc EXCEPT ![s] = "wait"]
                      \/ tpc' = [tpc EXCEPT ![s] = "stopping"]
                   /\ \A t \in Slots \ {s} : tout'[t] = tout[t] /\ trun'[t] = trun[t]
         PROVE  TasksKeep
  BY <1>task, <1>type DEF PlaneTypeOK, TasksKeep
<1>goto. ASSUME NEW pc, pc # "reconcile", tpc' = [tpc EXCEPT ![s] = pc], UNCHANGED <<tout, trun>>
         PROVE  TasksKeep
  BY <1>goto, <1>type DEF PlaneTypeOK, TasksKeep
<1>ends. ASSUME TaskEnds(s) PROVE TasksKeep
  BY <1>ends, <1>task, <1>type DEF PlaneTypeOK
<1>1. CASE TaskMarks(s)
  <2>1. RunsKeep /\ RowsKeep
    BY <1>1, <1>type, <1>quiet, QuietLedger
    DEF TaskMarks, MarkStarting, runVars, LedgerTypeOK
  <2> QED
    BY <1>1, <2>1, <1>child, <1>goto, <1>ends DEF TaskMarks
<1>2. CASE TaskTakesResumeLock(s)
  BY <1>2, <1>quiet, <1>child, <1>goto DEF TaskTakesResumeLock
<1>3. CASE TaskTakesLock(s)
  BY <1>3, <1>quiet, <1>child, <1>goto, <1>ends, <1>serve, CompletedOutcome DEF TaskTakesLock
<1>4. ASSUME NEW g \in Runs, TaskLaunches(s, g) PROVE StepKeeps
  <2>1. ChildrenKeep
    BY <1>4, <1>type DEF TaskLaunches, SpawnChild, PlaneTypeOK, ChildrenKeep, Publishing,
                         Exited
  <2> QED
    BY <1>4, <2>1, <1>quiet, <1>goto DEF TaskLaunches
<1>5. CASE TaskSeesExit(s)
  BY <1>5, <1>quiet, <1>child, <1>goto DEF TaskSeesExit
<1>signal. ASSUME tpc[s] = "wait", SignalChild(s) PROVE ChildrenKeep
  <2>1. tchild[s] \in Runs /\ cpc[tchild[s]] # "none"
    BY <1>signal DEF ControlInv, TasksServe
  <2> QED
    BY <1>signal, <2>1, <1>type DEF SignalChild, Terminate, HandlerInstalled, PlaneTypeOK,
                                    ChildrenKeep, Publishing, Exited
<1>6. CASE TaskSeesCancel(s)
  BY <1>6, <1>quiet, <1>signal, <1>goto DEF TaskSeesCancel
<1>7. CASE TaskReleases(s)
  BY <1>7, <1>quiet, <1>child, <1>goto DEF TaskReleases
<1>8. CASE TaskFinalizes(s)
  <2>1. PICK v \in Verdicts(s) : TryComplete(Me, treq[s], v) /\ tout' = [tout EXCEPT ![s] = v]
    BY <1>8 DEF TaskFinalizes
  <2>2. treq[s] \in Requests
    BY <1>8, <1>serve DEF TaskFinalizes
  <2>3. v = "completed" => runOf[treq[s]] # NoRun /\ igStatus[runOf[treq[s]]] = "completed"
    BY <2>1 DEF Verdicts, ContractMayHold
  <2>4. RunsKeep /\ RowsKeep /\ UNCHANGED <<runOf, igStatus>>
    BY <2>1, <2>2, <2>3, CompletedOutcome
  <2>5. TasksKeep
    BY <1>8, <2>1, <2>2, <2>3, <2>4, <1>type
    DEF TaskFinalizes, TasksKeep, PlaneTypeOK, LedgerTypeOK
  <2> QED
    BY <1>8, <2>4, <2>5, <1>child DEF TaskFinalizes
<1>9. CASE TaskReconciles(s)
  <2>1. CASE trun[s] # NoRun /\ igStatus[trun[s]] = "running"
    <3>1. trun[s] \in Runs /\ PatchRun(trun[s], RunStatusFor(tout[s]))
      BY <1>9, <2>1, <1>type DEF TaskReconciles, PlaneTypeOK
    <3>2. RunStatusFor(tout[s]) # "completed"
      BY <1>9, <2>1 DEF TaskReconciles, RunStatusFor, CompletedInv, VerdictHolds
    <3>3. RunsKeep /\ RowsKeep
      BY <2>1, <3>1, <3>2, OtherPatch
    <3> QED
      BY <1>9, <3>3, <1>child, <1>ends DEF TaskReconciles
  <2>2. CASE ~(trun[s] # NoRun /\ igStatus[trun[s]] = "running")
    BY <1>9, <2>2, <1>quiet, <1>child, <1>ends DEF TaskReconciles
  <2> QED
    BY <2>1, <2>2
<1>10. CASE TaskRefuses(s)
  BY <1>10, <1>child, <1>ends, <1>serve, CompletedOutcome DEF TaskRefuses
<1>11. CASE TaskRefusesResume(s)
  BY <1>11, <1>child, <1>ends, <1>serve, CompletedOutcome DEF TaskRefusesResume
<1>12. CASE TaskTimesOut(s)
  <2>1. TasksKeep
    BY <1>12, <1>task, <1>type DEF TaskTimesOut, PlaneTypeOK
  <2> QED
    BY <1>12, <2>1, <1>quiet, <1>signal DEF TaskTimesOut
<1>13. CASE TaskIsLost(s)
  BY <1>13, <1>quiet, <1>child, <1>ends DEF TaskIsLost
<1> QED
  BY <1>1, <1>2, <1>3, <1>4, <1>5, <1>6, <1>7, <1>8, <1>9, <1>10, <1>11, <1>12, <1>13
  DEF TaskStep, TaskProceeds

LEMMA MainKeeps ==
  ASSUME ControlInv, LedgerInv, CompletedInv, DispatcherNext, \A s \in Slots : ~TaskStep(s)
  PROVE  StepKeeps
<1> USE LedgerAssumption DEF StepKeeps, MainGoto
<1>type. PlaneTypeOK /\ LedgerTypeOK
  BY ControlInvSplit
<1>quiet. ASSUME UNCHANGED queueVars PROVE RunsKeep /\ RowsKeep
  BY <1>quiet, QuietLedger DEF queueVars, ledgerVars, runVars
<1>child. ASSUME UNCHANGED childVars PROVE ChildrenKeep
  BY <1>child, QuietChildren DEF childVars
<1>task. ASSUME UNCHANGED taskVars PROVE TasksKeep
  BY <1>task, QuietTasks
<1>1. ASSUME NEW s \in Slots, NEW r \in Requests, MainClaims(s, r) PROVE StepKeeps
  <2>1. RunsKeep /\ RowsKeep
    BY <1>1, <1>type, QuietLedger DEF MainClaims, Claim, ReclaimedStatus, runVars, LedgerTypeOK
  <2>2. TasksKeep
    BY <1>1, <1>type DEF MainClaims, TasksKeep, PlaneTypeOK
  <2> QED
    BY <1>1, <2>1, <2>2, <1>child DEF MainClaims
<1>2. ASSUME NEW r \in Requests, MainFindsOrphan(r) PROVE StepKeeps
  <2>1. runOf[r] \in Runs
    BY <1>2, <1>type DEF MainFindsOrphan, IsOrphan, LedgerTypeOK
  <2>2. RunsKeep /\ RowsKeep
    BY <1>2, <2>1, OtherPatch DEF MainFindsOrphan, IsOrphan
  <2> QED
    BY <1>2, <2>2, <1>child, <1>task DEF MainFindsOrphan
<1>3. CASE MainClosesOrphan
  <2>1. mreq \in Requests
    BY <1>3 DEF MainClosesOrphan, ControlInv, MainServes
  <2>2. RunsKeep /\ RowsKeep
    BY <1>3, <2>1, CompletedOutcome DEF MainClosesOrphan
  <2> QED
    BY <1>3, <2>2, <1>child, <1>task DEF MainClosesOrphan
<1>4. ASSUME NEW r \in Requests, MainSweepsTerminal(r) PROVE StepKeeps
  <2>1. RequestStatusFor(igStatus[runOf[r]]) = "completed" => igStatus[runOf[r]] = "completed"
    BY DEF RequestStatusFor
  <2>2. RunsKeep /\ RowsKeep
    BY <1>4, <2>1, CompletedOutcome DEF MainSweepsTerminal
  <2> QED
    BY <1>4, <2>2, <1>child, <1>task DEF MainSweepsTerminal
<1>5. CASE MainStarts \/ MainEndsOrphans \/ MainEndsTerminals \/ MainPreflight \/ MainDrained
           \/ MainStops
  BY <1>5, <1>quiet, <1>child, <1>task
  DEF MainStarts, MainEndsOrphans, MainEndsTerminals, MainPreflight, MainDrained, MainStops
<1>6. CASE MainReclaims
  <2>1. RunsKeep /\ RowsKeep
    BY <1>6, <1>type, QuietLedger DEF MainReclaims, Reclaim, ReclaimedStatus, runVars, LedgerTypeOK
  <2> QED
    BY <1>6, <2>1, <1>child, <1>task DEF MainReclaims
<1>7. CASE MainCrashes
  <2>1. ChildrenKeep
    BY <1>7, <1>type DEF MainCrashes, Live, PlaneTypeOK, ChildrenKeep, Publishing, Exited
  <2>2. TasksKeep
    BY <1>7 DEF MainCrashes, TasksKeep
  <2> QED
    BY <1>7, <2>1, <2>2, <1>quiet DEF MainCrashes
<1> QED
  BY <1>1, <1>2, <1>3, <1>4, <1>5, <1>6, <1>7 DEF DispatcherNext, MainProceeds

LEMMA EnvironmentKeeps ==
  ASSUME ControlInv, LedgerInv, CompletedInv, EnvironmentNext
  PROVE  StepKeeps
<1> USE DEF StepKeeps
<1>type. LedgerTypeOK
  BY ControlInvSplit
<1>1. UNCHANGED childVars /\ UNCHANGED taskVars
  BY DEF EnvironmentNext, Submit, CancelRequest, RequestLeaseLapses, PhoneLockLapses
<1>2. ASSUME NEW r \in Requests, Create(r) \/ Cancel(r) \/ LeaseLapses(r) PROVE RunsKeep /\ RowsKeep
  BY <1>2, <1>type, QuietLedger DEF Create, Cancel, LeaseLapses, runVars, LedgerTypeOK
<1>3. ASSUME UNCHANGED queueVars PROVE RunsKeep /\ RowsKeep
  BY <1>3, QuietLedger DEF queueVars, ledgerVars, runVars
<1>4. RunsKeep /\ RowsKeep
  BY <1>2, <1>3 DEF EnvironmentNext, Submit, CancelRequest, RequestLeaseLapses, PhoneLockLapses
<1> QED
  BY <1>1, <1>4, QuietChildren, QuietTasks DEF childVars

LEMMA CompletedInvStep ==
  ASSUME ControlInv, LedgerInv, CompletedInv, BoundIsLinked, [Next]_vars
  PROVE  CompletedInv'
<1>1. ASSUME UNCHANGED vars PROVE CompletedInv'
  BY <1>1 DEF vars, queueVars, ledgerVars, runVars, childVars, taskVars, CompletedInv,
     PublishedByWorker, ClosingPublished, VerdictHolds, CompletedMeansCompleted
<1>2. ASSUME Next PROVE StepKeeps
  BY <1>2, TaskKeeps, MainKeeps, EnvironmentKeeps, ChildKeeps DEF Next, ChildrenNext
<1> QED
  BY <1>1, <1>2, KeepsCompleted, ControlInvStep, ControlLedgerStep

LEMMA CompletedInit == Init => CompletedInv
  BY DEF Init, LedgerInit, ChildInit, CompletedInv, PublishedByWorker, ClosingPublished,
     VerdictHolds, CompletedMeansCompleted

LEMMA CompletedAlways == Spec => []CompletedInv
<1>1. ControlInv /\ LedgerInv /\ CompletedInv /\ BoundIsLinked /\ [Next]_vars => CompletedInv'
  BY CompletedInvStep
<1> QED
  BY <1>1, CompletedInit, LinkedBeforePhone, ControlInvariant, RunControlLedger, PTL DEF Spec

\* A request settled as completed has a run that completed, in every setting,
\* whoever settled it and whichever of crash, reclaim, relaunch or lost task
\* came between.
THEOREM RunControlCompleted == Spec => []CompletedMeansCompleted
<1>1. CompletedInv => CompletedMeansCompleted
  BY DEF CompletedInv
<1> QED
  BY <1>1, CompletedAlways, PTL
=============================================================================
