-------------------------- MODULE AccountRuns_proofs --------------------------
(***************************************************************************)
(* The active run rows of an account.  Creation refuses an account with an *)
(* active request, the claim refuses one with an active run, the link and  *)
(* the insertion of a run look at neither.  Together they leave at most    *)
(* one active run a request is linked to, whatever the settings; and with  *)
(* one slot and workers that die with their dispatcher, at most one active *)
(* run of any kind.                                                        *)
(***************************************************************************)
EXTENDS RunControl_proofs

Unlinked == {"claimed", "starting"}
Preparing == {"gates", "starting", "launch"}
Waits(s) == tpc[s] \in {"wait", "stopping"}

\* A worker about to link has inserted the run of its request's account.
LinkingRuns ==
    \A g \in Runs :
        cpc[g] = "link" => igStatus[g] # "absent" /\ igAccount[g] = AccountOf[creq[g]]

LinkedRunRows ==
    \A r \in Requests :
        runOf[r] # NoRun
          => igStatus[runOf[r]] # "absent" /\ igAccount[runOf[r]] = AccountOf[r]

\* No request of an account is handed out beside an active linked run.
NoneHandedOut ==
    \A q, r \in Requests :
        status[q] \in Unlinked /\ runOf[r] # NoRun /\ AccountOf[q] = AccountOf[r]
          => igStatus[runOf[r]] # "running"

LinkedInv ==
    /\ LinkingRuns
    /\ LinkedRunRows
    /\ NoneHandedOut
    /\ OneLinkedRunPerAccount

\* Every worker is watched, and neither a task before its launch nor a worker
\* before its insertion finds an active run of its account.
AllWatched == \A g \in Runs : Live(g) => \E s \in Slots : Waits(s) /\ tchild[s] = g

FreshLaunch ==
    /\ \A s \in Slots : tpc[s] \in Preparing => ~HasActiveRun(AccountOf[treq[s]])
    /\ \A g \in Runs : cpc[g] = "boot" => ~HasActiveRun(AccountOf[creq[g]])

FreshInv ==
    /\ AllWatched
    /\ FreshLaunch
    /\ OneRunPerAccount

-----------------------------------------------------------------------------
(* Tame steps: no launch, no insertion and no link.                        *)

RunsTame ==
    \A g \in Runs :
        /\ igStatus'[g] = "running" => igStatus[g] = "running"
        /\ igStatus[g] # "absent" => igStatus'[g] # "absent"
        /\ igAccount'[g] = igAccount[g]

RowsTame ==
    \A r \in Requests :
        /\ runOf'[r] = runOf[r]
        /\ status'[r] \in Unlinked => status[r] \in Unlinked \/ ~HasActiveRun(AccountOf[r])

WorkersTame ==
    \A g \in Runs :
        Live(g)' => /\ Live(g)
                    /\ creq'[g] = creq[g]
                    /\ cpc'[g] \in {"boot", "link"} => cpc[g] = cpc'[g]

TasksTame ==
    \A s \in Slots :
        /\ Waits(s) /\ cpc'[tchild[s]] \notin {"none"} \union Exited
             => Waits(s)' /\ tchild'[s] = tchild[s]
        /\ tpc'[s] \in Preparing => \/ tpc[s] \in Preparing /\ treq'[s] = treq[s]
                                   \/ ~HasActiveRun(AccountOf[treq'[s]])

LEMMA TameLinked ==
  ASSUME ControlInv, LinkedInv, RunsTame, RowsTame, WorkersTame
  PROVE  LinkedInv'
<1> USE LedgerAssumption
<1>type. /\ \A r \in Requests : runOf[r] \in Runs \union {NoRun}
  BY ControlInvSplit DEF LedgerTypeOK
<1>1. LinkingRuns'
  BY DEF LinkedInv, LinkingRuns, RunsTame, WorkersTame, Live, Exited
<1>2. LinkedRunRows'
  BY <1>type DEF LinkedInv, LinkedRunRows, RunsTame, RowsTame
<1>3. NoneHandedOut'
  <2> SUFFICES ASSUME NEW q \in Requests, NEW r \in Requests, status'[q] \in Unlinked,
                      runOf'[r] # NoRun, AccountOf[q] = AccountOf[r],
                      igStatus'[runOf'[r]] = "running"
               PROVE  FALSE
    BY DEF NoneHandedOut
  <2>1. runOf[r] # NoRun /\ runOf[r] \in Runs /\ igStatus[runOf[r]] = "running"
    BY <1>type DEF RowsTame, RunsTame
  <2>2. igAccount[runOf[r]] = AccountOf[q]
    BY <2>1 DEF LinkedInv, LinkedRunRows
  <2>3. HasActiveRun(AccountOf[q])
    BY <2>1, <2>2 DEF HasActiveRun
  <2> QED
    BY <2>1, <2>3 DEF RowsTame, LinkedInv, NoneHandedOut
<1>4. OneLinkedRunPerAccount'
  BY <1>type DEF LinkedInv, OneLinkedRunPerAccount, RunsTame, RowsTame
<1> QED
  BY <1>1, <1>2, <1>3, <1>4 DEF LinkedInv

LEMMA NoNewActive ==
  ASSUME RunsTame, NEW a, HasActiveRun(a)'
  PROVE  HasActiveRun(a)
  BY DEF RunsTame, HasActiveRun

LEMMA TameFresh ==
  ASSUME FreshInv, RunsTame, WorkersTame, TasksTame
  PROVE  FreshInv'
<1>1. AllWatched'
  BY DEF FreshInv, AllWatched, WorkersTame, TasksTame, Live
<1>2. FreshLaunch'
  BY NoNewActive DEF FreshInv, FreshLaunch, WorkersTame, TasksTame, Live, Exited
<1>3. OneRunPerAccount'
  BY DEF FreshInv, OneRunPerAccount, RunsTame
<1> QED
  BY <1>1, <1>2, <1>3 DEF FreshInv

LEMMA QuietRows ==
  ASSUME UNCHANGED queueVars
  PROVE  RunsTame /\ RowsTame
  BY DEF queueVars, ledgerVars, runVars, RunsTame, RowsTame

LEMMA SettlingRows ==
  ASSUME ControlInv, NEW r \in Requests, NEW s \in TerminalStatus, TryComplete(Me, r, s)
  PROVE  RunsTame /\ RowsTame
  BY ControlInvSplit, QuietRows
  DEF TryComplete, Complete, runVars, RunsTame, RowsTame, LedgerTypeOK, TerminalStatus, Unlinked

LEMMA PatchedRows ==
  ASSUME ControlInv, NEW g \in Runs, NEW s \in RunTerminal, PatchRun(g, s)
  PROVE  RunsTame /\ RowsTame
  BY ControlInvSplit DEF PatchRun, ledgerVars, RunsTame, RowsTame, LedgerTypeOK, RunTerminal

LEMMA QuietWorkers == ASSUME UNCHANGED <<cpc, creq>> PROVE WorkersTame
  BY DEF WorkersTame, Live

LEMMA QuietTaskVars == ASSUME UNCHANGED taskVars PROVE TasksTame
  BY DEF TasksTame, taskVars, Waits

Tame == RunsTame /\ RowsTame /\ WorkersTame

LEMMA ChildTame ==
  ASSUME ControlInv, NEW g \in Runs, ChildStep(g), ~ChildCreateRun(g),
         ~(ChildLink(g) /\ CanLink(Me, creq[g]))
  PROVE  Tame
<1> USE DEF Goto, Tame
<1>type. PlaneTypeOK /\ LedgerTypeOK
  BY ControlInvSplit
<1>serve. cpc[g] # "none" => creq[g] \in Requests
  BY <1>type DEF PlaneTypeOK, ChildrenServe
<1>goto. ASSUME NEW pc, cpc' = [cpc EXCEPT ![g] = pc], creq' = creq, pc \notin {"boot", "link"},
                cpc[g] \notin {"none"} \union Exited
         PROVE  WorkersTame
  BY <1>goto, <1>type DEF WorkersTame, Live, Exited, PlaneTypeOK
<1>missed. ASSUME cpc[g] = "link", LinkMissed(g) PROVE Tame
  BY <1>missed, <1>goto, QuietRows, PatchedRows DEF LinkMissed, RunTerminal, Exited
<1>1. CASE ChildLink(g) \/ ChildLinkFails(g)
  BY <1>1, <1>missed DEF ChildLink, ChildLinkFails
<1>code. ExitCode(g) \in Exited
  BY DEF ExitCode, Exited
<1>2. CASE ChildBail(g) \/ ChildCreateRunFails(g)
  BY <1>2, <1>goto, QuietRows DEF ChildBail, ChildCreateRunFails, Exited
<1>3. CASE ChildUnlinked(g) \/ ChildGate(g) \/ ChildGateFails(g)
  BY <1>3, <1>goto, <1>serve, QuietRows, SettlingRows
  DEF ChildUnlinked, ChildGate, ChildGateFails, ChildAborts, TerminalStatus, Exited
<1>4. CASE ChildSetupFails(g) \/ ChildEndWork(g)
  BY <1>4, <1>goto, QuietRows DEF ChildSetupFails, ChildEndWork, Exited
<1>5. CASE ChildPublish(g)
  <2>1. /\ cres[g] \in RunTerminal /\ PatchRun(g, cres[g])
        /\ cpc[g] = "cleanup" /\ cpc' = [cpc EXCEPT ![g] = "close"] /\ creq' = creq
    BY <1>5, <1>type DEF ChildPublish, PlaneTypeOK, ChildrenServe
  <2>2. RunsTame /\ RowsTame
    BY <2>1, PatchedRows
  <2>3. WorkersTame
    BY <2>1, <1>type DEF WorkersTame, Live, Exited, PlaneTypeOK
  <2> QED
    BY <2>2, <2>3
<1>6. CASE ChildPublishFails(g) \/ ChildCloseFails(g)
  BY <1>6, <1>goto, <1>code, QuietRows DEF ChildPublishFails, ChildCloseFails, Exited
<1>7. CASE ChildClose(g)
  BY <1>7, <1>goto, <1>code, <1>serve, SettlingRows, RunStatuses DEF ChildClose, Exited
<1>8. CASE ChildStopped(g) \/ ChildDies(g)
  BY <1>8, <1>goto, QuietRows DEF ChildStopped, ChildDies, Live, Exited
<1> QED
  BY <1>1, <1>2, <1>3, <1>4, <1>5, <1>6, <1>7, <1>8 DEF ChildStep, ChildProceeds, ChildFails

LEMMA TaskTame ==
  ASSUME ControlInv, NEW s \in Slots, TaskStep(s), \A g \in Runs : ~TaskLaunches(s, g)
  PROVE  Tame /\ TasksTame
<1> USE DEF Tame, TaskGoto, TaskEnds
<1>type. PlaneTypeOK /\ LedgerTypeOK
  BY ControlInvSplit
<1>serve. tpc[s] # "free" => treq[s] \in Requests
  BY <1>type DEF PlaneTypeOK, TasksServe, Busy
<1>child. ASSUME UNCHANGED childVars PROVE WorkersTame
  BY <1>child, QuietWorkers DEF childVars
<1>goto. ASSUME NEW pc, TaskGoto(s, pc),
                pc \in Preparing => tpc[s] \in Preparing,
                Waits(s) => pc = "stopping" \/ cpc'[tchild[s]] \in Exited
         PROVE  TasksTame
  BY <1>goto, <1>type DEF TasksTame, PlaneTypeOK, Waits, Live, Exited
<1>ends. ASSUME TaskEnds(s), ~Waits(s) PROVE TasksTame
  BY <1>ends, <1>type DEF TasksTame, PlaneTypeOK, Waits, Preparing
<1>signal. ASSUME Waits(s), SignalChild(s) PROVE WorkersTame
  <2>1. tchild[s] \in Runs /\ cpc[tchild[s]] # "none"
    BY <1>signal, <1>type DEF PlaneTypeOK, TasksServe, Waits
  <2> QED
    BY <1>signal, <2>1, <1>type, TerminateType DEF SignalChild, WorkersTame, Live, Exited
<1>1. CASE TaskMarks(s)
  <2>1. RunsTame /\ RowsTame
    BY <1>1, <1>type, QuietRows
    DEF TaskMarks, MarkStarting, CanMarkStarting, runVars, RunsTame, RowsTame, Unlinked, LedgerTypeOK
  <2> QED
    BY <1>1, <2>1, <1>child, <1>goto, <1>ends DEF TaskMarks, Preparing, Waits
<1>2. CASE TaskTakesResumeLock(s) \/ TaskReleases(s)
  BY <1>2, <1>child, <1>goto, QuietRows DEF TaskTakesResumeLock, TaskReleases, Preparing, Waits
<1>3. CASE TaskTakesLock(s) \/ TaskRefuses(s) \/ TaskRefusesResume(s)
  BY <1>3, <1>child, <1>goto, <1>ends, <1>serve, QuietRows, SettlingRows
  DEF TaskTakesLock, TaskRefuses, TaskRefusesResume, Preparing, Waits, TerminalStatus
<1>4. CASE TaskSeesExit(s)
  BY <1>4, <1>child, <1>goto, QuietRows DEF TaskSeesExit, Preparing, Waits, childVars
<1>5. CASE TaskSeesCancel(s)
  BY <1>5, <1>signal, <1>goto, QuietRows DEF TaskSeesCancel, Preparing, Waits
<1>6. CASE TaskTimesOut(s)
  <2>1. TasksTame
    BY <1>6, <1>type DEF TaskTimesOut, TasksTame, PlaneTypeOK, Waits, Preparing
  <2> QED
    BY <1>6, <2>1, <1>signal, QuietRows DEF TaskTimesOut, Waits
<1>7. CASE TaskFinalizes(s)
  <2>1. PICK v \in TerminalStatus : TryComplete(Me, treq[s], v)
    BY <1>7 DEF TaskFinalizes, Verdicts, TerminalStatus
  <2>2. TasksTame
    BY <1>7, <1>type DEF TaskFinalizes, TasksTame, PlaneTypeOK, Waits, Preparing
  <2> QED
    BY <1>7, <2>1, <2>2, <1>child, <1>serve, SettlingRows DEF TaskFinalizes
<1>8. CASE TaskReconciles(s)
  <2>1. trun[s] \in Runs \union {NoRun} /\ RunStatusFor(tout[s]) \in RunTerminal
    BY <1>8, <1>type, RunStatuses DEF TaskReconciles, PlaneTypeOK, TasksServe
  <2> QED
    BY <1>8, <2>1, <1>child, <1>ends, QuietRows, PatchedRows DEF TaskReconciles, Waits
<1>9. CASE TaskIsLost(s)
  BY <1>9, <1>child, <1>ends, QuietRows DEF TaskIsLost, Waits
<1> QED
  BY <1>1, <1>2, <1>3, <1>4, <1>5, <1>6, <1>7, <1>8, <1>9 DEF TaskStep, TaskProceeds

LEMMA MainTame ==
  ASSUME ControlInv, DispatcherNext, \A s \in Slots : ~TaskStep(s)
  PROVE  Tame /\ (ChildrenSurvive \/ TasksTame)
<1> USE LedgerAssumption DEF Tame, MainGoto
<1>type. PlaneTypeOK /\ LedgerTypeOK
  BY ControlInvSplit
<1>child. ASSUME UNCHANGED childVars PROVE WorkersTame
  BY <1>child, QuietWorkers DEF childVars
\* The one guard that looks at the runs.
<1>1. ASSUME NEW s \in Slots, NEW r \in Requests, MainClaims(s, r) PROVE Tame /\ TasksTame
  <2>1. ~HasActiveRun(AccountOf[r])
    BY <1>1 DEF MainClaims, Claim, Claimable
  <2>2. RunsTame
    BY <1>1 DEF MainClaims, Claim, runVars, RunsTame
  <2>3. RowsTame
    BY <1>1, <2>1, <1>type
    DEF MainClaims, Claim, ReclaimedStatus, StaleClaim, RowsTame, Unlinked, LedgerTypeOK
  <2>4. /\ ~Busy(s) /\ tpc'[s] = "gates" /\ treq'[s] = r
        /\ \A t \in Slots : t # s => tpc'[t] = tpc[t] /\ treq'[t] = treq[t]
        /\ tchild' = tchild
    BY <1>1, <1>type DEF MainClaims, PlaneTypeOK
  <2>5. TasksTame
    BY <2>1, <2>4 DEF TasksTame, Waits, Busy
  <2> QED
    BY <1>1, <2>2, <2>3, <2>5, <1>child DEF MainClaims
<1>2. ASSUME NEW r \in Requests, MainFindsOrphan(r) PROVE Tame /\ TasksTame
  <2>1. runOf[r] \in Runs
    BY <1>2, <1>type DEF MainFindsOrphan, IsOrphan, LedgerTypeOK
  <2> QED
    BY <1>2, <2>1, <1>child, QuietTaskVars, PatchedRows DEF MainFindsOrphan, RunTerminal
<1>3. CASE MainClosesOrphan
  BY <1>3, <1>type, <1>child, QuietTaskVars, SettlingRows
  DEF MainClosesOrphan, PlaneTypeOK, MainServes, TerminalStatus
<1>4. ASSUME NEW r \in Requests, MainSweepsTerminal(r) PROVE Tame /\ TasksTame
  BY <1>4, <1>child, QuietTaskVars, SettlingRows, RunStatuses DEF MainSweepsTerminal
<1>5. CASE MainReclaims
  <2>1. RunsTame /\ RowsTame
    BY <1>5, <1>type
    DEF MainReclaims, Reclaim, ReclaimedStatus, StaleClaim, runVars, RunsTame, RowsTame, Unlinked,
        LedgerTypeOK
  <2> QED
    BY <1>5, <2>1, <1>child, QuietTaskVars DEF MainReclaims
<1>6. CASE MainCrashes
  <2>1. WorkersTame
    BY <1>6 DEF MainCrashes, WorkersTame, Live, Exited
  <2>2. ChildrenSurvive \/ TasksTame
    <3> SUFFICES ASSUME ~ChildrenSurvive PROVE TasksTame
      OBVIOUS
    <3>1. \A s \in Slots : tpc'[s] = "free"
      BY <1>6 DEF MainCrashes
    <3>2. \A s \in Slots : Waits(s) => tchild[s] \in Runs
      BY <1>type DEF PlaneTypeOK, TasksServe, Waits
    <3>3. \A g \in Runs : ~Live(g)'
      BY <1>6 DEF MainCrashes, Live, Exited
    <3> QED
      BY <3>1, <3>2, <3>3 DEF TasksTame, Preparing, Live
  <2> QED
    BY <1>6, <2>1, <2>2, QuietRows DEF MainCrashes
<1>7. CASE MainStarts \/ MainEndsOrphans \/ MainEndsTerminals \/ MainPreflight \/ MainDrained
           \/ MainStops
  BY <1>7, <1>child, QuietRows, QuietTaskVars
  DEF MainStarts, MainEndsOrphans, MainEndsTerminals, MainPreflight, MainDrained, MainStops
<1> QED
  BY <1>1, <1>2, <1>3, <1>4, <1>5, <1>6, <1>7 DEF DispatcherNext, MainProceeds

LEMMA EnvironmentTame ==
  ASSUME ControlInv, EnvironmentNext
  PROVE  Tame /\ TasksTame
<1>type. LedgerTypeOK
  BY ControlInvSplit
<1>1. UNCHANGED childVars /\ UNCHANGED taskVars
  BY DEF EnvironmentNext, Submit, CancelRequest, RequestLeaseLapses, PhoneLockLapses
<1>2. ASSUME NEW r \in Requests, Create(r) \/ Cancel(r) \/ LeaseLapses(r)
      PROVE  RunsTame /\ RowsTame
  BY <1>2, <1>type
  DEF Create, Cancel, LeaseLapses, runVars, RunsTame, RowsTame, Unlinked, LedgerTypeOK
<1>3. RunsTame /\ RowsTame
  BY <1>2, QuietRows DEF EnvironmentNext, Submit, CancelRequest, RequestLeaseLapses, PhoneLockLapses
<1> QED
  BY <1>1, <1>3, QuietWorkers, QuietTaskVars DEF Tame, childVars

-----------------------------------------------------------------------------
(* The launch, the insertion and the link.                                 *)

LEMMA LaunchRuns ==
  ASSUME ControlInv, LinkedInv, NEW s \in Slots, NEW g \in Runs, TaskLaunches(s, g)
  PROVE  /\ LinkedInv'
         /\ FreshInv /\ (\A t, u \in Slots : t = u) => FreshInv'
<1>type. PlaneTypeOK
  BY ControlInvSplit
<1>1. RunsTame /\ RowsTame
  BY QuietRows DEF TaskLaunches
<1>2. /\ tpc[s] = "launch" /\ tpc'[s] = "wait" /\ tchild'[s] = g
      /\ cpc[g] = "none" /\ cpc'[g] = "boot" /\ creq'[g] = treq[s]
      /\ \A h \in Runs : h # g => cpc'[h] = cpc[h] /\ creq'[h] = creq[h]
      /\ UNCHANGED <<ledgerVars, runVars>>
  BY <1>type DEF TaskLaunches, SpawnChild, PlaneTypeOK, queueVars
<1>3. LinkedInv'
  BY <1>2 DEF LinkedInv, LinkingRuns, LinkedRunRows, NoneHandedOut, OneLinkedRunPerAccount,
              ledgerVars, runVars
<1>4. ASSUME FreshInv, \A t, u \in Slots : t = u PROVE FreshInv'
  <2>1. \A h \in Runs : ~Live(h)
    BY <1>2, <1>4 DEF FreshInv, AllWatched, Waits
  <2>2. AllWatched'
    BY <1>2, <2>1 DEF AllWatched, Waits, Live
  <2>3. ~HasActiveRun(AccountOf[treq[s]])
    BY <1>2, <1>4 DEF FreshInv, FreshLaunch, Preparing
  <2>4. FreshLaunch'
    <3>1. \A t \in Slots : tpc'[t] \notin Preparing
      BY <1>2, <1>4 DEF Preparing
    <3>2. \A h \in Runs : cpc'[h] = "boot" => h = g
      BY <1>2, <2>1 DEF Live, Exited
    <3> QED
      BY <1>2, <2>3, <3>1, <3>2 DEF FreshLaunch, HasActiveRun, runVars
  <2>5. OneRunPerAccount'
    BY <1>2, <1>4 DEF FreshInv, OneRunPerAccount, runVars
  <2> QED
    BY <2>2, <2>4, <2>5 DEF FreshInv
<1> QED
  BY <1>3, <1>4

LEMMA InsertionRuns ==
  ASSUME ControlInv, LinkedInv, NEW g \in Runs, ChildCreateRun(g), UNCHANGED taskVars
  PROVE  /\ LinkedInv'
         /\ FreshInv /\ (\A t, u \in Slots : t = u) => FreshInv'
<1> USE LedgerAssumption
<1>type. PlaneTypeOK /\ LedgerTypeOK
  BY ControlInvSplit
<1>1. /\ cpc[g] = "boot" /\ cpc'[g] = "link" /\ creq' = creq
      /\ \A h \in Runs : h # g => /\ cpc'[h] = cpc[h]
                                  /\ igStatus'[h] = igStatus[h]
                                  /\ igAccount'[h] = igAccount[h]
      /\ igStatus[g] = "absent" /\ igStatus'[g] = "running"
      /\ igAccount'[g] = AccountOf[creq[g]]
      /\ UNCHANGED <<status, runOf>>
  BY <1>type DEF ChildCreateRun, InsertRun, Goto, ledgerVars, PlaneTypeOK, LedgerTypeOK
\* No request is linked to a run that does not exist.
<1>2. \A r \in Requests : runOf[r] # NoRun => runOf[r] \in Runs /\ runOf[r] # g
  BY <1>1, <1>type DEF LinkedInv, LinkedRunRows, LedgerTypeOK
<1>3. LinkedInv'
  <2>1. LinkingRuns'
    BY <1>1 DEF LinkedInv, LinkingRuns
  <2>2. LinkedRunRows' /\ NoneHandedOut' /\ OneLinkedRunPerAccount'
    BY <1>1, <1>2 DEF LinkedInv, LinkedRunRows, NoneHandedOut, OneLinkedRunPerAccount
  <2> QED
    BY <2>1, <2>2 DEF LinkedInv
<1>4. ASSUME FreshInv, \A t, u \in Slots : t = u PROVE FreshInv'
  <2>1. PICK s \in Slots : Waits(s) /\ tchild[s] = g
    BY <1>1, <1>4 DEF FreshInv, AllWatched, Live, Exited
  <2>2. \A h \in Runs : Live(h) => h = g
    BY <1>4, <2>1 DEF FreshInv, AllWatched
  <2>3. AllWatched'
    BY <1>1, <2>1, <2>2 DEF AllWatched, Live, Waits, taskVars
  <2>4. FreshLaunch'
    <3>1. \A t \in Slots : tpc'[t] \notin Preparing
      BY <1>4, <2>1 DEF Waits, Preparing, taskVars
    <3>2. \A h \in Runs : cpc'[h] # "boot"
      BY <1>1, <2>2 DEF Live, Exited
    <3> QED
      BY <3>1, <3>2 DEF FreshLaunch
  <2>5. OneRunPerAccount'
    <3>1. \A h \in Runs : h # g /\ igStatus'[h] = "running" => igAccount'[h] # AccountOf[creq[g]]
      BY <1>1, <1>4 DEF FreshInv, FreshLaunch, HasActiveRun
    <3>2. \A h, k \in Runs : h # g /\ k # g /\ igStatus'[h] = "running" /\ igStatus'[k] = "running"
                               /\ igAccount'[h] = igAccount'[k] => h = k
      BY <1>1, <1>4 DEF FreshInv, OneRunPerAccount
    <3> QED
      BY <1>1, <3>1, <3>2 DEF OneRunPerAccount
  <2> QED
    BY <2>3, <2>4, <2>5 DEF FreshInv
<1> QED
  BY <1>3, <1>4

LEMMA LinkRuns ==
  ASSUME ControlInv, LedgerInv, LinkedInv, NEW g \in Runs, ChildLink(g), CanLink(Me, creq[g]),
         UNCHANGED taskVars
  PROVE  LinkedInv' /\ (FreshInv => FreshInv')
<1> USE LedgerAssumption
<1> DEFINE r == creq[g]
<1>type. PlaneTypeOK /\ LedgerTypeOK
  BY ControlInvSplit
<1>1. /\ cpc[g] = "link" /\ creq' = creq /\ r \in Requests
      /\ cpc'[g] = "gate" /\ \A h \in Runs : h # g => cpc'[h] = cpc[h]
      /\ status[r] \in Unlinked /\ status'[r] = "running" /\ runOf'[r] = g
      /\ \A q \in Requests : q # r => status'[q] = status[q] /\ runOf'[q] = runOf[q]
      /\ UNCHANGED <<igStatus, igAccount>>
  BY <1>type
  DEF ChildLink, Link, CanLink, Goto, Unlinked, runVars, PlaneTypeOK, ChildrenServe, LedgerTypeOK
<1>2. igStatus[g] # "absent" /\ igAccount[g] = AccountOf[r]
  BY <1>1 DEF LinkedInv, LinkingRuns
<1>3. \A q \in Requests : q # r /\ status[q] \in Unlinked => AccountOf[q] # AccountOf[r]
  BY <1>1 DEF LedgerInv, OneActivePerAccount, Active, ActiveStatus, InFlight, Unlinked
<1>4. LinkedInv'
  <2>1. LinkingRuns' /\ LinkedRunRows'
    BY <1>1, <1>2 DEF LinkedInv, LinkingRuns, LinkedRunRows
  <2>2. NoneHandedOut'
    BY <1>1, <1>3 DEF LinkedInv, NoneHandedOut, Unlinked
  <2>3. OneLinkedRunPerAccount'
    <3>1. \A q \in Requests : runOf[q] # NoRun /\ AccountOf[q] = AccountOf[r]
                                => igStatus[runOf[q]] # "running"
      BY <1>1 DEF LinkedInv, NoneHandedOut
    <3> QED
      BY <1>1, <3>1 DEF LinkedInv, OneLinkedRunPerAccount
  <2> QED
    BY <2>1, <2>2, <2>3 DEF LinkedInv
<1>5. RunsTame /\ WorkersTame /\ TasksTame
  BY <1>1, QuietTaskVars DEF RunsTame, WorkersTame, Live, Exited
<1> QED
  BY <1>4, <1>5, TameFresh

-----------------------------------------------------------------------------
(* Every step.                                                             *)

Unspoiled == LinkedInv' /\ (FreshInv /\ ~ChildrenSurvive /\ (\A s, t \in Slots : s = t) => FreshInv')

LEMMA RunsStep ==
  ASSUME ControlInv, LedgerInv, LinkedInv, [Next]_vars
  PROVE  Unspoiled
<1> USE DEF Unspoiled, Tame
<1>1. ASSUME NEW g \in Runs, ChildStep(g), UNCHANGED taskVars PROVE Unspoiled
  <2>1. CASE ChildCreateRun(g)
    BY <1>1, <2>1, InsertionRuns
  <2>2. CASE ChildLink(g) /\ CanLink(Me, creq[g])
    BY <1>1, <2>2, LinkRuns
  <2>3. CASE ~ChildCreateRun(g) /\ ~(ChildLink(g) /\ CanLink(Me, creq[g]))
    BY <1>1, <2>3, ChildTame, QuietTaskVars, TameLinked, TameFresh
  <2> QED
    BY <2>1, <2>2, <2>3
<1>2. ASSUME NEW s \in Slots, TaskStep(s) PROVE Unspoiled
  <2>1. ASSUME NEW g \in Runs, TaskLaunches(s, g) PROVE Unspoiled
    BY <2>1, LaunchRuns
  <2>2. CASE \A g \in Runs : ~TaskLaunches(s, g)
    BY <1>2, <2>2, TaskTame, TameLinked, TameFresh
  <2> QED
    BY <2>1, <2>2
<1>3. ASSUME DispatcherNext, \A s \in Slots : ~TaskStep(s) PROVE Unspoiled
  BY <1>3, MainTame, TameLinked, TameFresh
<1>4. CASE EnvironmentNext
  BY <1>4, EnvironmentTame, TameLinked, TameFresh
<1>5. CASE UNCHANGED vars
  BY <1>5, QuietRows, QuietWorkers, QuietTaskVars, TameLinked, TameFresh DEF vars, childVars
<1> QED
  BY <1>1, <1>2, <1>3, <1>4, <1>5 DEF Next, ChildrenNext

LEMMA RunsInit == Init => LinkedInv /\ FreshInv
  BY LedgerAssumption
  DEF Init, LedgerInit, ChildInit, LinkedInv, LinkingRuns, LinkedRunRows, NoneHandedOut,
      OneLinkedRunPerAccount, FreshInv, AllWatched, FreshLaunch, OneRunPerAccount, Live, Preparing

\* The inductive invariant of the linked runs, in every setting.
THEOREM LinkedRunsInvariant == Spec => []LinkedInv
<1>1. ControlInv /\ LedgerInv /\ LinkedInv /\ [Next]_vars => LinkedInv'
  BY RunsStep DEF Unspoiled
<1> QED
  BY <1>1, RunsInit, ControlInvariant, RunControlLedger, PTL DEF Spec

\* An account has at most one active run that a request is linked to, in every
\* setting: many slots, slow boots, surviving workers, an existing queue.
THEOREM LinkedRunAlone == Spec => []OneLinkedRunPerAccount
<1>1. LinkedInv => OneLinkedRunPerAccount
  BY DEF LinkedInv
<1> QED
  BY <1>1, LinkedRunsInvariant, PTL

\* With one slot and workers that die with their dispatcher, the claim's look
\* at the run rows is enough: an account has at most one active run row.
THEOREM RunAlone ==
  ~ChildrenSurvive /\ (\A s, t \in Slots : s = t) => (Spec => []OneRunPerAccount)
<1> SUFFICES ASSUME ~ChildrenSurvive, \A s, t \in Slots : s = t PROVE Spec => []OneRunPerAccount
  OBVIOUS
<1>1. ControlInv /\ LedgerInv /\ LinkedInv /\ FreshInv /\ [Next]_vars => FreshInv'
  BY RunsStep DEF Unspoiled
<1>2. FreshInv => OneRunPerAccount
  BY DEF FreshInv
<1> QED
  BY <1>1, <1>2, RunsInit, LinkedRunsInvariant, ControlInvariant, RunControlLedger, PTL DEF Spec
=============================================================================
