------------------------- MODULE DriverBacking_proofs -------------------------
(***************************************************************************)
(* Who drives a phone, and on whose account.  A worker on a phone is the   *)
(* one its request is linked to, it publishes its outcome once, and no     *)
(* second worker is on the same phone.                                     *)
(*                                                                         *)
(* None of this is inductive alone.  The dispatcher settles and reclaims   *)
(* requests without looking at the workers, so the invariant has to say    *)
(* which task watches which worker, that a request is served by one task,  *)
(* and that nobody is claimed for while a worker without a task is at      *)
(* work.  The last two hold only for orderly settings.                     *)
(***************************************************************************)
EXTENDS RunControl_proofs

(***************************************************************************)
(* The settings the theorems are about.  A boot takes seconds, the lease   *)
(* of a claim and the watchdog minutes.  A dispatcher does not start       *)
(* beside active requests (the default), or its workers die with it.       *)
(***************************************************************************)
Orderly ==
    /\ ~SlowBoot
    /\ ~(AllowExistingQueue /\ ChildrenSurvive)

Owned == {"claimed", "starting"}
BeforeLaunch == {"gates", "starting", "launch"}
Watching == {"wait", "stopping"}
AfterExit == {"release", "finalize", "reconcile"}
Serving == {"loop", "drain"}
NotLinked == {"boot", "link", "unlinked"}

Attended(g) == \E s \in Slots : tpc[s] \in Watching /\ tchild[s] = g

Backed(g) ==
    /\ status[creq[g]] = "running"
    /\ runOf[creq[g]] = g
    /\ igStatus[g] = "running"

\* A request has one task at most.
OneServer ==
    \A s, t \in Slots : Busy(s) /\ Busy(t) /\ treq[s] = treq[t] => s = t

\* The request of a task is handed out and its lease has not run out.  Before
\* the launch it has no worker, after the finalization it is settled.
ServedRows ==
    \A s \in Slots :
        /\ Busy(s) => /\ status[treq[s]] \notin {"absent", "queued"}
                      /\ lease[treq[s]] # "expired"
        /\ tpc[s] \in BeforeLaunch => /\ status[treq[s]] \in Owned \union {"canceled"}
                                      /\ \A g \in Runs : Live(g) => creq[g] # treq[s]
        /\ tpc[s] = "reconcile" => /\ status[treq[s]] \in TerminalStatus
                                   /\ trun[s] = runOf[treq[s]]

\* From the launch on a task has a worker for its request; once it saw the
\* exit, the worker has exited.
TaskChildren ==
    \A s \in Slots :
        /\ tpc[s] \in Watching \union AfterExit =>
              tchild[s] \in Runs /\ creq[tchild[s]] = treq[s]
        /\ tpc[s] \in AfterExit => cpc[tchild[s]] \in Exited

OwnedByMe == \A r \in Requests : status[r] \in InFlight => claimedBy[r] = Me

IdleUnlessServing == mpc \notin Serving => \A s \in Slots : ~Busy(s)

\* A worker without a task outlived its dispatcher, and while the next one
\* claims, its request is no longer active.
Survivors ==
    \A g \in Runs :
        Live(g) /\ ~Attended(g)
          => ChildrenSurvive /\ (mpc \in Serving => ~Active(creq[g]))

OneChild ==
    \A g, h \in Runs : Live(g) /\ Live(h) /\ creq[g] = creq[h] => g = h

\* What the ledger says of the request and the run of a live worker.
ChildRows ==
    \A g \in Runs :
        /\ cpc[g] \in NotLinked => status[creq[g]] \in Owned \union {"canceled"}
        /\ cpc[g] = "link" => igStatus[g] = "running"
        /\ cpc[g] = "gate" \/ Driving(g) => Backed(g)
        /\ cpc[g] = "close" => igStatus[g] \in RunTerminal /\ runOf[creq[g]] = g

LinkedRuns ==
    \A r \in Requests :
        runOf[r] # NoRun => /\ cpc[runOf[r]] \notin {"none"} \union NotLinked
                            /\ creq[runOf[r]] = r

\* The run of the orphan about to be closed has no worker.
OrphanRow == mpc = "orphan" => runOf[mreq] # NoRun /\ ~Live(runOf[mreq])

BackingInv ==
    /\ OneServer
    /\ ServedRows
    /\ TaskChildren
    /\ OwnedByMe
    /\ IdleUnlessServing
    /\ Survivors
    /\ OneChild
    /\ ChildRows
    /\ LinkedRuns
    /\ OrphanRow

-----------------------------------------------------------------------------
(* The workers' steps.                                                     *)

\* The row of r is settled, its owner and its run kept.
Settles(r) ==
    /\ status[r] \in InFlight
    /\ status'[r] \in TerminalStatus
    /\ lease'[r] = "none"
    /\ claimedBy'[r] = claimedBy[r]
    /\ runOf'[r] = runOf[r]

OthersSame(r) == \A q \in Requests : q # r => SameRow(q)

LEMMA TryCompleteEffect ==
  ASSUME LedgerTypeOK, NEW r \in Requests, NEW s \in TerminalStatus, TryComplete(Me, r, s)
  PROVE  /\ SameRow(r) \/ Settles(r)
         /\ CanComplete(Me, r) => Settles(r)
         /\ OthersSame(r)
         /\ UNCHANGED igStatus
  BY DEF TryComplete, Complete, CanComplete, SameRow, Settles, OthersSame, queueVars, ledgerVars,
         runVars, LedgerTypeOK, TerminalStatus

\* Where a step takes worker g, its request and its run.
ChildMove(g) ==
    LET r == creq[g] IN
    \/ cpc'[g] \in Exited /\ (SameRow(r) \/ Settles(r))
    \/ cpc[g] = "boot" /\ cpc'[g] = "link" /\ SameRow(r) /\ igStatus'[g] = "running"
    \/ /\ cpc[g] = "link" /\ cpc'[g] = "gate"
       /\ status[r] \in Owned /\ status'[r] = "running"
       /\ runOf'[r] = g /\ lease'[r] = "live" /\ claimedBy'[r] = Me
       /\ igStatus'[g] = igStatus[g]
    \/ /\ cpc[g] \in {"boot", "link"} /\ cpc'[g] = "unlinked"
       /\ SameRow(r) /\ igStatus'[g] = igStatus[g]
    \/ /\ cpc[g] = "gate" /\ cpc'[g] = "work"
       /\ Backed(g) /\ SameRow(r) /\ igStatus'[g] = igStatus[g]
    \/ /\ cpc[g] = "work" /\ cpc'[g] = "cleanup"
       /\ SameRow(r) /\ igStatus'[g] = igStatus[g]
    \/ /\ cpc[g] = "cleanup" /\ cpc'[g] = "close"
       /\ SameRow(r) /\ igStatus'[g] \in RunTerminal

ChildEffect(g) ==
    /\ Live(g)
    /\ creq[g] \in Requests
    /\ creq' = creq
    /\ \A h \in Runs : h # g => cpc'[h] = cpc[h] /\ igStatus'[h] = igStatus[h]
    /\ OthersSame(creq[g])
    /\ ChildMove(g)

LEMMA ChildMoves ==
  ASSUME Orderly, ControlInv, BackingInv, NEW g \in Runs, ChildStep(g)
  PROVE  ChildEffect(g)
<1> USE DEF Goto, Live, ChildEffect, ChildMove, Exited
<1>type. PlaneTypeOK /\ LedgerTypeOK
  BY ControlInvSplit
<1>serve. cpc[g] # "none" => creq[g] \in Requests
  BY <1>type DEF PlaneTypeOK, ChildrenServe
<1>cpc. cpc \in [Runs -> {"none", "boot", "link", "unlinked", "gate", "work", "cleanup", "close"}
                         \union Exited]
  BY <1>type DEF PlaneTypeOK
<1>rows. /\ cpc[g] \in {"gate", "work", "cleanup"} => Backed(g)
         /\ status[creq[g]] \in InFlight /\ creq[g] \in Requests => claimedBy[creq[g]] = Me
  BY DEF BackingInv, ChildRows, NotLinked, Driving, OwnedByMe
<1>same. ASSUME UNCHANGED queueVars
         PROVE  /\ \A r \in Requests : SameRow(r)
                /\ UNCHANGED igStatus
                /\ OthersSame(creq[g])
  BY <1>same DEF queueVars, ledgerVars, runVars, SameRow, OthersSame
<1>runs. ASSUME UNCHANGED ledgerVars PROVE (\A r \in Requests : SameRow(r)) /\ OthersSame(creq[g])
  BY <1>runs DEF ledgerVars, SameRow, OthersSame
<1>patch. ASSUME NEW s, PatchRun(g, s)
          PROVE  /\ UNCHANGED ledgerVars
                 /\ igStatus'[g] = s
                 /\ \A h \in Runs : h # g => igStatus'[h] = igStatus[h]
  BY <1>patch, <1>type DEF PatchRun, LedgerTypeOK
<1>goto. ASSUME NEW pc, cpc' = [cpc EXCEPT ![g] = pc]
         PROVE  cpc'[g] = pc /\ \A h \in Runs : h # g => cpc'[h] = cpc[h]
  BY <1>goto, <1>cpc
<1>1. CASE ChildBail(g)
  BY <1>1, <1>cpc, <1>serve, <1>same DEF ChildBail
<1>2. CASE ChildCreateRun(g)
  <2>1. UNCHANGED ledgerVars /\ igStatus'[g] = "running"
        /\ \A h \in Runs : h # g => igStatus'[h] = igStatus[h]
    BY <1>2, <1>type DEF ChildCreateRun, InsertRun, LedgerTypeOK
  <2> QED
    BY <1>2, <2>1, <1>cpc, <1>serve, <1>runs DEF ChildCreateRun
<1>3. CASE ChildCreateRunFails(g)
  BY <1>3, <1>cpc, <1>serve, <1>same DEF ChildCreateRunFails
<1>missed. ASSUME cpc[g] = "link", LinkMissed(g)
           PROVE  ChildEffect(g)
  <2>1. CASE PatchRun(g, "failed") /\ cpc' = [cpc EXCEPT ![g] = "exit1"] /\ creq' = creq
    BY <2>1, <1>missed, <1>goto, <1>serve, <1>patch, <1>runs
  <2>2. CASE UNCHANGED queueVars /\ cpc' = [cpc EXCEPT ![g] = "unlinked"] /\ creq' = creq
    BY <2>2, <1>missed, <1>goto, <1>serve, <1>same
  <2> QED
    BY <2>1, <2>2, <1>missed DEF LinkMissed
<1>4. CASE ChildLink(g)
  <2>1. CASE CanLink(Me, creq[g])
    <3>1. /\ Link(Me, creq[g], g) /\ cpc' = [cpc EXCEPT ![g] = "gate"] /\ creq' = creq
          /\ cpc[g] = "link" /\ creq[g] \in Requests
      BY <1>4, <2>1, <1>serve DEF ChildLink
    <3>2. /\ status[creq[g]] \in Owned /\ status'[creq[g]] = "running"
          /\ runOf'[creq[g]] = g /\ lease'[creq[g]] = "live" /\ claimedBy'[creq[g]] = Me
          /\ igStatus' = igStatus
          /\ OthersSame(creq[g])
      BY <3>1, <1>type DEF Link, CanLink, Owned, LedgerTypeOK, OthersSame, SameRow, runVars
    <3> QED
      BY <3>1, <3>2, <1>goto
  <2>2. CASE ~CanLink(Me, creq[g])
    BY <1>4, <2>2, <1>missed DEF ChildLink
  <2> QED
    BY <2>1, <2>2
<1>5. CASE ChildLinkFails(g)
  BY <1>5, <1>missed DEF ChildLinkFails
<1>aborts. ASSUME cpc[g] \in {"unlinked", "gate"}, ChildAborts(g)
           PROVE  ChildEffect(g)
  <2>1. TryComplete(Me, creq[g], "canceled") /\ cpc' = [cpc EXCEPT ![g] = "exit0"]
        /\ creq[g] \in Requests /\ creq' = creq
    BY <1>aborts, <1>serve DEF ChildAborts
  <2> QED
    BY <2>1, <1>aborts, <1>type, <1>goto, TryCompleteEffect DEF TerminalStatus
<1>6. CASE ChildUnlinked(g)
  <2>1. CASE ChildAborts(g)
    BY <1>6, <2>1, <1>aborts DEF ChildUnlinked
  <2>2. CASE UNCHANGED queueVars /\ cpc' = [cpc EXCEPT ![g] = "exit1"] /\ creq' = creq
    BY <1>6, <2>2, <1>goto, <1>serve, <1>same DEF ChildUnlinked
  <2> QED
    BY <1>6, <2>1, <2>2 DEF ChildUnlinked
<1>gate. CASE ChildGate(g) \/ ChildGateFails(g)
  <2>1. CASE ChildAborts(g)
    BY <1>gate, <2>1, <1>aborts DEF ChildGate, ChildGateFails
  <2>2. CASE UNCHANGED queueVars /\ cpc' = [cpc EXCEPT ![g] = "work"] /\ creq' = creq
    BY <1>gate, <2>2, <1>goto, <1>serve, <1>same, <1>rows DEF ChildGate, ChildGateFails
  <2> QED
    BY <1>gate, <2>1, <2>2 DEF ChildGate, ChildGateFails
<1>7. CASE ChildSetupFails(g)
  BY <1>7, <1>cpc, <1>serve, <1>same DEF ChildSetupFails
<1>8. CASE ChildEndWork(g)
  BY <1>8, <1>cpc, <1>serve, <1>same DEF ChildEndWork
<1>code. ExitCode(g) \in Exited
  BY DEF ExitCode
<1>9. CASE ChildPublish(g)
  <2>1. /\ PatchRun(g, cres[g]) /\ cpc' = [cpc EXCEPT ![g] = "close"] /\ creq' = creq
        /\ cpc[g] = "cleanup" /\ cres[g] \in RunTerminal
    BY <1>9, <1>type DEF ChildPublish, PlaneTypeOK, ChildrenServe
  <2> QED
    BY <2>1, <1>goto, <1>serve, <1>patch, <1>runs
<1>10. CASE ChildPublishFails(g)
  BY <1>10, <1>cpc, <1>serve, <1>same, <1>code DEF ChildPublishFails
<1>11. CASE ChildClose(g)
  <2>1. /\ TryComplete(Me, creq[g], RequestStatusFor(cres[g]))
        /\ cpc' = [cpc EXCEPT ![g] = ExitCode(g)] /\ cpc[g] = "close" /\ creq' = creq
        /\ creq[g] \in Requests
    BY <1>11, <1>serve DEF ChildClose
  <2> QED
    BY <2>1, <1>type, <1>goto, <1>code, TryCompleteEffect, RunStatuses
<1>12. CASE ChildCloseFails(g)
  BY <1>12, <1>cpc, <1>serve, <1>same, <1>code DEF ChildCloseFails
<1>13. CASE ChildStopped(g) \/ ChildDies(g)
  BY <1>13, <1>cpc, <1>serve, <1>same DEF ChildStopped, ChildDies
<1> QED
  BY <1>1, <1>2, <1>3, <1>4, <1>5, <1>6, <1>gate, <1>7, <1>8, <1>9, <1>10, <1>11, <1>12, <1>13
  DEF ChildStep, ChildProceeds, ChildFails

LEMMA ChildBacking ==
  ASSUME Orderly, ControlInv, LedgerInv, BackingInv, NEW g \in Runs, ChildStep(g),
         UNCHANGED <<taskVars, mainVars>>
  PROVE  BackingInv'
<1> USE LedgerAssumption
<1>eff. ChildEffect(g)
  BY ChildMoves
<1>type. PlaneTypeOK /\ LedgerTypeOK
  BY ControlInvSplit
<1>serve. /\ \A s \in Slots : Busy(s) => treq[s] \in Requests
          /\ \A h \in Runs : cpc[h] # "none" => creq[h] \in Requests
          /\ mpc = "orphan" => mreq \in Requests
          /\ \A r \in Requests : runOf[r] \in Runs \union {NoRun}
  BY <1>type DEF PlaneTypeOK, LedgerTypeOK, TasksServe, ChildrenServe, MainServes
<1> DEFINE r == creq[g]
<1>r. r \in Requests
  BY <1>eff DEF ChildEffect
<1>live. /\ Live(g) /\ creq' = creq
         /\ \A h \in Runs : h # g => cpc'[h] = cpc[h] /\ igStatus'[h] = igStatus[h]
         /\ \A h \in Runs : Live(h)' => Live(h)
  BY <1>eff DEF ChildEffect, ChildMove, Live, Exited
\* Only the row of r moves: to a settled one, or from handed out to running.
<1>row. /\ \A q \in Requests : q # r => SameRow(q)
        /\ \/ SameRow(r)
           \/ Settles(r)
           \/ /\ cpc[g] = "link" /\ cpc'[g] = "gate"
              /\ status[r] \in Owned /\ status'[r] = "running"
              /\ runOf'[r] = g /\ lease'[r] = "live" /\ claimedBy'[r] = Me
  BY <1>eff DEF ChildEffect, ChildMove, OthersSame
<1>tasks. UNCHANGED <<tpc, treq, tchild, tout, trun, mpc, mreq>>
  BY DEF taskVars, mainVars
<1>1. OneServer'
  BY <1>tasks DEF OneServer, Busy, BackingInv
<1>2. ServedRows'
  <2> SUFFICES ASSUME NEW s \in Slots
               PROVE  /\ Busy(s)' => /\ status'[treq[s]] \notin {"absent", "queued"}
                                     /\ lease'[treq[s]] # "expired"
                      /\ tpc[s] \in BeforeLaunch =>
                            /\ status'[treq[s]] \in Owned \union {"canceled"}
                            /\ \A h \in Runs : Live(h)' => creq[h] # treq[s]
                      /\ tpc[s] = "reconcile" => /\ status'[treq[s]] \in TerminalStatus
                                                 /\ trun[s] = runOf'[treq[s]]
    BY <1>tasks, <1>live DEF ServedRows
  <2>1. treq[s] = r => tpc[s] \notin BeforeLaunch
    BY <1>live DEF BackingInv, ServedRows
  <2>2. status[r] \in InFlight \union Owned => status[r] \notin TerminalStatus
    BY DEF InFlight, TerminalStatus, Owned
  <2>busy. tpc[s] \in BeforeLaunch \union {"reconcile"} => Busy(s)
    BY DEF BeforeLaunch, Busy
  <2>3. /\ Busy(s) => /\ status[treq[s]] \notin {"absent", "queued"}
                      /\ lease[treq[s]] # "expired"
                      /\ treq[s] \in Requests
        /\ tpc[s] \in BeforeLaunch => /\ status[treq[s]] \in Owned \union {"canceled"}
                                      /\ \A h \in Runs : Live(h) => creq[h] # treq[s]
        /\ tpc[s] = "reconcile" => /\ status[treq[s]] \in TerminalStatus
                                   /\ trun[s] = runOf[treq[s]]
    BY <1>serve DEF BackingInv, ServedRows
  <2>4. CASE treq[s] # r
    BY <2>3, <2>4, <2>busy, <1>row, <1>live, <1>tasks DEF SameRow, Busy
  <2>5. CASE treq[s] = r
    BY <2>1, <2>2, <2>3, <2>5, <2>busy, <1>row, <1>live, <1>tasks
    DEF SameRow, Settles, Busy, TerminalStatus
  <2> QED
    BY <2>4, <2>5
<1>3. TaskChildren'
  BY <1>tasks, <1>live, <1>type
  DEF TaskChildren, BackingInv, Live, Exited, Watching, AfterExit, PlaneTypeOK, TasksServe
<1>4. OwnedByMe'
  BY <1>row DEF OwnedByMe, BackingInv, SameRow, Settles, InFlight, TerminalStatus
<1>5. IdleUnlessServing'
  BY <1>tasks DEF IdleUnlessServing, BackingInv, Busy
<1>6. Survivors'
  <2>1. \A q \in Requests : Active(q)' => Active(q)
    BY <1>row DEF Active, ActiveStatus, InFlight, SameRow, Settles, TerminalStatus, Owned
  <2> QED
    BY <2>1, <1>tasks, <1>live, <1>serve DEF Survivors, BackingInv, Attended, Live
<1>7. OneChild'
  BY <1>live DEF OneChild, BackingInv
<1>8. ChildRows'
  <2> SUFFICES ASSUME NEW h \in Runs
               PROVE  /\ cpc'[h] \in NotLinked =>
                           status'[creq[h]] \in Owned \union {"canceled"}
                      /\ cpc'[h] = "link" => igStatus'[h] = "running"
                      /\ cpc'[h] = "gate" \/ Driving(h)' => Backed(h)'
                      /\ cpc'[h] = "close" => igStatus'[h] \in RunTerminal /\ runOf'[creq[h]] = h
    BY <1>live DEF ChildRows, NotLinked
  <2>1. CASE h # g
    <3>1. cpc'[h] = cpc[h] /\ igStatus'[h] = igStatus[h]
      BY <2>1, <1>live
    <3>2. Live(h) => creq[h] # r /\ creq[h] \in Requests
      BY <2>1, <1>live, <1>serve DEF BackingInv, OneChild, Live
    <3>3. Live(h) => SameRow(creq[h])
      BY <3>2, <1>row
    <3> QED
      BY <3>1, <3>3, <1>live
      DEF BackingInv, ChildRows, NotLinked, SameRow, Backed, Driving, Live, Exited
  <2>2. CASE h = g
    BY <2>2, <1>eff, <1>live
    DEF ChildEffect, ChildMove, BackingInv, ChildRows, NotLinked, SameRow, Backed, Driving, Exited
  <2> QED
    BY <2>1, <2>2
<1>9. LinkedRuns'
  <2> SUFFICES ASSUME NEW q \in Requests, runOf'[q] # NoRun
               PROVE  cpc'[runOf'[q]] \notin {"none"} \union NotLinked /\ creq[runOf'[q]] = q
    BY <1>live DEF LinkedRuns, NotLinked
  <2>1. CASE runOf'[q] = runOf[q]
    <3>1. cpc[runOf[q]] \notin {"none"} \union NotLinked /\ creq[runOf[q]] = q /\ runOf[q] \in Runs
      BY <2>1, <1>serve DEF BackingInv, LinkedRuns, NotLinked
    <3> QED
      BY <2>1, <3>1, <1>live, <1>eff DEF ChildEffect, ChildMove, Exited, NotLinked
  <2>2. CASE runOf'[q] # runOf[q]
    BY <2>2, <1>row, <1>eff DEF SameRow, Settles, ChildEffect, NotLinked
  <2> QED
    BY <2>1, <2>2
<1>10. OrphanRow'
  <2>1. CASE mpc # "orphan"
    BY <2>1, <1>tasks DEF OrphanRow
  <2>2. CASE mpc = "orphan"
    <3>1. /\ mreq \in Requests /\ runOf[mreq] \in Runs
          /\ runOf[mreq] # NoRun /\ ~Live(runOf[mreq])
      BY <2>2, <1>serve DEF BackingInv, OrphanRow
    <3>2. runOf'[mreq] = runOf[mreq]
      BY <3>1, FinalOutcomeLemma, ChildLedgerStep DEF FinalOutcomeStep, LedgerStep
    <3>3. cpc'[runOf[mreq]] = cpc[runOf[mreq]]
      BY <3>1, <1>live
    <3> QED
      BY <3>1, <3>2, <3>3, <1>tasks DEF OrphanRow, Live
  <2> QED
    BY <2>1, <2>2
<1> QED
  BY <1>1, <1>2, <1>3, <1>4, <1>5, <1>6, <1>7, <1>8, <1>9, <1>10 DEF BackingInv

-----------------------------------------------------------------------------
(* The tasks' steps.                                                       *)

\* An active request whose task is not watching has no worker.
LEMMA NobodyElseWorks ==
  ASSUME ControlInv, BackingInv, NEW s \in Slots, tpc[s] \in BeforeLaunch \union AfterExit,
         NEW g \in Runs, Live(g), creq[g] = treq[s]
  PROVE  ~Active(treq[s])
<1>1. Busy(s) /\ tpc[s] \notin Watching
  BY DEF Busy, BeforeLaunch, AfterExit, Watching
<1>2. ~Attended(g)
  <2> SUFFICES ASSUME NEW t \in Slots, tpc[t] \in Watching, tchild[t] = g PROVE FALSE
    BY DEF Attended
  <2>1. treq[t] = treq[s] /\ Busy(t)
    BY DEF BackingInv, TaskChildren, Busy, Watching
  <2> QED
    BY <2>1, <1>1 DEF BackingInv, OneServer
<1>3. mpc \in Serving
  BY <1>1 DEF BackingInv, IdleUnlessServing
<1> QED
  BY <1>2, <1>3 DEF BackingInv, Survivors

\* What a task's step may do to its request: nothing, start it, or settle it.
ServedMove(s) ==
    LET r == treq[s] IN
    \/ SameRow(r)
    \/ /\ tpc[s] \in BeforeLaunch
       /\ status[r] = "claimed" /\ status'[r] = "starting"
       /\ lease'[r] = "live" /\ claimedBy'[r] = claimedBy[r] /\ runOf'[r] = runOf[r]
    \/ /\ tpc[s] \in BeforeLaunch \union AfterExit
       /\ Settles(r)

\* A step leaves the run of a worker that is linking or backed alone.
RunsHold ==
    \A g \in Runs :
        /\ Live(g) /\ (cpc[g] = "link" \/ Backed(g)) => igStatus'[g] = igStatus[g]
        /\ igStatus[g] \in RunTerminal => igStatus'[g] \in RunTerminal

\* What a task's step, other than a launch, may do to tasks and workers.
TaskEffect(s) ==
    /\ Busy(s)
    /\ \A t \in Slots : t # s => /\ tpc'[t] = tpc[t] /\ treq'[t] = treq[t]
                                 /\ tchild'[t] = tchild[t] /\ trun'[t] = trun[t]
    /\ UNCHANGED <<creq, mpc, mreq>>
    /\ \A g \in Runs : cpc'[g] = cpc[g] \/ (Live(g) /\ cpc'[g] = "exit1")
    /\ OthersSame(treq[s])
    /\ ServedMove(s)
    /\ RunsHold

\* Where the task itself goes.
TaskMove(s) ==
    \/ tpc'[s] = "free" /\ tpc[s] \notin Watching
    \/ /\ treq'[s] = treq[s] /\ tchild'[s] = tchild[s]
       /\ \/ tpc[s] \in BeforeLaunch /\ tpc'[s] \in BeforeLaunch
             /\ status'[treq[s]] \in Owned \union {"canceled"}
          \/ tpc[s] \in Watching /\ tpc'[s] \in Watching
          \/ /\ tpc[s] \in Watching /\ tpc'[s] = "release"
             /\ cpc[tchild[s]] \in Exited
          \/ tpc[s] = "release" /\ tpc'[s] = "finalize"
          \/ /\ tpc[s] = "finalize" /\ tpc'[s] = "reconcile"
             /\ status'[treq[s]] \in TerminalStatus /\ trun'[s] = runOf'[treq[s]]

LEMMA TaskEffectBacking ==
  ASSUME ControlInv, BackingInv, NEW s \in Slots, TaskEffect(s), TaskMove(s)
  PROVE  BackingInv'
<1> USE LedgerAssumption DEF TaskEffect
<1>type. PlaneTypeOK /\ LedgerTypeOK
  BY ControlInvSplit
<1>serve. /\ \A t \in Slots : Busy(t) => treq[t] \in Requests
          /\ \A h \in Runs : cpc[h] # "none" => creq[h] \in Requests
          /\ mpc = "orphan" => mreq \in Requests
          /\ \A q \in Requests : runOf[q] \in Runs \union {NoRun}
          /\ \A t \in Slots : tpc[t] \in Watching \union AfterExit => tchild[t] \in Runs
  BY <1>type DEF PlaneTypeOK, LedgerTypeOK, TasksServe, ChildrenServe, MainServes, BackingInv,
                 TaskChildren
<1> DEFINE r == treq[s]
<1>r. r \in Requests
  BY <1>serve
<1>live. /\ \A h \in Runs : Live(h)' => Live(h) /\ cpc'[h] = cpc[h]
         /\ \A h \in Runs : cpc[h] \in Exited => cpc'[h] \in Exited
  BY DEF Live, Exited
<1>busy. \A t \in Slots : Busy(t)' => Busy(t) /\ treq'[t] = treq[t]
  BY DEF Busy, TaskMove
<1>run. \A q \in Requests : runOf'[q] = runOf[q]
  BY DEF OthersSame, ServedMove, SameRow, Settles
<1>alone. ASSUME NEW t \in Slots, t # s, Busy(t) PROVE treq[t] # r /\ SameRow(treq[t])
  BY <1>alone, <1>serve DEF BackingInv, OneServer, OthersSame
\* The row of a live worker moves only while it is neither linked nor settled.
<1>works. ASSUME NEW h \in Runs, Live(h)
          PROVE  SameRow(creq[h]) \/ ~Active(creq[h])
  <2>1. creq[h] \in Requests
    BY <1>works, <1>serve DEF Live
  <2>2. CASE creq[h] # r
    BY <2>1, <2>2 DEF OthersSame
  <2>3. CASE creq[h] = r
    <3>1. tpc[s] \notin BeforeLaunch
      BY <2>3, <1>works DEF BackingInv, ServedRows
    <3>2. CASE tpc[s] \in AfterExit
      BY <2>3, <3>2, <1>works, NobodyElseWorks
    <3>3. CASE tpc[s] \notin AfterExit
      BY <2>3, <3>1, <3>3 DEF ServedMove
    <3> QED
      BY <3>2, <3>3
  <2> QED
    BY <2>2, <2>3
<1>settled. ASSUME NEW q \in Requests, ~Active(q) PROVE SameRow(q)
  BY <1>settled DEF OthersSame, ServedMove, Settles, Active, ActiveStatus, InFlight
<1>1. OneServer'
  BY <1>busy DEF OneServer, BackingInv
<1>2. ServedRows'
  <2> SUFFICES ASSUME NEW t \in Slots, Busy(t)'
               PROVE  /\ status'[treq'[t]] \notin {"absent", "queued"}
                      /\ lease'[treq'[t]] # "expired"
                      /\ tpc'[t] \in BeforeLaunch =>
                            /\ status'[treq'[t]] \in Owned \union {"canceled"}
                            /\ \A h \in Runs : Live(h)' => creq[h] # treq'[t]
                      /\ tpc'[t] = "reconcile" => /\ status'[treq'[t]] \in TerminalStatus
                                                  /\ trun'[t] = runOf'[treq'[t]]
    BY DEF ServedRows, Busy, BeforeLaunch
  <2>1. /\ Busy(t) /\ treq'[t] = treq[t] /\ treq[t] \in Requests
        /\ status[treq[t]] \notin {"absent", "queued"}
        /\ lease[treq[t]] # "expired"
        /\ tpc[t] \in BeforeLaunch => /\ status[treq[t]] \in Owned \union {"canceled"}
                                      /\ \A g \in Runs : Live(g) => creq[g] # treq[t]
        /\ tpc[t] = "reconcile" => /\ status[treq[t]] \in TerminalStatus
                                   /\ trun[t] = runOf[treq[t]]
    BY <1>busy, <1>serve DEF BackingInv, ServedRows
  <2>2. CASE t # s
    BY <2>1, <2>2, <1>alone, <1>live DEF SameRow
  <2>3. CASE t = s
    <3>1. status'[r] \notin {"absent", "queued"} /\ lease'[r] # "expired"
      BY <2>1, <2>3 DEF ServedMove, SameRow, Settles, TerminalStatus
    <3>2. tpc'[s] \in BeforeLaunch => /\ status'[r] \in Owned \union {"canceled"}
                                      /\ tpc[s] \in BeforeLaunch
      BY DEF TaskMove, BeforeLaunch, Watching
    <3>3. tpc'[s] = "reconcile" => status'[r] \in TerminalStatus /\ trun'[s] = runOf'[r]
      BY DEF TaskMove, BeforeLaunch, Watching
    <3> QED
      BY <2>1, <2>3, <3>1, <3>2, <3>3, <1>live
  <2> QED
    BY <2>2, <2>3
<1>3. TaskChildren'
  <2> SUFFICES ASSUME NEW t \in Slots, tpc'[t] \in Watching \union AfterExit
               PROVE  /\ tchild'[t] \in Runs /\ creq[tchild'[t]] = treq'[t]
                      /\ tpc'[t] \in AfterExit => cpc'[tchild'[t]] \in Exited
    BY DEF TaskChildren
  <2>1. /\ tpc[t] \in Watching \union AfterExit
        /\ tchild'[t] = tchild[t] /\ treq'[t] = treq[t]
        /\ tpc'[t] \in AfterExit => tpc[t] \in AfterExit \/ cpc[tchild[t]] \in Exited
    BY DEF TaskMove, BeforeLaunch, Watching, AfterExit
  <2> QED
    BY <2>1, <1>live, <1>serve DEF BackingInv, TaskChildren
<1>4. OwnedByMe'
  BY DEF OwnedByMe, BackingInv, OthersSame, ServedMove, SameRow, Settles, InFlight, TerminalStatus
<1>5. IdleUnlessServing'
  BY <1>busy DEF IdleUnlessServing, BackingInv
<1>6. Survivors'
  <2> SUFFICES ASSUME NEW h \in Runs, Live(h)', ~Attended(h)'
               PROVE  ChildrenSurvive /\ (mpc \in Serving => ~Active(creq[h])')
    BY DEF Survivors
  <2>1. ~Attended(h)
    <3> SUFFICES ASSUME NEW t \in Slots, tpc[t] \in Watching, tchild[t] = h PROVE Attended(h)'
      BY DEF Attended
    <3>1. CASE t # s
      BY <3>1 DEF Attended
    <3>2. CASE t = s
      BY <3>2, <1>live DEF Attended, TaskMove, BeforeLaunch, Watching, AfterExit, Live
    <3> QED
      BY <3>1, <3>2
  <2>2. Live(h) /\ creq[h] \in Requests
    BY <1>live, <1>serve DEF Live
  <2> QED
    BY <2>1, <2>2, <1>settled DEF BackingInv, Survivors, SameRow, Active
<1>7. OneChild'
  BY <1>live DEF OneChild, BackingInv
<1>8. ChildRows'
  <2> SUFFICES ASSUME NEW h \in Runs, Live(h)'
               PROVE  /\ cpc'[h] \in NotLinked =>
                           status'[creq[h]] \in Owned \union {"canceled"}
                      /\ cpc'[h] = "link" => igStatus'[h] = "running"
                      /\ cpc'[h] = "gate" \/ Driving(h)' => Backed(h)'
                      /\ cpc'[h] = "close" => igStatus'[h] \in RunTerminal /\ runOf'[creq[h]] = h
    BY DEF ChildRows, NotLinked, Live, Driving, Exited
  <2>1. Live(h) /\ cpc'[h] = cpc[h] /\ creq[h] \in Requests
    BY <1>live, <1>serve DEF Live
  <2>2. SameRow(creq[h])
    BY <2>1, <1>works, <1>settled
  <2>3. /\ cpc[h] = "link" \/ Backed(h) => igStatus'[h] = igStatus[h]
        /\ igStatus[h] \in RunTerminal => igStatus'[h] \in RunTerminal
    BY <2>1 DEF RunsHold
  <2> QED
    BY <2>1, <2>2, <2>3 DEF BackingInv, ChildRows, NotLinked, SameRow, Backed, Driving
<1>9. LinkedRuns'
  <2> SUFFICES ASSUME NEW q \in Requests, runOf[q] # NoRun
               PROVE  cpc'[runOf[q]] \notin {"none"} \union NotLinked /\ creq[runOf[q]] = q
    BY <1>run DEF LinkedRuns, NotLinked
  <2>1. runOf[q] \in Runs
    BY <1>serve
  <2> QED
    BY <2>1, <1>live DEF BackingInv, LinkedRuns, NotLinked
<1>10. OrphanRow'
  <2>1. CASE mpc # "orphan"
    BY <2>1 DEF OrphanRow
  <2>2. CASE mpc = "orphan"
    BY <2>2, <1>serve, <1>run, <1>live DEF BackingInv, OrphanRow, Live
  <2> QED
    BY <2>1, <2>2
<1> QED
  BY <1>1, <1>2, <1>3, <1>4, <1>5, <1>6, <1>7, <1>8, <1>9, <1>10 DEF BackingInv

\* The launch is the one step that brings a worker into play.
LEMMA LaunchBacking ==
  ASSUME ControlInv, BackingInv, NEW s \in Slots, NEW g \in Runs, TaskLaunches(s, g)
  PROVE  BackingInv'
<1> USE LedgerAssumption
<1>type. PlaneTypeOK /\ LedgerTypeOK
  BY ControlInvSplit
<1>serve. /\ \A t \in Slots : Busy(t) => treq[t] \in Requests
          /\ \A h \in Runs : cpc[h] # "none" => creq[h] \in Requests
          /\ mpc = "orphan" => mreq \in Requests
          /\ \A q \in Requests : runOf[q] \in Runs \union {NoRun}
          /\ \A t \in Slots : tpc[t] \in Watching \union AfterExit => tchild[t] \in Runs
  BY <1>type DEF PlaneTypeOK, LedgerTypeOK, TasksServe, ChildrenServe, MainServes, BackingInv,
                 TaskChildren
<1> DEFINE r == treq[s]
<1>eff. /\ tpc[s] = "launch" /\ cpc[g] = "none"
        /\ tpc'[s] = "wait" /\ tchild'[s] = g /\ treq' = treq /\ trun' = trun
        /\ \A t \in Slots : t # s => tpc'[t] = tpc[t] /\ tchild'[t] = tchild[t]
        /\ cpc'[g] = "boot" /\ creq'[g] = r
        /\ \A h \in Runs : h # g => cpc'[h] = cpc[h] /\ creq'[h] = creq[h]
        /\ UNCHANGED <<status, claimedBy, lease, runOf, igStatus, mpc, mreq>>
  BY <1>type DEF TaskLaunches, SpawnChild, PlaneTypeOK, queueVars, ledgerVars, runVars, mainVars
<1>row. /\ Busy(s) /\ r \in Requests
        /\ status[r] \in Owned \union {"canceled"}
        /\ \A h \in Runs : Live(h) => creq[h] # r
  BY <1>eff, <1>serve DEF BackingInv, ServedRows, Busy, BeforeLaunch
<1>busy. \A t \in Slots : Busy(t)' <=> Busy(t)
  BY <1>eff DEF Busy
<1>alone. \A t \in Slots : t # s /\ Busy(t) => treq[t] # r
  BY <1>row DEF BackingInv, OneServer
<1>live. \A h \in Runs : Live(h)' <=> Live(h) \/ h = g
  BY <1>eff DEF Live, Exited
<1>1. OneServer'
  BY <1>busy, <1>eff DEF OneServer, BackingInv
<1>2. ServedRows'
  <2> SUFFICES ASSUME NEW t \in Slots, Busy(t)
               PROVE  /\ status[treq[t]] \notin {"absent", "queued"}
                      /\ lease[treq[t]] # "expired"
                      /\ tpc'[t] \in BeforeLaunch =>
                            /\ status[treq[t]] \in Owned \union {"canceled"}
                            /\ \A h \in Runs : Live(h)' => creq'[h] # treq[t]
                      /\ tpc'[t] = "reconcile" => /\ status[treq[t]] \in TerminalStatus
                                                  /\ trun[t] = runOf[treq[t]]
    BY <1>eff, <1>busy DEF ServedRows, Busy, BeforeLaunch
  <2>1. t = s => tpc'[t] \notin BeforeLaunch /\ tpc'[t] # "reconcile"
    BY <1>eff DEF BeforeLaunch
  <2> QED
    BY <2>1, <1>eff, <1>live, <1>alone DEF BackingInv, ServedRows
<1>3. TaskChildren'
  <2> SUFFICES ASSUME NEW t \in Slots, tpc'[t] \in Watching \union AfterExit
               PROVE  /\ tchild'[t] \in Runs /\ creq'[tchild'[t]] = treq[t]
                      /\ tpc'[t] \in AfterExit => cpc'[tchild'[t]] \in Exited
    BY <1>eff DEF TaskChildren
  <2>1. CASE t = s
    BY <2>1, <1>eff DEF AfterExit
  <2>2. CASE t # s
    <3>1. /\ tpc[t] \in Watching \union AfterExit /\ tchild'[t] = tchild[t]
          /\ tchild[t] \in Runs /\ creq[tchild[t]] = treq[t] /\ treq[t] # r
          /\ tpc'[t] = tpc[t]
          /\ tpc[t] \in AfterExit => cpc[tchild[t]] \in Exited
      BY <2>2, <1>eff, <1>alone DEF BackingInv, TaskChildren, Busy, Watching, AfterExit
    <3>2. cpc[tchild[t]] # "none"
      BY <3>1, <1>type DEF PlaneTypeOK, TasksServe, Watching, Exited
    <3> QED
      BY <3>1, <3>2, <1>eff
  <2> QED
    BY <2>1, <2>2
<1>4. OwnedByMe'
  BY <1>eff DEF OwnedByMe, BackingInv
<1>5. IdleUnlessServing'
  BY <1>eff, <1>busy DEF IdleUnlessServing, BackingInv
<1>6. Survivors'
  <2> SUFFICES ASSUME NEW h \in Runs, Live(h)', ~Attended(h)'
               PROVE  ChildrenSurvive /\ (mpc \in Serving => status'[creq'[h]] \notin ActiveStatus)
    BY <1>eff DEF Survivors, Active
  <2>1. h # g
    BY <1>eff DEF Attended, Watching
  <2>2. ~Attended(h)
    BY <1>eff DEF Attended, Watching
  <2> QED
    BY <2>1, <2>2, <1>eff, <1>live DEF BackingInv, Survivors, Active
<1>7. OneChild'
  BY <1>live, <1>eff, <1>row DEF OneChild, BackingInv
<1>8. ChildRows'
  BY <1>eff, <1>row DEF BackingInv, ChildRows, NotLinked, Backed, Driving
<1>9. LinkedRuns'
  BY <1>eff, <1>serve DEF BackingInv, LinkedRuns, NotLinked
<1>10. OrphanRow'
  <2>1. CASE mpc # "orphan"
    BY <2>1, <1>eff DEF OrphanRow
  <2>2. CASE mpc = "orphan"
    BY <2>2, <1>row DEF BackingInv, IdleUnlessServing, Serving
  <2> QED
    BY <2>1, <2>2
<1> QED
  BY <1>1, <1>2, <1>3, <1>4, <1>5, <1>6, <1>7, <1>8, <1>9, <1>10 DEF BackingInv

LEMMA TaskBacking ==
  ASSUME ControlInv, LedgerInv, BackingInv, NEW s \in Slots, TaskStep(s)
  PROVE  BackingInv'
<1> USE LedgerAssumption DEF TaskGoto, TaskEnds
<1>type. PlaneTypeOK /\ LedgerTypeOK
  BY ControlInvSplit
<1>serve. Busy(s) => /\ treq[s] \in Requests
                     /\ status[treq[s]] \notin {"absent", "queued"}
  BY <1>type DEF PlaneTypeOK, TasksServe, BackingInv, ServedRows
<1>same. ASSUME UNCHANGED queueVars
         PROVE  /\ \A r \in Requests : SameRow(r)
                /\ UNCHANGED <<igStatus, status, runOf>>
  BY <1>same DEF queueVars, ledgerVars, runVars, SameRow
<1>hold. ASSUME UNCHANGED igStatus PROVE RunsHold
  BY <1>hold DEF RunsHold
<1>ends. ASSUME TaskEnds(s)
         PROVE  /\ tpc'[s] = "free"
                /\ \A t \in Slots : t # s => /\ tpc'[t] = tpc[t] /\ treq'[t] = treq[t]
                                             /\ tchild'[t] = tchild[t] /\ trun'[t] = trun[t]
  BY <1>ends, <1>type DEF PlaneTypeOK
<1>goto. ASSUME NEW pc, TaskGoto(s, pc)
         PROVE  /\ tpc'[s] = pc /\ treq' = treq /\ tchild' = tchild /\ trun' = trun
                /\ \A t \in Slots : t # s => tpc'[t] = tpc[t]
  BY <1>goto, <1>type DEF PlaneTypeOK
<1> HIDE DEF TaskGoto, TaskEnds
<1> USE DEF Busy, BeforeLaunch, Watching, AfterExit, Owned, TaskEffect, TaskMove, ServedMove,
            childVars, mainVars
<1>goes. ASSUME UNCHANGED <<queueVars, cpc, creq, mainVars>>, Busy(s)
         PROVE  /\ RunsHold /\ OthersSame(treq[s]) /\ SameRow(treq[s])
                /\ UNCHANGED <<status, runOf>>
  BY <1>goes, <1>same, <1>hold, <1>serve DEF OthersSame
<1>1. CASE TaskMarks(s)
  <2>1. CASE CanMarkStarting(Me, treq[s])
    <3>1. MarkStarting(Me, treq[s]) /\ TaskGoto(s, "starting") /\ UNCHANGED childVars
          /\ UNCHANGED mainVars /\ Busy(s) /\ tpc[s] = "gates" /\ treq[s] \in Requests
      BY <1>1, <2>1, <1>serve DEF TaskMarks
    <3>2. /\ status[treq[s]] = "claimed" /\ status'[treq[s]] = "starting"
          /\ lease'[treq[s]] = "live" /\ claimedBy' = claimedBy /\ runOf' = runOf
          /\ OthersSame(treq[s]) /\ UNCHANGED igStatus
      BY <3>1, <1>type DEF MarkStarting, CanMarkStarting, LedgerTypeOK, OthersSame, SameRow, runVars
    <3>3. TaskEffect(s) /\ TaskMove(s)
      BY <3>1, <3>2, <1>goto, <1>hold
    <3> QED
      BY <3>3, TaskEffectBacking
  <2>2. CASE ~CanMarkStarting(Me, treq[s])
    <3>1. TaskEffect(s) /\ TaskMove(s)
      BY <1>1, <2>2, <1>goes, <1>ends DEF TaskMarks
    <3> QED
      BY <3>1, TaskEffectBacking
  <2> QED
    BY <2>1, <2>2
<1>2. CASE TaskTakesResumeLock(s) \/ TaskReleases(s)
  <2>0. (tpc[s] = "starting" /\ TaskGoto(s, "launch")) \/ (tpc[s] = "release" /\ TaskGoto(s, "finalize"))
    BY <1>2 DEF TaskTakesResumeLock, TaskReleases
  <2>row. tpc[s] = "starting" => status[treq[s]] \in Owned \union {"canceled"}
    BY DEF BackingInv, ServedRows
  <2>1. TaskEffect(s) /\ TaskMove(s)
    BY <1>2, <1>goes, <1>goto, <2>0, <2>row DEF TaskTakesResumeLock, TaskReleases
  <2> QED
    BY <2>1, TaskEffectBacking
\* Refusals settle the request before a worker was launched.
<1>settle. ASSUME tpc[s] \in BeforeLaunch, TryComplete(Me, treq[s], "blocked"), TaskEnds(s),
                  UNCHANGED <<childVars, mainVars>>
           PROVE  BackingInv'
  <2>1. TaskEffect(s) /\ TaskMove(s)
    BY <1>settle, <1>ends, <1>hold, <1>type, <1>serve, TryCompleteEffect DEF TerminalStatus
  <2> QED
    BY <2>1, TaskEffectBacking
<1>3. CASE TaskTakesLock(s)
  <2>1. CASE TaskGoto(s, "launch") /\ UNCHANGED queueVars
    <3>1. TaskEffect(s) /\ TaskMove(s)
      BY <1>3, <2>1, <1>goes, <1>goto DEF TaskTakesLock, BackingInv, ServedRows
    <3> QED
      BY <3>1, TaskEffectBacking
  <2>2. CASE TryComplete(Me, treq[s], "blocked") /\ TaskEnds(s)
    BY <1>3, <2>2, <1>settle DEF TaskTakesLock
  <2> QED
    BY <1>3, <2>1, <2>2 DEF TaskTakesLock
<1>4. ASSUME NEW g \in Runs, TaskLaunches(s, g) PROVE BackingInv'
  BY <1>4, LaunchBacking
<1>5. CASE TaskSeesExit(s)
  <2>1. TaskEffect(s) /\ TaskMove(s)
    BY <1>5, <1>goes, <1>goto DEF TaskSeesExit
  <2> QED
    BY <2>1, TaskEffectBacking
<1>signal. ASSUME tpc[s] = "wait", cpc[tchild[s]] \notin Exited, SignalChild(s)
           PROVE  /\ \A g \in Runs : cpc'[g] = cpc[g] \/ (Live(g) /\ cpc'[g] = "exit1")
                  /\ UNCHANGED creq
  <2>1. tchild[s] \in Runs /\ cpc[tchild[s]] # "none"
    BY <1>signal, <1>type DEF PlaneTypeOK, TasksServe
  <2> QED
    BY <2>1, <1>signal, <1>type DEF SignalChild, Terminate, Live, PlaneTypeOK
<1>quiet. ASSUME UNCHANGED queueVars, Busy(s)
          PROVE  RunsHold /\ OthersSame(treq[s]) /\ SameRow(treq[s])
  BY <1>quiet, <1>same, <1>hold, <1>serve DEF OthersSame
<1>6. CASE TaskSeesCancel(s)
  <2>1. TaskEffect(s) /\ TaskMove(s)
    BY <1>6, <1>quiet, <1>goto, <1>signal DEF TaskSeesCancel
  <2> QED
    BY <2>1, TaskEffectBacking
<1>7. CASE TaskTimesOut(s)
  <2>1. tpc'[s] = "stopping" /\ \A t \in Slots : t # s => tpc'[t] = tpc[t]
    BY <1>7, <1>type DEF TaskTimesOut, PlaneTypeOK
  <2>2. TaskEffect(s) /\ TaskMove(s)
    BY <1>7, <2>1, <1>quiet, <1>signal DEF TaskTimesOut
  <2> QED
    BY <2>2, TaskEffectBacking
<1>8. CASE TaskFinalizes(s)
  <2>1. PICK v \in Verdicts(s) : TryComplete(Me, treq[s], v)
    BY <1>8 DEF TaskFinalizes
  <2>2. v \in TerminalStatus
    BY DEF Verdicts, TerminalStatus
  <2>3. /\ tpc[s] = "finalize" /\ tpc'[s] = "reconcile" /\ trun'[s] = runOf[treq[s]]
        /\ treq' = treq /\ tchild' = tchild /\ UNCHANGED childVars /\ UNCHANGED mainVars
        /\ \A t \in Slots : t # s => tpc'[t] = tpc[t] /\ trun'[t] = trun[t]
    BY <1>8, <1>type DEF TaskFinalizes, PlaneTypeOK
  <2>4. treq[s] \in Requests /\ status[treq[s]] \notin {"absent", "queued"}
    BY <2>3, <1>serve
  <2>5. /\ SameRow(treq[s]) \/ Settles(treq[s])
        /\ CanComplete(Me, treq[s]) => Settles(treq[s])
        /\ OthersSame(treq[s])
        /\ UNCHANGED igStatus
    BY <2>1, <2>2, <2>4, <1>type, TryCompleteEffect
  <2>6. status[treq[s]] \in InFlight \union TerminalStatus
    BY <2>4, <1>type DEF LedgerTypeOK, ActiveStatus
  <2>7. status'[treq[s]] \in TerminalStatus
    BY <2>4, <2>5, <2>6 DEF BackingInv, OwnedByMe, CanComplete, SameRow, Settles
  <2>8. runOf'[treq[s]] = runOf[treq[s]]
    BY <2>5 DEF SameRow, Settles
  <2>9. TaskEffect(s) /\ TaskMove(s)
    BY <2>3, <2>5, <2>7, <2>8, <1>hold
  <2> QED
    BY <2>9, TaskEffectBacking
<1>9. CASE TaskReconciles(s)
  <2>1. CASE trun[s] # NoRun /\ igStatus[trun[s]] = "running"
    <3>1. /\ tpc[s] = "reconcile" /\ TaskEnds(s) /\ UNCHANGED childVars /\ UNCHANGED mainVars
          /\ PatchRun(trun[s], RunStatusFor(tout[s])) /\ trun[s] \in Runs
          /\ RunStatusFor(tout[s]) \in RunTerminal
      BY <1>9, <2>1, <1>type, RunStatuses DEF TaskReconciles, PlaneTypeOK, TasksServe
    <3>2. /\ status[treq[s]] \in TerminalStatus /\ trun[s] = runOf[treq[s]]
          /\ treq[s] \in Requests
      BY <3>1, <1>serve DEF BackingInv, ServedRows
    <3>3. /\ UNCHANGED ledgerVars
          /\ igStatus'[trun[s]] \in RunTerminal
          /\ \A g \in Runs : g # trun[s] => igStatus'[g] = igStatus[g]
      BY <3>1, <1>type DEF PatchRun, LedgerTypeOK
    <3>4. cpc[trun[s]] # "link" /\ creq[trun[s]] = treq[s]
      BY <2>1, <3>2 DEF BackingInv, LinkedRuns, NotLinked
    <3>5. ~Backed(trun[s])
      BY <3>2, <3>4 DEF Backed, TerminalStatus
    <3>6. RunsHold
      BY <3>3, <3>4, <3>5 DEF RunsHold
    <3>7. \A r \in Requests : SameRow(r)
      BY <3>3 DEF ledgerVars, SameRow
    <3>8. TaskEffect(s) /\ TaskMove(s)
      BY <3>1, <3>2, <3>6, <3>7, <1>ends DEF OthersSame
    <3> QED
      BY <3>8, TaskEffectBacking
  <2>2. CASE ~(trun[s] # NoRun /\ igStatus[trun[s]] = "running")
    <3>1. TaskEffect(s) /\ TaskMove(s)
      BY <1>9, <2>2, <1>goes, <1>ends DEF TaskReconciles
    <3> QED
      BY <3>1, TaskEffectBacking
  <2> QED
    BY <2>1, <2>2
<1>10. CASE TaskRefuses(s) \/ TaskRefusesResume(s)
  BY <1>10, <1>settle DEF TaskRefuses, TaskRefusesResume
<1>11. CASE TaskIsLost(s)
  <2>1. TaskEffect(s) /\ TaskMove(s)
    BY <1>11, <1>goes, <1>ends DEF TaskIsLost
  <2> QED
    BY <2>1, TaskEffectBacking
<1> QED
  BY <1>1, <1>2, <1>3, <1>4, <1>5, <1>6, <1>7, <1>8, <1>9, <1>10, <1>11
  DEF TaskStep, TaskProceeds

-----------------------------------------------------------------------------
(* The steps of the main thread, of the dashboard and of time.             *)

Unserved(r) == \A s \in Slots : ~Serves(s, r)
Unworked(r) == \A g \in Runs : Live(g) => creq[g] # r

RowStands(r) ==
    /\ status'[r] = status[r]
    /\ claimedBy'[r] = claimedBy[r]
    /\ lease'[r] = lease[r]
    /\ runOf'[r] = runOf[r]

\* What such a step may do to a request: nothing; settle it, before it is
\* linked or when its worker has published; let the lease of an unserved one
\* run out; or anything to one nobody serves and nobody works for.
RowMove(r) ==
    \/ RowStands(r)
    \/ /\ status'[r] \in TerminalStatus /\ lease'[r] = "none" /\ runOf'[r] = runOf[r]
       /\ \/ status[r] \in Owned \union {"queued"} /\ status'[r] = "canceled"
          \/ /\ status[r] = "running"
             /\ \A g \in Runs : Live(g) /\ creq[g] = r => cpc[g] = "close"
    \/ /\ Unserved(r) /\ lease'[r] = "expired"
       /\ status'[r] = status[r] /\ claimedBy'[r] = claimedBy[r] /\ runOf'[r] = runOf[r]
    \/ /\ Unserved(r) /\ Unworked(r) /\ runOf'[r] = runOf[r]
       /\ status'[r] \in InFlight => claimedBy'[r] = Me

\* The conjuncts about requests and workers, while nothing else moves.
LEMMA RowMovesBacking ==
  ASSUME ControlInv, BackingInv, \A r \in Requests : RowMove(r), RunsHold, UNCHANGED <<cpc, creq>>
  PROVE  OwnedByMe' /\ OneChild' /\ ChildRows' /\ LinkedRuns'
<1> USE LedgerAssumption
<1>serve. /\ \A h \in Runs : cpc[h] # "none" => creq[h] \in Requests
          /\ \A q \in Requests : runOf[q] \in Runs \union {NoRun}
  BY ControlInvSplit DEF PlaneTypeOK, LedgerTypeOK, ChildrenServe
<1>1. OwnedByMe'
  BY DEF BackingInv, OwnedByMe, RowMove, RowStands, InFlight, TerminalStatus
<1>2. OneChild'
  BY DEF BackingInv, OneChild, Live
<1>3. ChildRows'
  <2> SUFFICES ASSUME NEW h \in Runs, Live(h)
               PROVE  /\ cpc[h] \in NotLinked =>
                           status'[creq[h]] \in Owned \union {"canceled"}
                      /\ cpc[h] = "link" => igStatus'[h] = "running"
                      /\ cpc[h] = "gate" \/ Driving(h) => Backed(h)'
                      /\ cpc[h] = "close" => igStatus'[h] \in RunTerminal /\ runOf'[creq[h]] = h
    BY DEF ChildRows, NotLinked, Live, Driving, Exited
  <2>1. creq[h] \in Requests /\ RowMove(creq[h]) /\ ~Unworked(creq[h])
    BY <1>serve DEF Live, Unworked
  <2>2. /\ cpc[h] = "link" \/ Backed(h) => igStatus'[h] = igStatus[h]
        /\ igStatus[h] \in RunTerminal => igStatus'[h] \in RunTerminal
    BY DEF RunsHold
  <2>3. /\ cpc[h] \in NotLinked => status[creq[h]] \in Owned \union {"canceled"}
        /\ cpc[h] = "link" => igStatus[h] = "running"
        /\ cpc[h] = "gate" \/ Driving(h) => Backed(h)
        /\ cpc[h] = "close" => igStatus[h] \in RunTerminal /\ runOf[creq[h]] = h
    BY DEF BackingInv, ChildRows, NotLinked
  <2>4. runOf'[creq[h]] = runOf[creq[h]]
    BY <2>1 DEF RowMove, RowStands
  <2>5. CASE status'[creq[h]] = status[creq[h]]
    BY <2>2, <2>3, <2>4, <2>5 DEF Backed
  <2>6. CASE status[creq[h]] \in Owned \union {"queued"} /\ status'[creq[h]] = "canceled"
    BY <2>2, <2>3, <2>4, <2>6 DEF Backed, Owned, Driving
  <2>7. CASE status[creq[h]] = "running" /\ cpc[h] = "close"
    BY <2>2, <2>3, <2>4, <2>7 DEF Driving, NotLinked
  <2> QED
    BY <2>1, <2>5, <2>6, <2>7 DEF RowMove, RowStands
<1>4. LinkedRuns'
  BY DEF BackingInv, LinkedRuns, NotLinked, RowMove, RowStands
<1> QED
  BY <1>1, <1>2, <1>3, <1>4

\* ... and the others, when the tasks stay as they are.
LEMMA QuietBacking ==
  ASSUME ControlInv, BackingInv, \A r \in Requests : RowMove(r), RunsHold,
         UNCHANGED <<cpc, creq, tpc, treq, tchild, trun>>,
         IdleUnlessServing', OrphanRow',
         mpc' \in Serving => mpc \in Serving \/ \A g \in Runs : Live(g) => ~Active(creq[g])'
  PROVE  BackingInv'
<1> USE LedgerAssumption
<1>serve. /\ \A s \in Slots : Busy(s) => treq[s] \in Requests
          /\ \A h \in Runs : cpc[h] # "none" => creq[h] \in Requests
  BY ControlInvSplit DEF PlaneTypeOK, TasksServe, ChildrenServe
<1>1. OneServer'
  BY DEF BackingInv, OneServer, Busy
<1>2. ServedRows'
  <2> SUFFICES ASSUME NEW s \in Slots, Busy(s)
               PROVE  /\ status'[treq[s]] \notin {"absent", "queued"}
                      /\ lease'[treq[s]] # "expired"
                      /\ tpc[s] \in BeforeLaunch =>
                            /\ status'[treq[s]] \in Owned \union {"canceled"}
                            /\ \A g \in Runs : Live(g) => creq[g] # treq[s]
                      /\ tpc[s] = "reconcile" => /\ status'[treq[s]] \in TerminalStatus
                                                 /\ trun[s] = runOf'[treq[s]]
    BY DEF ServedRows, Busy, BeforeLaunch, Live
  <2>1. /\ RowMove(treq[s]) /\ ~Unserved(treq[s]) /\ treq[s] \in Requests
    BY <1>serve DEF Unserved, Serves
  <2>2. /\ status[treq[s]] \notin {"absent", "queued"}
        /\ lease[treq[s]] # "expired"
        /\ tpc[s] \in BeforeLaunch => /\ status[treq[s]] \in Owned \union {"canceled"}
                                      /\ \A g \in Runs : Live(g) => creq[g] # treq[s]
        /\ tpc[s] = "reconcile" => /\ status[treq[s]] \in TerminalStatus
                                   /\ trun[s] = runOf[treq[s]]
    BY DEF BackingInv, ServedRows
  <2> QED
    BY <2>1, <2>2 DEF RowMove, RowStands, TerminalStatus, Owned
<1>3. TaskChildren'
  BY DEF BackingInv, TaskChildren
<1>4. Survivors'
  <2> SUFFICES ASSUME NEW h \in Runs, Live(h), ~Attended(h)
               PROVE  ChildrenSurvive /\ (mpc' \in Serving => ~Active(creq[h])')
    BY DEF Survivors, Live, Attended
  <2>1. creq[h] \in Requests /\ RowMove(creq[h]) /\ ~Unworked(creq[h])
    BY <1>serve DEF Live, Unworked
  <2>2. ~Active(creq[h]) => ~Active(creq[h])'
    BY <2>1 DEF RowMove, RowStands, Active, ActiveStatus, InFlight, TerminalStatus
  <2> QED
    BY <2>2 DEF BackingInv, Survivors
<1> QED
  BY <1>1, <1>2, <1>3, <1>4, RowMovesBacking DEF BackingInv

\* A claim or a reclaim meets a request that nobody serves or works for.
LEMMA WaitingIsFree ==
  ASSUME ControlInv, LedgerInv, BackingInv, mpc \in Serving, NEW r \in Requests,
         status[r] \in {"absent", "queued"} \/ StaleClaim(r)
  PROVE  Unserved(r) /\ Unworked(r)
<1>1. Unserved(r)
  BY DEF Unserved, Serves, BackingInv, ServedRows, StaleClaim
<1>2. Unworked(r)
  <2> SUFFICES ASSUME NEW h \in Runs, Live(h), creq[h] = r PROVE FALSE
    BY DEF Unworked
  <2>1. CASE status[r] \in {"absent", "queued"}
    <3>1. runOf[r] = NoRun
      BY <2>1 DEF LedgerInv, ColumnsAgree
    <3> QED
      BY <2>1, <3>1, ControlInvSplit, LedgerAssumption
      DEF BackingInv, ChildRows, NotLinked, Backed, Driving, Owned, Live, Exited, PlaneTypeOK
  <2>2. CASE StaleClaim(r)
    <3>1. Active(r)
      BY <2>2 DEF StaleClaim, Active, ActiveStatus, InFlight
    <3>2. Attended(h)
      BY <3>1 DEF BackingInv, Survivors
    <3> QED
      BY <1>1, <3>2 DEF Attended, Unserved, Serves, Busy, Watching, BackingInv, TaskChildren
  <2> QED
    BY <2>1, <2>2
<1> QED
  BY <1>1, <1>2

LEMMA ReclaimedRows ==
  ASSUME ControlInv, LedgerInv, BackingInv, mpc \in Serving, NEW r \in Requests
  PROVE  /\ ~StaleRunning(r)
         /\ ReclaimedStatus[r] = IF StaleClaim(r) THEN "queued" ELSE status[r]
         /\ ReclaimedOwner[r] = IF StaleClaim(r) THEN NoWorker ELSE claimedBy[r]
         /\ ReclaimedLease[r] = IF StaleClaim(r) THEN "none" ELSE lease[r]
  BY DEF LedgerInv, ColumnsAgree, StaleRunning, ReclaimedStatus, ReclaimedOwner, ReclaimedLease

LEMMA ClaimBacking ==
  ASSUME ControlInv, LedgerInv, BackingInv, NEW s \in Slots, NEW r \in Requests, MainClaims(s, r)
  PROVE  BackingInv'
<1> USE LedgerAssumption
<1>type. PlaneTypeOK /\ LedgerTypeOK
  BY ControlInvSplit
<1>serve. /\ \A t \in Slots : Busy(t) => treq[t] \in Requests
          /\ \A h \in Runs : cpc[h] # "none" => creq[h] \in Requests
  BY <1>type DEF PlaneTypeOK, TasksServe, ChildrenServe
<1>mpc. mpc = "loop" /\ mpc \in Serving
  BY DEF MainClaims, Serving
<1>free. ~Busy(s) /\ Unserved(r) /\ Unworked(r)
  BY <1>mpc, WaitingIsFree, ReclaimedRows DEF MainClaims, Claim, Claimable
<1>row. status'[r] = "claimed" /\ lease'[r] = "live" /\ claimedBy'[r] = Me /\ runOf' = runOf
  BY <1>type DEF MainClaims, Claim, ReclaimedStatus, ReclaimedOwner, ReclaimedLease
<1>others. ASSUME NEW q \in Requests, q # r
           PROVE  \/ RowStands(q)
                  \/ Unserved(q) /\ Unworked(q) /\ status'[q] = "queued" /\ runOf'[q] = runOf[q]
  <2>1. /\ status'[q] = ReclaimedStatus[q] /\ claimedBy'[q] = ReclaimedOwner[q]
        /\ lease'[q] = ReclaimedLease[q]
    BY <1>others DEF MainClaims, Claim, ReclaimedStatus, ReclaimedOwner, ReclaimedLease
  <2> QED
    BY <2>1, <1>mpc, <1>row, WaitingIsFree, ReclaimedRows DEF RowStands
<1>rows. \A q \in Requests : RowMove(q)
  BY <1>free, <1>row, <1>others DEF RowMove, InFlight
<1>tasks. /\ tpc'[s] = "gates" /\ treq'[s] = r
          /\ \A t \in Slots : t # s => tpc'[t] = tpc[t] /\ treq'[t] = treq[t]
          /\ UNCHANGED <<tchild, trun, cpc, creq, igStatus, mpc, mreq>>
  BY <1>type DEF MainClaims, PlaneTypeOK, childVars, mainVars, Claim, runVars
<1>served. ASSUME NEW t \in Slots, t # s, Busy(t) PROVE treq[t] # r /\ RowStands(treq[t])
  BY <1>served, <1>serve, <1>free, <1>others DEF Unserved, Serves
<1>1. OneServer'
  BY <1>tasks, <1>served DEF BackingInv, OneServer, Busy
<1>2. ServedRows'
  <2> SUFFICES ASSUME NEW t \in Slots, Busy(t)'
               PROVE  /\ status'[treq'[t]] \notin {"absent", "queued"}
                      /\ lease'[treq'[t]] # "expired"
                      /\ tpc'[t] \in BeforeLaunch =>
                            /\ status'[treq'[t]] \in Owned \union {"canceled"}
                            /\ \A g \in Runs : Live(g) => creq[g] # treq'[t]
                      /\ tpc'[t] = "reconcile" => /\ status'[treq'[t]] \in TerminalStatus
                                                  /\ trun'[t] = runOf'[treq'[t]]
    BY <1>tasks DEF ServedRows, Busy, BeforeLaunch, Live
  <2>1. CASE t = s
    BY <2>1, <1>tasks, <1>row, <1>free DEF Owned, Unworked
  <2>2. CASE t # s
    BY <2>2, <1>tasks, <1>served DEF BackingInv, ServedRows, RowStands, Busy
  <2> QED
    BY <2>1, <2>2
<1>3. TaskChildren'
  BY <1>tasks DEF BackingInv, TaskChildren, Watching, AfterExit
<1>4. IdleUnlessServing'
  BY <1>tasks, <1>mpc DEF IdleUnlessServing
<1>5. Survivors'
  <2> SUFFICES ASSUME NEW h \in Runs, Live(h), ~Attended(h)'
               PROVE  ChildrenSurvive /\ ~Active(creq[h])'
    BY <1>tasks DEF Survivors, Live
  <2>1. ~Attended(h)
    BY <1>tasks, <1>free DEF Attended, Busy, Watching
  <2>2. creq[h] \in Requests /\ ~Unworked(creq[h]) /\ creq[h] # r
    BY <1>serve, <1>free DEF Live, Unworked
  <2>3. RowStands(creq[h])
    BY <2>2, <1>others
  <2> QED
    BY <2>1, <2>3, <1>mpc, <1>tasks DEF BackingInv, Survivors, RowStands, Active
<1>6. OrphanRow'
  BY <1>mpc, <1>tasks DEF OrphanRow
<1>7. RunsHold
  BY <1>tasks DEF RunsHold
<1> QED
  BY <1>1, <1>2, <1>3, <1>4, <1>5, <1>6, <1>7, <1>rows, <1>tasks, RowMovesBacking DEF BackingInv

LEMMA CrashBacking ==
  ASSUME ControlInv, BackingInv, MainCrashes
  PROVE  BackingInv'
<1> USE LedgerAssumption
<1>type. PlaneTypeOK /\ LedgerTypeOK
  BY ControlInvSplit
<1>serve. \A q \in Requests : runOf[q] \in Runs \union {NoRun}
  BY <1>type DEF LedgerTypeOK
<1>row. UNCHANGED <<status, claimedBy, lease, runOf, igStatus, creq>>
  BY DEF MainCrashes, queueVars, ledgerVars, runVars
<1>tasks. (\A s \in Slots : tpc'[s] = "free") /\ mpc' = "down"
  BY DEF MainCrashes
<1>live. \A h \in Runs : /\ cpc'[h] = IF Live(h) /\ ~ChildrenSurvive THEN "exit1" ELSE cpc[h]
                         /\ Live(h)' => Live(h) /\ cpc'[h] = cpc[h] /\ ChildrenSurvive
  BY DEF MainCrashes, Live, Exited
<1>1. OneServer' /\ ServedRows' /\ TaskChildren' /\ IdleUnlessServing' /\ OrphanRow'
  BY <1>tasks DEF OneServer, ServedRows, TaskChildren, IdleUnlessServing, OrphanRow, Busy,
                  BeforeLaunch, Watching, AfterExit
<1>2. OwnedByMe' /\ OneChild' /\ Survivors'
  BY <1>row, <1>tasks, <1>live DEF BackingInv, OwnedByMe, OneChild, Survivors, Serving
<1>3. ChildRows'
  BY <1>row, <1>live DEF BackingInv, ChildRows, NotLinked, Backed, Driving, Exited, Live
<1>4. LinkedRuns'
  BY <1>row, <1>serve, <1>live DEF BackingInv, LinkedRuns, NotLinked, Live, Exited
<1> QED
  BY <1>1, <1>2, <1>3, <1>4 DEF BackingInv

LEMMA SettlingMove ==
  ASSUME ControlInv, LedgerInv, NEW r \in Requests, NEW s \in TerminalStatus,
         TryComplete(Me, r, s), status[r] \in InFlight => runOf[r] # NoRun,
         status[r] \in InFlight => \A g \in Runs : Live(g) /\ creq[g] = r => cpc[g] = "close"
  PROVE  (\A q \in Requests : RowMove(q)) /\ RunsHold
<1>1. SameRow(r) \/ Settles(r)
  BY ControlInvSplit, TryCompleteEffect
<1>2. OthersSame(r) /\ UNCHANGED igStatus
  BY ControlInvSplit, TryCompleteEffect
<1>3. status[r] \in InFlight => status[r] = "running"
  BY DEF LedgerInv, ColumnsAgree, InFlight
<1> QED
  BY <1>1, <1>2, <1>3 DEF RowMove, RowStands, SameRow, Settles, OthersSame, RunsHold

LEMMA MainBacking ==
  ASSUME Orderly, ControlInv, LedgerInv, BackingInv,
         DispatcherNext, \A s \in Slots : ~TaskStep(s)
  PROVE  BackingInv'
<1> USE LedgerAssumption DEF Serving
<1>type. PlaneTypeOK /\ LedgerTypeOK
  BY ControlInvSplit
<1>serve. /\ \A h \in Runs : cpc[h] # "none" => creq[h] \in Requests
          /\ \A q \in Requests : runOf[q] \in Runs \union {NoRun}
  BY <1>type DEF PlaneTypeOK, LedgerTypeOK, ChildrenServe
<1>same. ASSUME UNCHANGED queueVars PROVE (\A r \in Requests : RowMove(r)) /\ RunsHold
  BY <1>same DEF queueVars, ledgerVars, runVars, RowMove, RowStands, RunsHold
<1>idle. mpc \notin Serving => \A s \in Slots : ~Busy(s)
  BY DEF BackingInv, IdleUnlessServing
<1>1. ASSUME NEW s \in Slots, NEW r \in Requests, MainClaims(s, r) PROVE BackingInv'
  BY <1>1, ClaimBacking
<1>2. CASE MainCrashes
  BY <1>2, CrashBacking
<1>3. CASE MainStarts \/ MainEndsOrphans \/ MainEndsTerminals \/ MainDrained \/ MainStops
  <2>1. /\ UNCHANGED <<queueVars, childVars, taskVars>>
        /\ mpc' \in Serving => mpc \in Serving
        /\ mpc' # "orphan"
    BY <1>3 DEF MainStarts, MainEndsOrphans, MainEndsTerminals, MainDrained, MainStops, MainGoto
  <2>2. IdleUnlessServing' /\ OrphanRow'
    BY <1>3, <1>idle, <2>1
    DEF MainStarts, MainEndsOrphans, MainEndsTerminals, MainDrained, MainStops, MainGoto,
        IdleUnlessServing, OrphanRow, Busy, taskVars
  <2> QED
    BY <2>1, <2>2, <1>same, QuietBacking DEF childVars, taskVars
\* A refused preflight ends the process.  A passed one finds no active request,
\* or no worker outlives its dispatcher.
<1>4. CASE MainPreflight
  <2>1. /\ UNCHANGED <<queueVars, childVars, taskVars>> /\ mpc = "preflight"
        /\ mpc' \in {"loop", "down"}
        /\ mpc' = "loop" => AllowExistingQueue \/ \A r \in Requests : ~Active(r)
    BY <1>4 DEF MainPreflight, MainGoto
  <2>2. IdleUnlessServing' /\ OrphanRow'
    BY <1>idle, <2>1 DEF IdleUnlessServing, OrphanRow, Busy, taskVars
  <2>3. ASSUME mpc' \in Serving, NEW h \in Runs, Live(h) PROVE ~Active(creq[h])
    <3>1. ~Attended(h)
      BY <1>idle, <2>1 DEF Attended, Busy, Watching
    <3>2. ChildrenSurvive
      BY <2>3, <3>1 DEF BackingInv, Survivors
    <3>3. creq[h] \in Requests
      BY <2>3, <1>serve DEF Live
    <3> QED
      BY <2>1, <2>3, <3>2, <3>3 DEF Orderly
  <2>4. \A h \in Runs : Active(creq[h])' <=> Active(creq[h])
    BY <2>1 DEF queueVars, ledgerVars, childVars, Active
  <2> QED
    BY <2>1, <2>2, <2>3, <2>4, <1>same, QuietBacking DEF childVars, taskVars
<1>5. ASSUME NEW r \in Requests, MainFindsOrphan(r) PROVE BackingInv'
  <2>1. /\ runOf[r] \in Runs /\ ~Live(runOf[r]) /\ mpc = "orphans" /\ mpc' = "orphan" /\ mreq' = r
        /\ UNCHANGED <<childVars, taskVars>>
    BY <1>5, <1>serve DEF MainFindsOrphan, IsOrphan
  <2>2. /\ UNCHANGED ledgerVars
        /\ igStatus'[runOf[r]] \in RunTerminal
        /\ \A g \in Runs : g # runOf[r] => igStatus'[g] = igStatus[g]
    BY <1>5, <2>1, <1>type DEF MainFindsOrphan, PatchRun, LedgerTypeOK, RunTerminal
  <2>3. \A q \in Requests : RowMove(q)
    BY <2>2 DEF ledgerVars, RowMove, RowStands
  <2>4. RunsHold
    BY <2>1, <2>2 DEF RunsHold
  <2>5. IdleUnlessServing' /\ OrphanRow'
    BY <1>idle, <2>1, <2>2, <1>serve
    DEF IdleUnlessServing, OrphanRow, Busy, Live, taskVars, childVars, ledgerVars
  <2> QED
    BY <2>1, <2>3, <2>4, <2>5, QuietBacking DEF childVars, taskVars
<1>6. CASE MainClosesOrphan
  <2>1. /\ mpc = "orphan" /\ mpc' = "orphans" /\ UNCHANGED <<childVars, taskVars>>
        /\ mreq \in Requests /\ runOf[mreq] # NoRun /\ ~Live(runOf[mreq])
    BY <1>6, <1>type DEF MainClosesOrphan, PlaneTypeOK, MainServes, BackingInv, OrphanRow
  <2>2. PICK v \in TerminalStatus : TryComplete(Me, mreq, v)
    BY <1>6 DEF MainClosesOrphan, TerminalStatus
  <2>3. ASSUME status[mreq] \in InFlight, NEW g \in Runs, Live(g), creq[g] = mreq PROVE FALSE
    <3>1. status[mreq] = "running"
      BY <2>1, <2>3 DEF LedgerInv, ColumnsAgree, InFlight
    <3> QED
      BY <2>1, <2>3, <3>1, <1>type
      DEF BackingInv, ChildRows, NotLinked, Backed, Driving, Owned, Live, Exited, PlaneTypeOK
  <2>4. (\A q \in Requests : RowMove(q)) /\ RunsHold
    BY <2>1, <2>2, <2>3, SettlingMove
  <2>5. IdleUnlessServing' /\ OrphanRow'
    BY <1>idle, <2>1 DEF IdleUnlessServing, OrphanRow, Busy, taskVars
  <2> QED
    BY <2>1, <2>4, <2>5, QuietBacking DEF childVars, taskVars
\* A worker whose run is terminal has published it.
<1>7. ASSUME NEW r \in Requests, MainSweepsTerminal(r) PROVE BackingInv'
  <2>1. /\ Active(r) /\ runOf[r] # NoRun /\ igStatus[runOf[r]] \in RunTerminal
        /\ mpc' = mpc /\ mreq' = mreq /\ mpc # "orphan" /\ UNCHANGED <<childVars, taskVars>>
    BY <1>7 DEF MainSweepsTerminal, HasTerminalRun, mainVars
  <2>2. PICK v \in TerminalStatus : TryComplete(Me, r, v)
    BY <1>7, RunStatuses DEF MainSweepsTerminal
  <2>3. ASSUME NEW g \in Runs, Live(g), creq[g] = r PROVE cpc[g] = "close"
    <3>1. status[r] = "running"
      BY <2>1 DEF LedgerInv, ColumnsAgree, Active, ActiveStatus, InFlight
    <3> QED
      BY <2>1, <2>3, <3>1, <1>type
      DEF BackingInv, ChildRows, NotLinked, Backed, Driving, Owned, Live, Exited, PlaneTypeOK, RunTerminal
  <2>4. (\A q \in Requests : RowMove(q)) /\ RunsHold
    BY <2>1, <2>2, <2>3, SettlingMove
  <2>5. IdleUnlessServing' /\ OrphanRow'
    BY <1>idle, <2>1 DEF IdleUnlessServing, OrphanRow, Busy, taskVars
  <2> QED
    BY <2>1, <2>4, <2>5, QuietBacking DEF childVars, taskVars
<1>8. CASE MainReclaims
  <2>1. /\ mpc = "loop" /\ mpc \in Serving /\ mpc' = mpc /\ mreq' = mreq
        /\ UNCHANGED <<childVars, taskVars>> /\ runOf' = runOf /\ igStatus' = igStatus
        /\ status' = ReclaimedStatus /\ claimedBy' = ReclaimedOwner /\ lease' = ReclaimedLease
    BY <1>8 DEF MainReclaims, Reclaim, mainVars, runVars
  <2>2. ASSUME NEW r \in Requests PROVE RowMove(r)
    BY <2>1, WaitingIsFree, ReclaimedRows DEF RowMove, RowStands, InFlight
  <2>3. RunsHold
    BY <2>1 DEF RunsHold
  <2>4. IdleUnlessServing' /\ OrphanRow'
    BY <2>1 DEF IdleUnlessServing, OrphanRow
  <2> QED
    BY <2>1, <2>2, <2>3, <2>4, QuietBacking DEF childVars, taskVars
<1> QED
  BY <1>1, <1>2, <1>3, <1>4, <1>5, <1>6, <1>7, <1>8 DEF DispatcherNext, MainProceeds

LEMMA EnvironmentBacking ==
  ASSUME Orderly, ControlInv, LedgerInv, BackingInv, EnvironmentNext
  PROVE  BackingInv'
<1> USE LedgerAssumption
<1>type. PlaneTypeOK /\ LedgerTypeOK
  BY ControlInvSplit
<1>1. UNCHANGED <<childVars, taskVars, mainVars, igStatus>>
  BY DEF EnvironmentNext, Submit, CancelRequest, RequestLeaseLapses, PhoneLockLapses, Create,
         Cancel, LeaseLapses, queueVars, runVars
<1>2. RunsHold
  BY <1>1 DEF RunsHold
<1>run. runOf' = runOf
  BY DEF EnvironmentNext, Submit, CancelRequest, RequestLeaseLapses, PhoneLockLapses, Create,
         Cancel, LeaseLapses, queueVars, ledgerVars
<1>3. IdleUnlessServing' /\ OrphanRow'
  BY <1>1, <1>run DEF BackingInv, IdleUnlessServing, OrphanRow, Busy, Live, taskVars, mainVars, childVars
<1>4. ASSUME NEW r \in Requests, Submit(r) PROVE \A q \in Requests : RowMove(q)
  <2>1. /\ status[r] = "absent" /\ status'[r] = "queued" /\ runOf' = runOf
        /\ \A q \in Requests : q # r => RowStands(q)
    BY <1>4, <1>type DEF Submit, Create, LedgerTypeOK, RowStands
  <2>2. Unserved(r)
    BY <2>1 DEF Unserved, Serves, BackingInv, ServedRows
  <2>3. runOf[r] = NoRun
    BY <2>1 DEF LedgerInv, ColumnsAgree
  <2>4. Unworked(r)
    BY <2>1, <2>3, <1>type
    DEF Unworked, BackingInv, ChildRows, NotLinked, Backed, Driving, Owned, Live, Exited, PlaneTypeOK
  <2> QED
    BY <2>1, <2>2, <2>4 DEF RowMove, InFlight
<1>5. ASSUME NEW r \in Requests, CancelRequest(r) PROVE \A q \in Requests : RowMove(q)
  <2>1. Cancel(r) /\ Active(r)
    BY <1>5 DEF CancelRequest, Cancel
  <2>2. \A q \in Requests : q # r => RowStands(q)
    BY <2>1, <1>type DEF Cancel, LedgerTypeOK, RowStands
  <2>3. CASE status[r] = "running"
    BY <2>1, <2>2, <2>3 DEF Cancel, RowMove, RowStands
  <2>4. CASE status[r] # "running"
    <3>1. /\ status[r] \in Owned \union {"queued"}
          /\ status'[r] = "canceled" /\ lease'[r] = "none" /\ runOf' = runOf
      BY <2>1, <2>4, <1>type DEF Cancel, Active, ActiveStatus, InFlight, Owned, LedgerTypeOK
    <3> QED
      BY <2>2, <3>1 DEF RowMove, TerminalStatus
  <2> QED
    BY <2>3, <2>4
\* Only the lease of a request nobody serves runs out: the lease of a linked one
\* is renewed, and a worker in its session is linked or canceled.
<1>6. ASSUME NEW r \in Requests, RequestLeaseLapses(r) PROVE \A q \in Requests : RowMove(q)
  <2>1. /\ lease[r] = "live" /\ lease'[r] = "expired"
        /\ UNCHANGED <<status, claimedBy, runOf>>
        /\ \A q \in Requests : q # r => RowStands(q)
    BY <1>6, <1>type DEF RequestLeaseLapses, LeaseLapses, LedgerTypeOK, RowStands
  <2>2. ASSUME NEW s \in Slots, Serves(s, r) PROVE FALSE
    <3>1. /\ InSession(s) /\ runOf[r] = NoRun
      BY <1>6, <2>2 DEF RequestLeaseLapses, Orderly
    <3>2. tchild[s] \in Runs /\ creq[tchild[s]] = r
      BY <2>2, <3>1 DEF InSession, Serves, BackingInv, TaskChildren, Watching
    <3>3. status[r] \in InFlight
      BY <2>1 DEF LedgerInv, ColumnsAgree
    <3>4. runOf[r] = tchild[s] \/ status[r] = "canceled"
      BY <3>1, <3>2 DEF InSession, BackingInv, ChildRows, NotLinked, Backed, Driving
    <3> QED
      BY <3>1, <3>2, <3>3, <3>4 DEF InFlight
  <2> QED
    BY <2>1, <2>2 DEF RowMove, Unserved
<1>7. ASSUME UNCHANGED queueVars PROVE \A q \in Requests : RowMove(q)
  BY <1>7 DEF queueVars, ledgerVars, RowMove, RowStands
<1>8. \A q \in Requests : RowMove(q)
  BY <1>4, <1>5, <1>6, <1>7 DEF EnvironmentNext, PhoneLockLapses
<1> QED
  BY <1>1, <1>2, <1>3, <1>8, QuietBacking DEF childVars, taskVars, mainVars

-----------------------------------------------------------------------------
(* The invariant, and what it says of the workers.                         *)

LEMMA BackingInit == Init => BackingInv
  BY LedgerAssumption
  DEF Init, LedgerInit, ChildInit, BackingInv, OneServer, ServedRows, TaskChildren, OwnedByMe,
      IdleUnlessServing, Survivors, OneChild, ChildRows, NotLinked, LinkedRuns, OrphanRow, Busy, BeforeLaunch,
      Watching, AfterExit, Live, Driving, InFlight

LEMMA BackingStep ==
  ASSUME Orderly, ControlInv, LedgerInv, BackingInv, [Next]_vars
  PROVE  BackingInv'
<1>1. ASSUME NEW s \in Slots, TaskStep(s) PROVE BackingInv'
  BY <1>1, TaskBacking
<1>2. ASSUME DispatcherNext, \A s \in Slots : ~TaskStep(s) PROVE BackingInv'
  BY <1>2, MainBacking
<1>3. CASE ChildrenNext
  BY <1>3, ChildBacking DEF ChildrenNext
<1>4. CASE EnvironmentNext
  BY <1>4, EnvironmentBacking
<1>5. CASE UNCHANGED vars
  BY <1>5 DEF vars, queueVars, ledgerVars, runVars, childVars, taskVars, mainVars,
     BackingInv, OneServer, ServedRows, TaskChildren, OwnedByMe, IdleUnlessServing, Survivors,
     OneChild, ChildRows, NotLinked, LinkedRuns, OrphanRow, Busy, Live, Driving, Active, Attended, Backed
<1> QED
  BY <1>1, <1>2, <1>3, <1>4, <1>5 DEF Next

\* The inductive invariant of the plane under orderly settings.
THEOREM BackingInvariant == Orderly => (Spec => []BackingInv)
<1> SUFFICES ASSUME Orderly PROVE Spec => []BackingInv
  OBVIOUS
<1>1. ControlInv /\ LedgerInv /\ BackingInv /\ [Next]_vars => BackingInv'
  BY BackingStep
<1> QED
  BY <1>1, BackingInit, ControlInvariant, RunControlLedger, PTL DEF Spec

\* A worker that drives a phone is the one its running request is linked to,
\* and its run is active: none of cancel, watchdog, reclaim, sweep, orphan
\* recovery and finalization takes the rows from under a worker at work.
THEOREM DriverIsBacked == Orderly => (Spec => []DriverBacked)
<1> SUFFICES ASSUME Orderly PROVE Spec => []DriverBacked
  OBVIOUS
<1>1. BackingInv => DriverBacked
  BY DEF BackingInv, ChildRows, NotLinked, Backed, DriverBacked
<1> QED
  BY <1>1, BackingInvariant, PTL

LEMMA WritersLook ==
  ASSUME Orderly, ControlInv, BackingInv, [Next]_vars, NEW g \in Runs, igStatus[g] \in RunTerminal
  PROVE  igStatus'[g] = igStatus[g]
<1>type. LedgerTypeOK
  BY ControlInvSplit
<1>0. igStatus[g] \notin {"absent", "running"}
  BY DEF RunTerminal
<1>patch. ASSUME NEW h, NEW s, PatchRun(h, s), igStatus[h] = "running" \/ h # g
          PROVE  igStatus'[g] = igStatus[g]
  BY <1>0, <1>patch, <1>type DEF PatchRun, LedgerTypeOK
<1>same. ASSUME UNCHANGED queueVars PROVE igStatus'[g] = igStatus[g]
  BY <1>same DEF queueVars, runVars
<1>rows. ASSUME NEW r \in Requests, NEW s, TryComplete(Me, r, s) PROVE igStatus'[g] = igStatus[g]
  BY <1>rows DEF TryComplete, Complete, queueVars, runVars
<1>1. ASSUME NEW h \in Runs, ChildStep(h) PROVE igStatus'[g] = igStatus[g]
  <2>0. /\ cpc[h] = "link" => igStatus[h] = "running"
        /\ cpc[h] = "cleanup" => igStatus[h] = "running"
        /\ cpc[h] # "none" => creq[h] \in Requests
    BY DEF BackingInv, ChildRows, NotLinked, Driving, Backed, ControlInv, ChildrenServe
  <2>1. CASE ChildCreateRun(h)
    BY <2>1, <1>0, <1>type DEF ChildCreateRun, InsertRun, LedgerTypeOK
  <2>2. CASE ChildLink(h) \/ ChildLinkFails(h)
    BY <2>0, <2>2, <1>patch, <1>same
    DEF ChildLink, ChildLinkFails, LinkMissed, Link, runVars
  <2>3. CASE ChildPublish(h)
    BY <2>0, <2>3, <1>patch, <1>same DEF ChildPublish
  <2>4. CASE ChildUnlinked(h) \/ ChildGate(h) \/ ChildClose(h)
    BY <2>0, <2>4, <1>same, <1>rows DEF ChildUnlinked, ChildGate, ChildAborts, ChildClose
  <2> QED
    BY <1>1, <1>same, <2>1, <2>2, <2>3, <2>4
    DEF ChildStep, ChildProceeds, ChildFails, ChildBail, ChildSetupFails, ChildStopped,
        ChildEndWork, ChildCreateRunFails, ChildGateFails, ChildPublishFails, ChildCloseFails,
        ChildDies
<1>2. ASSUME NEW s \in Slots, TaskStep(s) PROVE igStatus'[g] = igStatus[g]
  <2>0. Busy(s) => treq[s] \in Requests
    BY DEF ControlInv, TasksServe
  <2>1. CASE TaskReconciles(s)
    BY <2>1, <1>patch, <1>same DEF TaskReconciles
  <2>2. CASE TaskMarks(s)
    BY <2>2, <1>same DEF TaskMarks, MarkStarting, runVars
  <2>3. CASE TaskRefuses(s) \/ TaskRefusesResume(s) \/ TaskTakesLock(s) \/ TaskFinalizes(s)
    BY <2>0, <2>3, <1>same, <1>rows
    DEF TaskRefuses, TaskRefusesResume, TaskTakesLock, TaskFinalizes, Busy
  <2> QED
    BY <1>2, <1>same, <2>1, <2>2, <2>3
    DEF TaskStep, TaskProceeds, TaskTakesResumeLock, TaskLaunches, TaskSeesExit, TaskSeesCancel,
        TaskReleases, TaskTimesOut, TaskIsLost
<1>3. ASSUME DispatcherNext, \A s \in Slots : ~TaskStep(s) PROVE igStatus'[g] = igStatus[g]
  <2>1. ASSUME NEW r \in Requests, MainFindsOrphan(r) PROVE igStatus'[g] = igStatus[g]
    BY <2>1, <1>patch DEF MainFindsOrphan, IsOrphan
  <2>2. ASSUME NEW r \in Requests, MainSweepsTerminal(r) PROVE igStatus'[g] = igStatus[g]
    BY <2>2, <1>rows DEF MainSweepsTerminal
  <2>3. CASE MainClosesOrphan
    BY <2>3, <1>rows DEF MainClosesOrphan, ControlInv, MainServes
  <2> QED
    BY <1>3, <1>same, <2>1, <2>2, <2>3
    DEF DispatcherNext, MainProceeds, MainStarts, MainEndsOrphans, MainEndsTerminals,
        MainPreflight, MainDrained, MainStops, MainCrashes, MainReclaims, Reclaim, MainClaims, Claim,
        runVars
<1>4. CASE EnvironmentNext
  BY <1>4, <1>same
  DEF EnvironmentNext, Submit, CancelRequest, RequestLeaseLapses, PhoneLockLapses, Create, Cancel,
      LeaseLapses, runVars
<1>5. CASE UNCHANGED vars
  BY <1>5, <1>same DEF vars
<1> QED
  BY <1>1, <1>2, <1>3, <1>4, <1>5 DEF Next, ChildrenNext

\* Worker, dispatch task and orphan recovery all PATCH the run row by its id
\* alone, and yet the outcome of a run is written once.
THEOREM RunPublishedOnce == Orderly => (Spec => PublishedOnce)
<1> SUFFICES ASSUME Orderly PROVE Spec => PublishedOnce
  OBVIOUS
<1> DEFINE A == \A g \in Runs : igStatus[g] \in RunTerminal => igStatus'[g] = igStatus[g]
<1>1. ControlInv /\ BackingInv /\ [Next]_vars => [A]_vars
  BY WritersLook
<1> QED
  BY <1>1, BackingInvariant, ControlInvariant, PTL DEF Spec, PublishedOnce

-----------------------------------------------------------------------------
(* One driver per phone.                                                   *)

\* From its launch to the exit of the worker, a task holds the phone's lock,
\* unless Auto Restart issued the request: the answers to its transfer and its
\* renewal are not looked at.
LockHeld ==
    \A s \in Slots :
        tpc[s] \in {"launch", "release"} \union Watching /\ treq[s] \notin AutoRequests
          => holder[PhoneFor(treq[s])] = treq[s]

Contends(g) == Live(g) /\ Active(creq[g]) /\ creq[g] \notin AutoRequests

OneContender ==
    \A g, h \in Runs :
        Contends(g) /\ Contends(h) /\ PhoneFor(creq[g]) = PhoneFor(creq[h]) => g = h

PhoneInv == LockHeld /\ OneContender

LEMMA LockHeldStep ==
  ASSUME ControlInv, BackingInv, LockHeld, [Next]_vars
  PROVE  LockHeld'
<1> USE LedgerAssumption, ControlAssumption DEF Watching
<1>type. PlaneTypeOK /\ LedgerTypeOK
  BY ControlInvSplit
<1>serve. \A s \in Slots : Busy(s) => /\ treq[s] \in Requests
                                      /\ treq[s] # NoRequest
                                      /\ PhoneFor(treq[s]) \in Phones
  BY <1>type DEF PlaneTypeOK, TasksServe, PhoneFor
<1>alone. \A s, t \in Slots : Busy(s) /\ Busy(t) /\ treq[s] = treq[t] => s = t
  BY DEF BackingInv, OneServer
<1>held. ASSUME NEW s \in Slots, tpc[s] \in {"launch", "release"} \union Watching,
                treq[s] \notin AutoRequests
         PROVE  holder[PhoneFor(treq[s])] = treq[s] /\ Busy(s)
  BY <1>held DEF LockHeld, Busy
\* A step that leaves the locks alone and takes no task to its launch.
<1>quiet. ASSUME holder' = holder,
                 \A s \in Slots :
                     tpc'[s] \in {"launch", "release"} \union Watching =>
                         /\ treq'[s] = treq[s]
                         /\ tpc[s] \in {"launch", "release"} \union Watching
                              \/ treq[s] \in AutoRequests
          PROVE  LockHeld'
  BY <1>quiet DEF LockHeld, PhoneFor
<1>1. ASSUME NEW s \in Slots, TaskStep(s) PROVE LockHeld'
  <2> USE DEF TaskGoto, TaskEnds
  <2>1. CASE TaskTakesLock(s)
    <3>1. CASE TaskGoto(s, "launch")
      <4>1. /\ Busy(s) /\ treq' = treq /\ treq[s] \in Requests
            /\ tpc'[s] = "launch" /\ \A t \in Slots : t # s => tpc'[t] = tpc[t]
        BY <2>1, <3>1, <1>type, <1>serve DEF TaskTakesLock, Busy, PlaneTypeOK
      <4>2. CASE UNCHANGED holder /\ ~(Lock!CanTransfer(PhoneFor(treq[s]), treq[s])
                                       \/ Lock!CanAcquire(PhoneFor(treq[s])))
        BY <2>1, <3>1, <4>1, <4>2, <1>type DEF TaskTakesLock, PlaneTypeOK
      <4>3. CASE /\ holder[PhoneFor(treq[s])] \in {treq[s], NoRequest}
                 /\ holder' = [holder EXCEPT ![PhoneFor(treq[s])] = treq[s]]
        <5>1. PhoneFor(treq[s]) \in Phones
          BY <4>1, <1>serve
        <5>2. holder'[PhoneFor(treq[s])] = treq[s]
          BY <4>3, <5>1, <1>type DEF PlaneTypeOK
        <5>3. ASSUME NEW t \in Slots, t # s, treq[t] \notin AutoRequests,
                     tpc[t] \in {"launch", "release"} \union Watching
              PROVE  holder'[PhoneFor(treq[t])] = treq[t]
          <6>1. holder[PhoneFor(treq[t])] = treq[t] /\ Busy(t)
            BY <5>3, <1>held
          <6>2. treq[t] # treq[s] /\ treq[t] # NoRequest
            BY <4>1, <5>3, <6>1, <1>alone, <1>serve
          <6>3. PhoneFor(treq[t]) # PhoneFor(treq[s])
            BY <4>3, <6>1, <6>2
          <6> QED
            BY <4>3, <6>1, <6>3, <1>serve, <1>type DEF PlaneTypeOK
        <5> QED
          BY <4>1, <5>2, <5>3 DEF LockHeld, PhoneFor
      <4> QED
        BY <2>1, <3>1, <4>2, <4>3
        DEF TaskTakesLock, Lock!CanTransfer, Lock!CanAcquire, Lock!GrantTo
    <3>2. CASE TaskEnds(s) /\ UNCHANGED holder
      BY <3>2, <1>quiet, <1>type DEF PlaneTypeOK
    <3> QED
      BY <2>1, <3>1, <3>2 DEF TaskTakesLock
\* The exact holder only: nobody else's lock is released.
  <2>release. ASSUME Busy(s), Lock!Release(PhoneFor(treq[s]), treq[s]),
                     \A t \in Slots : t # s => tpc'[t] = tpc[t] /\ treq'[t] = treq[t],
                     tpc'[s] \in {"free", "finalize"}
              PROVE  LockHeld'
    <3>1. ASSUME NEW t \in Slots, t # s, treq[t] \notin AutoRequests,
                 tpc[t] \in {"launch", "release"} \union Watching
          PROVE  holder'[PhoneFor(treq[t])] = treq[t]
      <4>1. holder[PhoneFor(treq[t])] = treq[t] /\ treq[t] # treq[s]
        BY <2>release, <3>1, <1>held, <1>alone
      <4> QED
        BY <2>release, <3>1, <4>1, <1>held, <1>serve, <1>type DEF Lock!Release, PlaneTypeOK
    <3> QED
      BY <2>release, <3>1 DEF LockHeld, PhoneFor
  <2>2. CASE TaskRefusesResume(s) \/ TaskReleases(s)
    BY <2>2, <2>release, <1>type DEF TaskRefusesResume, TaskReleases, PlaneTypeOK, Busy
  <2>3. CASE TaskTakesResumeLock(s)
    BY <2>3, <1>quiet, <1>type DEF TaskTakesResumeLock, PlaneTypeOK
  <2>4. ASSUME NEW g \in Runs, TaskLaunches(s, g) PROVE LockHeld'
    BY <2>4, <1>quiet, <1>type DEF TaskLaunches, PlaneTypeOK
  <2>5. CASE \/ TaskMarks(s) \/ TaskSeesExit(s) \/ TaskSeesCancel(s) \/ TaskFinalizes(s)
             \/ TaskReconciles(s) \/ TaskRefuses(s) \/ TaskTimesOut(s) \/ TaskIsLost(s)
    BY <2>5, <1>quiet, <1>type
    DEF TaskMarks, TaskSeesExit, TaskSeesCancel, TaskFinalizes, TaskReconciles, TaskRefuses,
        TaskTimesOut, TaskIsLost, PlaneTypeOK
  <2> QED
    BY <1>1, <2>1, <2>2, <2>3, <2>4, <2>5 DEF TaskStep, TaskProceeds
<1>2. ASSUME NEW s \in Slots, NEW r \in Requests, MainClaims(s, r) PROVE LockHeld'
  <2>1. holder' = holder /\ tpc'[s] = "gates"
        /\ \A t \in Slots : t # s => tpc'[t] = tpc[t] /\ treq'[t] = treq[t]
    BY <1>2, <1>type DEF MainClaims, PlaneTypeOK
  <2> QED
    BY <2>1, <1>quiet
<1>3. CASE MainCrashes
  BY <1>3, <1>quiet DEF MainCrashes
<1>4. ASSUME UNCHANGED <<holder, taskVars>> PROVE LockHeld'
  BY <1>4, <1>quiet DEF taskVars
<1>5. ASSUME NEW r \in Requests, Submit(r) PROVE LockHeld'
  <2>1. CASE holder' = holder
    BY <1>5, <2>1, <1>quiet DEF Submit, taskVars
  <2>2. CASE /\ holder[PhoneFor(r)] = NoRequest
             /\ holder' = [holder EXCEPT ![PhoneFor(r)] = r]
    <3>1. ASSUME NEW t \in Slots, treq[t] \notin AutoRequests,
                 tpc[t] \in {"launch", "release"} \union Watching
          PROVE  holder'[PhoneFor(treq[t])] = treq[t]
      <4>1. PhoneFor(treq[t]) # PhoneFor(r)
        BY <2>2, <3>1, <1>held, <1>serve
      <4> QED
        BY <2>2, <3>1, <4>1, <1>held, <1>serve, <1>type DEF PlaneTypeOK
    <3> QED
      BY <1>5, <3>1 DEF Submit, taskVars, LockHeld, PhoneFor
  <2> QED
    BY <1>5, <2>1, <2>2 DEF Submit, Lock!CanAcquire, Lock!GrantTo
<1>6. ASSUME NEW d \in Phones, PhoneLockLapses(d) PROVE LockHeld'
  <2>1. ASSUME NEW t \in Slots, treq[t] \notin AutoRequests,
               tpc[t] \in {"launch", "release"} \union Watching
        PROVE  holder'[PhoneFor(treq[t])] = treq[t]
    <3>1. PhoneFor(treq[t]) # d
      BY <1>6, <2>1, <1>held DEF PhoneLockLapses, Serves
    <3> QED
      BY <1>6, <2>1, <3>1, <1>held, <1>serve, <1>type DEF PhoneLockLapses, Lock!Lapse, PlaneTypeOK
  <2> QED
    BY <1>6, <2>1 DEF PhoneLockLapses, taskVars, LockHeld, PhoneFor
<1>7. CASE DispatcherNext
  BY <1>7, <1>1, <1>2, <1>3, <1>4
  DEF DispatcherNext, MainProceeds, MainStarts, MainClosesOrphan, MainEndsOrphans,
      MainSweepsTerminal, MainEndsTerminals, MainPreflight, MainDrained, MainFindsOrphan,
      MainReclaims, MainStops
<1>8. CASE ChildrenNext
  BY <1>8, <1>4 DEF ChildrenNext
<1>9. CASE EnvironmentNext
  BY <1>9, <1>4, <1>5, <1>6 DEF EnvironmentNext, CancelRequest, RequestLeaseLapses
<1>10. CASE UNCHANGED vars
  BY <1>10, <1>4 DEF vars
<1> QED
  BY <1>7, <1>8, <1>9, <1>10 DEF Next

\* A live worker was live before, for the same request, or is launched.
LEMMA WorkersCome ==
  ASSUME Orderly, ControlInv, BackingInv, [Next]_vars, NEW g \in Runs, Live(g)'
  PROVE  \/ Live(g) /\ creq'[g] = creq[g]
         \/ \E s \in Slots : TaskLaunches(s, g)
<1>type. PlaneTypeOK
  BY ControlInvSplit
<1>same. ASSUME UNCHANGED <<cpc, creq>> PROVE Live(g) /\ creq'[g] = creq[g]
  BY <1>same DEF Live
<1>1. ASSUME NEW h \in Runs, ChildStep(h) PROVE Live(g) /\ creq'[g] = creq[g]
  BY <1>1, ChildMoves DEF ChildEffect, Live
<1>2. ASSUME NEW s \in Slots, TaskStep(s), ~TaskLaunches(s, g)
      PROVE  Live(g) /\ creq'[g] = creq[g]
  <2>1. ASSUME NEW h \in Runs, TaskLaunches(s, h) PROVE Live(g) /\ creq'[g] = creq[g]
    BY <1>2, <2>1, <1>type DEF TaskLaunches, SpawnChild, Live, PlaneTypeOK
  <2>2. CASE TaskSeesCancel(s) \/ TaskTimesOut(s)
    <3>1. Terminate(tchild[s]) /\ tchild[s] \in Runs /\ cpc[tchild[s]] # "none"
      BY <2>2, <1>type DEF TaskSeesCancel, TaskTimesOut, SignalChild, PlaneTypeOK, TasksServe
    <3> QED
      BY <3>1, <1>type, TerminateType DEF Live, Exited
  <2> QED
    BY <1>2, <1>same, <2>1, <2>2
    DEF TaskStep, TaskProceeds, TaskMarks, TaskTakesResumeLock, TaskTakesLock, TaskSeesExit,
        TaskReleases, TaskFinalizes, TaskReconciles, TaskRefuses, TaskRefusesResume, TaskIsLost,
        childVars
<1>3. ASSUME DispatcherNext, \A s \in Slots : ~TaskStep(s) PROVE Live(g) /\ creq'[g] = creq[g]
  <2>1. CASE MainCrashes
    BY <2>1 DEF MainCrashes, Live, Exited
  <2> QED
    BY <1>3, <1>same, <2>1
    DEF DispatcherNext, MainProceeds, MainStarts, MainClosesOrphan, MainEndsOrphans,
        MainSweepsTerminal, MainEndsTerminals, MainPreflight, MainDrained, MainFindsOrphan,
        MainReclaims, MainStops, MainClaims, childVars
<1>4. CASE EnvironmentNext
  BY <1>4, <1>same
  DEF EnvironmentNext, Submit, CancelRequest, RequestLeaseLapses, PhoneLockLapses, childVars
<1>5. CASE UNCHANGED vars
  BY <1>5, <1>same DEF vars, childVars
<1> QED
  BY <1>1, <1>2, <1>3, <1>4, <1>5 DEF Next, ChildrenNext

\* Only a new request becomes active, and it has no worker.
LEMMA ContendersCome ==
  ASSUME Orderly, ControlInv, LedgerInv, BackingInv, [Next]_vars, NEW g \in Runs, Contends(g)'
  PROVE  \/ Contends(g) /\ creq'[g] = creq[g]
         \/ \E s \in Slots : TaskLaunches(s, g)
<1> SUFFICES ASSUME ~\E s \in Slots : TaskLaunches(s, g)
             PROVE  Contends(g) /\ creq'[g] = creq[g]
  OBVIOUS
<1>1. Live(g) /\ creq'[g] = creq[g] /\ creq[g] \notin AutoRequests
  BY WorkersCome DEF Contends
<1>2. creq[g] \in Requests /\ status'[creq[g]] \in ActiveStatus
  BY <1>1, ControlInvSplit DEF PlaneTypeOK, ChildrenServe, Live, Contends, Active
<1>3. status[creq[g]] # "absent"
  <2>1. status[creq[g]] = "absent" => runOf[creq[g]] = NoRun
    BY <1>2 DEF LedgerInv, ColumnsAgree
  <2> QED
    BY <1>1, <2>1, ControlInvSplit, LedgerAssumption
    DEF BackingInv, ChildRows, NotLinked, Backed, Driving, Owned, Live, Exited, PlaneTypeOK
<1>4. status[creq[g]] \notin TerminalStatus
  BY <1>2, ControlLedgerStep, FinalOutcomeLemma
  DEF LedgerStep, FinalOutcomeStep, ActiveStatus, InFlight, TerminalStatus
<1> QED
  BY <1>1, <1>2, <1>3, <1>4 DEF Contends, Active, LedgerInv, LedgerTypeOK

\* The phone of a launch is the launching task's: a worker there would be
\* watched by a task that holds the same lock for the same request.
LEMMA LaunchIsAlone ==
  ASSUME ControlInv, BackingInv, LockHeld, NEW s \in Slots, NEW g \in Runs, TaskLaunches(s, g),
         treq[s] \notin AutoRequests, NEW h \in Runs, Contends(h)
  PROVE  PhoneFor(creq[h]) # PhoneFor(treq[s])
<1>1. Busy(s) /\ tpc[s] = "launch" /\ creq[h] # treq[s]
  BY DEF TaskLaunches, Busy, BackingInv, ServedRows, BeforeLaunch, Contends
<1>2. PICK t \in Slots : tpc[t] \in Watching /\ tchild[t] = h
  BY <1>1 DEF BackingInv, IdleUnlessServing, Survivors, Contends, Attended
<1>3. treq[t] = creq[h] /\ creq[h] \notin AutoRequests
  BY <1>2 DEF BackingInv, TaskChildren, Contends
<1> QED
  BY <1>1, <1>2, <1>3 DEF LockHeld

LEMMA OneContenderStep ==
  ASSUME Orderly, ControlInv, LedgerInv, BackingInv, PhoneInv, [Next]_vars
  PROVE  OneContender'
<1> SUFFICES ASSUME NEW g \in Runs, NEW h \in Runs, Contends(g)', Contends(h)',
                    PhoneFor(creq'[g]) = PhoneFor(creq'[h]), g # h
             PROVE  FALSE
  BY DEF OneContender, PhoneFor
<1>launch. ASSUME NEW s \in Slots, NEW k \in Runs, TaskLaunches(s, k)
           PROVE  /\ creq'[k] = treq[s] /\ cpc[k] = "none"
                  /\ \A j \in Runs : j # k => /\ creq'[j] = creq[j]
                                              /\ ~\E t \in Slots : TaskLaunches(t, j)
  BY <1>launch, ControlInvSplit DEF TaskLaunches, SpawnChild, PlaneTypeOK
<1>1. ASSUME NEW s \in Slots, NEW k \in {g, h}, TaskLaunches(s, k) PROVE FALSE
  <2>1. PICK j \in {g, h} : j # k
    OBVIOUS
  <2>2. Contends(j) /\ creq'[j] = creq[j]
    BY <1>1, <2>1, <1>launch, ContendersCome
  <2>3. treq[s] \notin AutoRequests /\ PhoneFor(creq[j]) = PhoneFor(treq[s])
    BY <1>1, <2>1, <2>2, <1>launch DEF Contends
  <2> QED
    BY <1>1, <2>1, <2>2, <2>3, LaunchIsAlone DEF PhoneInv
<1>2. Contends(g) /\ creq'[g] = creq[g] /\ Contends(h) /\ creq'[h] = creq[h]
  BY <1>1, ContendersCome
<1> QED
  BY <1>2 DEF PhoneInv, OneContender

\* Two workers for requests that Auto Restart did not issue never drive the
\* same phone, whatever Auto Restart does beside them.
OneLockedDriverPerPhone ==
    \A g, h \in Runs :
        /\ Driving(g) /\ Driving(h)
        /\ creq[g] \notin AutoRequests /\ creq[h] \notin AutoRequests
        /\ PhoneFor(creq[g]) = PhoneFor(creq[h])
        => g = h

\* The locks of the phones, and who contends for them, under orderly settings.
THEOREM PhoneInvariant == Orderly => (Spec => []PhoneInv)
<1> SUFFICES ASSUME Orderly PROVE Spec => []PhoneInv
  OBVIOUS
<1>1. Init => PhoneInv
  BY DEF Init, ChildInit, PhoneInv, LockHeld, OneContender, Contends, Live, Watching
<1>2. ControlInv /\ LedgerInv /\ BackingInv /\ PhoneInv /\ [Next]_vars => PhoneInv'
  BY LockHeldStep, OneContenderStep DEF PhoneInv
<1> QED
  BY <1>1, <1>2, BackingInvariant, ControlInvariant, RunControlLedger, PTL DEF Spec

\* Workers whose tasks take the phone's lock and look at the answer drive it
\* one at a time, across crashes, orphans and workers that outlive their
\* dispatcher.
THEOREM LockedDriverAlone == Orderly => (Spec => []OneLockedDriverPerPhone)
<1> SUFFICES ASSUME Orderly PROVE Spec => []OneLockedDriverPerPhone
  OBVIOUS
<1>1. BackingInv /\ PhoneInv => OneLockedDriverPerPhone
  BY DEF BackingInv, ChildRows, NotLinked, Backed, PhoneInv, OneContender, Contends, Driving, Live, Exited,
         Active, ActiveStatus, InFlight, OneLockedDriverPerPhone
<1> QED
  BY <1>1, BackingInvariant, PhoneInvariant, PTL

\* Without resumes by Auto Restart, no phone ever has two drivers.
THEOREM DriverAlone == Orderly /\ AutoRequests = {} => (Spec => []OneDriverPerPhone)
<1> SUFFICES ASSUME Orderly, AutoRequests = {} PROVE Spec => []OneDriverPerPhone
  OBVIOUS
<1>1. OneLockedDriverPerPhone => OneDriverPerPhone
  BY DEF OneLockedDriverPerPhone, OneDriverPerPhone
<1> QED
  BY <1>1, LockedDriverAlone, PTL
=============================================================================
