----------------------- MODULE RunRequestQueue_proofs -----------------------
(***************************************************************************)
(* What the Run Control ledger guarantees for every set of accounts,       *)
(* requests, runs and workers: its column and slot invariants, that an     *)
(* outcome is written once, and that it implements AccountSlot.            *)
(*                                                                         *)
(* OneActivePerAccount and CancelDecides are not inductive alone: they     *)
(* need the column shapes, so the four are proved together as LedgerInv.   *)
(***************************************************************************)
EXTENDS RunRequestQueue, TLAPS

LedgerInv ==
    /\ LedgerTypeOK
    /\ ColumnsAgree
    /\ OneActivePerAccount
    /\ CancelDecides

(***************************************************************************)
(* The steps of the SQL functions with any outcome the CHECK constraints   *)
(* allow.  LedgerNext takes its outcomes from the constants; the processes *)
(* of RunControl compute theirs.  The lemmas are about this wider relation *)
(* and so serve both.                                                      *)
(***************************************************************************)
AnyLedgerNext ==
    \/ \E r \in Requests : Create(r) \/ Cancel(r) \/ LeaseLapses(r)
    \/ Reclaim
    \/ \E w \in Workers, r \in Requests :
         \/ Claim(w, r)
         \/ MarkStarting(w, r)
         \/ \E s \in TerminalStatus : Complete(w, r, s)
         \/ \E run \in Runs : Link(w, r, run) \/ Renew(w, r, run)
    \/ \E run \in Runs, a \in Accounts : InsertRun(run, a)
    \/ \E run \in Runs, s \in RunTerminal : PatchRun(run, s)

LEMMA LedgerNextIsAny == LedgerNext => AnyLedgerNext
  BY LedgerAssumption DEF LedgerNext, AnyLedgerNext

LEMMA LedgerInitInv == LedgerInit => LedgerInv
  BY LedgerAssumption
  DEF LedgerInit, LedgerInv, LedgerTypeOK, ColumnsAgree, OneActivePerAccount, CancelDecides,
      InFlight, Active, ActiveStatus, TerminalStatus, RunTerminal

\* The rows a step does not touch keep their columns.
SameRow(r) ==
    /\ status'[r] = status[r]
    /\ claimedBy'[r] = claimedBy[r]
    /\ lease'[r] = lease[r]
    /\ cancelAsked'[r] = cancelAsked[r]
    /\ runOf'[r] = runOf[r]

\* A step that touches one row, leaves it in a legal shape and brings no
\* request into its account's slot keeps the invariant.
LEMMA OneRowStep ==
  ASSUME LedgerInv, LedgerTypeOK',
         NEW r \in Requests,
         \A q \in Requests \ {r} : SameRow(q),
         Active(r)' => Active(r) \/ \A q \in Requests : Active(q) => AccountOf[q] # AccountOf[r],
         status'[r] \in InFlight <=> lease'[r] # "none",
         status'[r] \in InFlight => claimedBy'[r] # NoWorker,
         status'[r] \in {"absent", "queued"} => claimedBy'[r] = NoWorker /\ runOf'[r] = NoRun,
         status'[r] \in {"claimed", "starting"} => runOf'[r] = NoRun,
         status'[r] = "running" => runOf'[r] # NoRun,
         cancelAsked'[r] => status'[r] \in {"running"} \union TerminalStatus
  PROVE  LedgerInv'
<1>1. ColumnsAgree'
  BY DEF ColumnsAgree, LedgerInv, SameRow, InFlight
<1>2. OneActivePerAccount'
  BY DEF OneActivePerAccount, LedgerInv, SameRow, Active
<1>3. CancelDecides'
  BY DEF CancelDecides, LedgerInv, SameRow
<1> QED
  BY <1>1, <1>2, <1>3 DEF LedgerInv

-----------------------------------------------------------------------------
(* Types.                                                                  *)

\* What reclaim makes of the columns it writes has their types.
LEMMA ReclaimedType ==
  ASSUME LedgerTypeOK
  PROVE  /\ ReclaimedStatus \in [Requests -> {"absent"} \union ActiveStatus
                                             \union TerminalStatus]
         /\ ReclaimedOwner \in [Requests -> Workers \union {NoWorker}]
         /\ ReclaimedLease \in [Requests -> {"none", "live", "expired"}]
  BY DEF LedgerTypeOK, ReclaimedStatus, ReclaimedOwner, ReclaimedLease, ActiveStatus,
         InFlight, TerminalStatus

LEMMA LedgerTypeStep == LedgerTypeOK /\ [AnyLedgerNext]_queueVars => LedgerTypeOK'
<1> SUFFICES ASSUME LedgerTypeOK, [AnyLedgerNext]_queueVars PROVE LedgerTypeOK'
  OBVIOUS
<1> USE LedgerAssumption DEF LedgerTypeOK, ActiveStatus, InFlight, TerminalStatus, runVars
<1>1. ASSUME NEW r \in Requests, Create(r) PROVE LedgerTypeOK'
  BY <1>1 DEF Create
<1>2. ASSUME NEW r \in Requests, Cancel(r) PROVE LedgerTypeOK'
  BY <1>2 DEF Cancel
<1>3. ASSUME NEW r \in Requests, LeaseLapses(r) PROVE LedgerTypeOK'
  BY <1>3 DEF LeaseLapses
<1>4. CASE Reclaim
  BY <1>4, ReclaimedType DEF Reclaim
<1>5. ASSUME NEW w \in Workers, NEW r \in Requests, Claim(w, r) PROVE LedgerTypeOK'
  BY <1>5, ReclaimedType DEF Claim
<1>6. ASSUME NEW w \in Workers, NEW r \in Requests, MarkStarting(w, r) PROVE LedgerTypeOK'
  BY <1>6 DEF MarkStarting
<1>7. ASSUME NEW w \in Workers, NEW r \in Requests, NEW s \in TerminalStatus, Complete(w, r, s)
      PROVE  LedgerTypeOK'
  BY <1>7 DEF Complete
<1>8. ASSUME NEW w \in Workers, NEW r \in Requests, NEW run \in Runs, Link(w, r, run)
      PROVE  LedgerTypeOK'
  BY <1>8 DEF Link
<1>9. ASSUME NEW w \in Workers, NEW r \in Requests, NEW run \in Runs, Renew(w, r, run)
      PROVE  LedgerTypeOK'
  BY <1>9 DEF Renew
<1>10. ASSUME NEW run \in Runs, NEW a \in Accounts, InsertRun(run, a) PROVE LedgerTypeOK'
  BY <1>10 DEF InsertRun, ledgerVars
<1>11. ASSUME NEW run \in Runs, NEW s \in RunTerminal, PatchRun(run, s) PROVE LedgerTypeOK'
  BY <1>11 DEF PatchRun, ledgerVars
<1>12. CASE UNCHANGED queueVars
  BY <1>12 DEF queueVars, ledgerVars
<1> QED
  BY <1>1, <1>2, <1>3, <1>4, <1>5, <1>6, <1>7, <1>8, <1>9, <1>10, <1>11, <1>12
  DEF AnyLedgerNext

-----------------------------------------------------------------------------
(* The invariant.                                                          *)

\* A reclaim only moves rows that are unlinked, not canceled and already in
\* their account's slot, so the invariant holds of its result.
LEMMA ReclaimKeepsInv ==
  ASSUME LedgerInv, LedgerTypeOK', Reclaim
  PROVE  LedgerInv'
<1> USE DEF LedgerInv, LedgerTypeOK, Reclaim, ReclaimedStatus, ReclaimedOwner,
            ReclaimedLease, StaleClaim, StaleRunning
<1>1. ColumnsAgree'
  BY DEF ColumnsAgree, InFlight
<1>2. \A r \in Requests : Active(r)' => Active(r)
  BY DEF Active, ActiveStatus, InFlight
<1>3. OneActivePerAccount'
  BY <1>2 DEF OneActivePerAccount
<1>4. CancelDecides'
  BY DEF CancelDecides, TerminalStatus
<1> QED
  BY <1>1, <1>3, <1>4

LEMMA ClaimKeepsInv ==
  ASSUME LedgerInv, LedgerTypeOK', NEW w \in Workers, NEW r \in Requests, Claim(w, r)
  PROVE  LedgerInv'
<1> USE LedgerAssumption
    DEF LedgerInv, LedgerTypeOK, Claim, Claimable, ReclaimedStatus, ReclaimedOwner,
        ReclaimedLease, StaleClaim, StaleRunning
<1>1. ColumnsAgree'
  BY DEF ColumnsAgree, InFlight
<1>2. \A q \in Requests : Active(q)' => Active(q)
  BY DEF Active, ActiveStatus, InFlight
<1>3. OneActivePerAccount'
  BY <1>2 DEF OneActivePerAccount
<1>4. CancelDecides'
  BY DEF CancelDecides, TerminalStatus
<1> QED
  BY <1>1, <1>3, <1>4

LEMMA LedgerInvStep == LedgerInv /\ [AnyLedgerNext]_queueVars => LedgerInv'
<1> SUFFICES ASSUME LedgerInv, [AnyLedgerNext]_queueVars PROVE LedgerInv'
  OBVIOUS
<1>type. LedgerTypeOK /\ LedgerTypeOK'
  BY LedgerTypeStep DEF LedgerInv
<1> USE <1>type, LedgerAssumption
    DEF LedgerTypeOK, SameRow, Active, ActiveStatus, InFlight, TerminalStatus
<1>1. ASSUME NEW r \in Requests, Create(r) PROVE LedgerInv'
  <2>1. /\ status'[r] = "queued" /\ lease'[r] = "none" /\ claimedBy'[r] = NoWorker
        /\ runOf'[r] = NoRun /\ ~cancelAsked'[r]
    BY <1>1 DEF Create, LedgerInv, ColumnsAgree, CancelDecides
  <2>2. \A q \in Requests \ {r} : SameRow(q)
    BY <1>1 DEF Create
  <2>3. \A q \in Requests : Active(q) => AccountOf[q] # AccountOf[r]
    BY <1>1 DEF Create
  <2> QED
    BY <2>1, <2>2, <2>3, OneRowStep
<1>2. ASSUME NEW r \in Requests, Cancel(r) PROVE LedgerInv'
  <2>1. CASE status[r] = "running"
    <3>1. /\ status'[r] = "running" /\ lease'[r] = lease[r]
          /\ claimedBy'[r] = claimedBy[r] /\ runOf'[r] = runOf[r]
      BY <1>2, <2>1 DEF Cancel
    <3>2. \A q \in Requests \ {r} : SameRow(q)
      BY <1>2, <2>1 DEF Cancel
    <3> QED
      BY <2>1, <3>1, <3>2, OneRowStep DEF LedgerInv, ColumnsAgree
  <2>2. CASE status[r] # "running"
    <3>1. /\ status'[r] = "canceled"
          /\ lease'[r] = "none"
          /\ runOf'[r] = runOf[r]
      BY <1>2, <2>2 DEF Cancel
    <3>2. \A q \in Requests \ {r} : SameRow(q)
      BY <1>2, <2>2 DEF Cancel
    <3> QED
      BY <3>1, <3>2, OneRowStep DEF LedgerInv
  <2> QED
    BY <2>1, <2>2
<1>3. ASSUME NEW r \in Requests, LeaseLapses(r) PROVE LedgerInv'
  BY <1>3, OneRowStep DEF LeaseLapses, LedgerInv, ColumnsAgree, CancelDecides
<1>4. CASE Reclaim
  BY <1>4, ReclaimKeepsInv
<1>5. ASSUME NEW w \in Workers, NEW r \in Requests, Claim(w, r) PROVE LedgerInv'
  BY <1>5, ClaimKeepsInv
<1>6. ASSUME NEW w \in Workers, NEW r \in Requests, MarkStarting(w, r) PROVE LedgerInv'
  BY <1>6, OneRowStep DEF MarkStarting, CanMarkStarting, LedgerInv, ColumnsAgree, CancelDecides
<1>7. ASSUME NEW w \in Workers, NEW r \in Requests, NEW s \in TerminalStatus, Complete(w, r, s)
      PROVE  LedgerInv'
  BY <1>7, OneRowStep DEF Complete, CanComplete, LedgerInv, ColumnsAgree, CancelDecides
<1>8. ASSUME NEW w \in Workers, NEW r \in Requests, NEW run \in Runs, Link(w, r, run)
      PROVE  LedgerInv'
  BY <1>8, OneRowStep DEF Link, CanLink, LedgerInv, ColumnsAgree, CancelDecides
<1>9. ASSUME NEW w \in Workers, NEW r \in Requests, NEW run \in Runs, Renew(w, r, run)
      PROVE  LedgerInv'
  BY <1>9, OneRowStep DEF Renew, CanRenew, LedgerInv, ColumnsAgree, CancelDecides
<1>10. CASE UNCHANGED ledgerVars
  BY <1>10 DEF ledgerVars, LedgerInv, ColumnsAgree, OneActivePerAccount, CancelDecides
<1> QED
  BY <1>1, <1>2, <1>3, <1>4, <1>5, <1>6, <1>7, <1>8, <1>9, <1>10
  DEF AnyLedgerNext, InsertRun, PatchRun, queueVars

\* The four invariants of the ledger, for every value of its constants.
THEOREM LedgerInvariant == LedgerSpec => []LedgerInv
  BY LedgerInitInv, LedgerInvStep, LedgerNextIsAny, PTL DEF LedgerSpec

\* Every column of account_run_requests and ig_runs keeps its domain: no
\* caller can make a function write a status the CHECK constraint refuses.
THEOREM LedgerTypes == LedgerSpec => []LedgerTypeOK
<1>1. LedgerInv => LedgerTypeOK
  BY DEF LedgerInv
<1> QED
  BY <1>1, LedgerInvariant, PTL

\* Owner, lease and run columns fit the status of every row; the second
\* UPDATE of reclaim_stale_account_run_requests never finds a row.
THEOREM LedgerColumns == LedgerSpec => []ColumnsAgree
<1>1. LedgerInv => ColumnsAgree
  BY DEF LedgerInv
<1> QED
  BY <1>1, LedgerInvariant, PTL

\* An account never has two requests queued or in flight.
THEOREM LedgerOneActive == LedgerSpec => []OneActivePerAccount
<1>1. LedgerInv => OneActivePerAccount
  BY DEF LedgerInv
<1> QED
  BY <1>1, LedgerInvariant, PTL

\* A canceled request never waits, is never handed out or launched again.
THEOREM LedgerCancel == LedgerSpec => []CancelDecides
<1>1. LedgerInv => CancelDecides
  BY DEF LedgerInv
<1> QED
  BY <1>1, LedgerInvariant, PTL

-----------------------------------------------------------------------------
(* What a step may never do.                                               *)

LEMMA FinalOutcomeLemma == LedgerInv /\ [AnyLedgerNext]_queueVars => FinalOutcomeStep
<1> SUFFICES ASSUME LedgerInv, [AnyLedgerNext]_queueVars, NEW r \in Requests
             PROVE  /\ status[r] \in TerminalStatus => status'[r] = status[r]
                    /\ runOf[r] # NoRun => runOf'[r] = runOf[r]
  BY DEF FinalOutcomeStep
<1> USE DEF LedgerInv, LedgerTypeOK, TerminalStatus, InFlight, ActiveStatus, Active
<1>1. ASSUME NEW q \in Requests, Create(q) \/ Cancel(q) \/ LeaseLapses(q)
      PROVE  /\ status[r] \in TerminalStatus => status'[r] = status[r]
             /\ runOf'[r] = runOf[r]
  BY <1>1 DEF Create, Cancel, LeaseLapses
<1>2. CASE Reclaim
  BY <1>2 DEF Reclaim, ReclaimedStatus, StaleClaim, StaleRunning
<1>3. ASSUME NEW w \in Workers, NEW q \in Requests, Claim(w, q)
      PROVE  /\ status[r] \in TerminalStatus => status'[r] = status[r]
             /\ runOf'[r] = runOf[r]
  BY <1>3 DEF Claim, Claimable, ReclaimedStatus, StaleClaim, StaleRunning
<1>4. ASSUME NEW w \in Workers, NEW q \in Requests, NEW s \in TerminalStatus, Complete(w, q, s)
      PROVE  /\ status[r] \in TerminalStatus => status'[r] = status[r]
             /\ runOf'[r] = runOf[r]
  BY <1>4 DEF Complete, CanComplete
<1>5. ASSUME NEW w \in Workers, NEW q \in Requests, MarkStarting(w, q)
      PROVE  /\ status[r] \in TerminalStatus => status'[r] = status[r]
             /\ runOf'[r] = runOf[r]
  BY <1>5 DEF MarkStarting, CanMarkStarting
<1>6. ASSUME NEW w \in Workers, NEW q \in Requests, NEW run \in Runs, Link(w, q, run)
      PROVE  /\ status[r] \in TerminalStatus => status'[r] = status[r]
             /\ runOf[r] # NoRun => runOf'[r] = runOf[r]
  BY <1>6 DEF Link, CanLink, ColumnsAgree
<1>7. ASSUME NEW w \in Workers, NEW q \in Requests, NEW run \in Runs, Renew(w, q, run)
      PROVE  status' = status /\ runOf' = runOf
  BY <1>7 DEF Renew
<1>8. CASE UNCHANGED ledgerVars
  BY <1>8 DEF ledgerVars
<1> QED
  BY <1>1, <1>2, <1>3, <1>4, <1>5, <1>6, <1>7, <1>8
  DEF AnyLedgerNext, InsertRun, PatchRun, queueVars

\* An outcome is written once and a row never changes its run, whatever the
\* order of late completions, cancels, reclaims and links.
THEOREM LedgerFinalOutcome == LedgerSpec => FinalOutcome
<1>1. LedgerInv /\ [AnyLedgerNext]_queueVars => [FinalOutcomeStep]_queueVars
  BY FinalOutcomeLemma
<1> QED
  BY <1>1, LedgerInvariant, LedgerNextIsAny, PTL DEF LedgerSpec, FinalOutcome

-----------------------------------------------------------------------------
(* The ledger implements the account slot.                                 *)

SlotPhase == [r \in Requests |-> PhaseOf(status[r])]

LEMMA SlotPhaseValues ==
  ASSUME LedgerTypeOK, NEW r \in Requests
  PROVE  /\ SlotPhase[r] = "new" <=> status[r] = "absent"
         /\ SlotPhase[r] = "waiting" <=> status[r] = "queued"
         /\ SlotPhase[r] = "owned" <=> status[r] \in {"claimed", "starting"}
         /\ SlotPhase[r] = "bound" <=> status[r] = "running"
         /\ SlotPhase[r] = "settled" <=> status[r] \in TerminalStatus
         /\ SlotPhase[r] \in {"waiting", "owned", "bound"} <=> Active(r)
  BY DEF SlotPhase, LedgerTypeOK, PhaseOf, Active, ActiveStatus, InFlight, TerminalStatus

LEMMA SlotPhaseUpdate ==
  ASSUME LedgerTypeOK, NEW r \in Requests, NEW s, status' = [status EXCEPT ![r] = s]
  PROVE  SlotPhase' = [SlotPhase EXCEPT ![r] = PhaseOf(s)]
  BY DEF SlotPhase, LedgerTypeOK

LEMMA SlotInitial == LedgerInit => Slot!Init
  BY DEF LedgerInit, Slot!Init, PhaseOf

\* A reclaim hands back the requests of the owners that went silent; its second
\* UPDATE, which would settle a bound request, has no row.
LEMMA SlotReclaim == LedgerInv /\ LedgerTypeOK' /\ Reclaim => Slot!Next
<1> SUFFICES ASSUME LedgerInv, LedgerTypeOK', Reclaim PROVE Slot!Next
  OBVIOUS
<1> DEFINE S == {r \in Requests : StaleClaim(r)}
<1>1. \A r \in Requests : ~StaleRunning(r)
  BY DEF LedgerInv, ColumnsAgree, StaleRunning
<1>2. \A r \in S : SlotPhase[r] = "owned"
  BY SlotPhaseValues DEF LedgerInv, StaleClaim
<1>3. SlotPhase' = [r \in Requests |-> IF r \in S THEN "waiting" ELSE SlotPhase[r]]
  BY <1>1 DEF SlotPhase, Reclaim, ReclaimedStatus, PhaseOf
<1>4. UNCHANGED runOf
  BY DEF Reclaim
<1>5. Slot!HandBack(S)
  BY <1>2, <1>3, <1>4 DEF Slot!HandBack, SlotPhase
<1>6. S \in SUBSET Requests
  OBVIOUS
<1> QED
  BY <1>5, <1>6 DEF Slot!Next

LEMMA SlotClaim ==
  ASSUME LedgerInv, NEW w \in Workers, NEW r \in Requests, Claim(w, r)
  PROVE  Slot!Next
<1> DEFINE S == {q \in Requests : StaleClaim(q)}
<1>1. \A q \in Requests : ~StaleRunning(q)
  BY DEF LedgerInv, ColumnsAgree, StaleRunning
<1>2. \A q \in S : SlotPhase[q] = "owned"
  BY SlotPhaseValues DEF LedgerInv, StaleClaim
<1>3. SlotPhase[r] = "waiting" \/ r \in S
  BY <1>1, SlotPhaseValues DEF LedgerInv, Claim, Claimable, ReclaimedStatus
<1>4. SlotPhase' = [q \in Requests |-> IF q = r THEN "owned"
                                       ELSE IF q \in S THEN "waiting" ELSE SlotPhase[q]]
  <2>1. status' = [ReclaimedStatus EXCEPT ![r] = "claimed"]
    BY DEF Claim
  <2>2. \A q \in Requests : status'[q] = IF q = r THEN "claimed"
                                         ELSE IF q \in S THEN "queued" ELSE status[q]
    BY <1>1, <2>1 DEF ReclaimedStatus
  <2> QED
    BY <2>2 DEF SlotPhase, PhaseOf
<1>5. UNCHANGED runOf
  BY DEF Claim
<1>6. Slot!HandOut(S, r)
  BY <1>2, <1>3, <1>4, <1>5 DEF Slot!HandOut, SlotPhase
<1>7. S \in SUBSET Requests
  OBVIOUS
<1> QED
  BY <1>6, <1>7 DEF Slot!Next

LEMMA SlotStep == LedgerInv /\ LedgerTypeOK' /\ [AnyLedgerNext]_queueVars
                    => [Slot!Next]_(Slot!slotVars)
<1> SUFFICES ASSUME LedgerInv, LedgerTypeOK', [AnyLedgerNext]_queueVars
             PROVE  Slot!Next \/ UNCHANGED <<SlotPhase, runOf>>
  BY DEF Slot!slotVars, SlotPhase
<1>type. LedgerTypeOK
  BY DEF LedgerInv
<1>1. ASSUME NEW r \in Requests, Create(r) PROVE Slot!Submit(r)
  <2>1. SlotPhase' = [SlotPhase EXCEPT ![r] = "waiting"]
    BY <1>1, <1>type, SlotPhaseUpdate DEF Create, PhaseOf
  <2>2. SlotPhase[r] = "new"
    BY <1>1, <1>type, SlotPhaseValues DEF Create
  <2>3. \A q \in Requests : SlotPhase[q] \in {"waiting", "owned", "bound"}
                               => AccountOf[q] # AccountOf[r]
    BY <1>1, <1>type, SlotPhaseValues DEF Create
  <2> QED
    BY <1>1, <2>1, <2>2, <2>3
    DEF Create, Slot!Submit, Slot!SlotFree, Slot!InSlot, SlotPhase
<1>2. ASSUME NEW r \in Requests, Active(r), NEW s \in TerminalStatus,
             status' = [status EXCEPT ![r] = s], UNCHANGED runOf
      PROVE  Slot!Settle(r)
  <2>1. SlotPhase' = [SlotPhase EXCEPT ![r] = "settled"]
    BY <1>2, <1>type, SlotPhaseUpdate DEF PhaseOf, TerminalStatus
  <2>2. SlotPhase[r] \in {"waiting", "owned", "bound"}
    BY <1>2, <1>type, SlotPhaseValues
  <2> QED
    BY <1>2, <2>1, <2>2 DEF Slot!Settle, Slot!InSlot, SlotPhase
<1>3. ASSUME NEW w \in Workers, NEW r \in Requests, NEW run \in Runs, Link(w, r, run)
      PROVE  Slot!Bind(r, run)
  <2>1. SlotPhase' = [SlotPhase EXCEPT ![r] = "bound"]
    BY <1>3, <1>type, SlotPhaseUpdate DEF Link, PhaseOf
  <2>2. SlotPhase[r] = "owned"
    BY <1>3, <1>type, SlotPhaseValues DEF Link, CanLink
  <2> QED
    BY <1>3, <2>1, <2>2 DEF Link, Slot!Bind, SlotPhase
<1>4. ASSUME NEW w \in Workers, NEW r \in Requests, MarkStarting(w, r)
      PROVE  UNCHANGED <<SlotPhase, runOf>>
  <2>1. SlotPhase' = [SlotPhase EXCEPT ![r] = "owned"]
    BY <1>4, <1>type, SlotPhaseUpdate DEF MarkStarting, PhaseOf
  <2>2. SlotPhase[r] = "owned"
    BY <1>4, <1>type, SlotPhaseValues DEF MarkStarting, CanMarkStarting
  <2> QED
    BY <1>4, <2>1, <2>2 DEF MarkStarting, SlotPhase
<1>5. ASSUME NEW r \in Requests, Cancel(r) PROVE Slot!Next \/ UNCHANGED <<SlotPhase, runOf>>
  <2>1. CASE status[r] = "running"
    BY <1>5, <2>1 DEF Cancel, SlotPhase
  <2>2. CASE status[r] # "running"
    BY <1>2, <1>5, <2>2 DEF Cancel, TerminalStatus, Slot!Next
  <2> QED
    BY <2>1, <2>2
<1>6. ASSUME NEW w \in Workers, NEW r \in Requests, NEW s \in TerminalStatus, Complete(w, r, s)
      PROVE  Slot!Next
  <2>1. Active(r) /\ s \in TerminalStatus
    BY <1>6, LedgerAssumption DEF Complete, CanComplete, Active, ActiveStatus
  <2>2. Slot!Settle(r)
    BY <1>2, <1>6, <2>1 DEF Complete
  <2> QED
    BY <2>2 DEF Slot!Next
<1>7. ASSUME UNCHANGED <<status, runOf>> PROVE UNCHANGED <<SlotPhase, runOf>>
  BY <1>7 DEF SlotPhase
<1>8. CASE Reclaim
  BY <1>8, SlotReclaim
<1>9. ASSUME NEW w \in Workers, NEW r \in Requests, Claim(w, r) PROVE Slot!Next
  BY <1>9, SlotClaim
<1> QED
  BY <1>1, <1>3, <1>4, <1>5, <1>6, <1>7, <1>8, <1>9
  DEF AnyLedgerNext, LeaseLapses, Renew, InsertRun, PatchRun, ledgerVars, queueVars, Slot!Next

\* The ledger implements the account slot: every step of a SQL function is a
\* step of the slot or leaves it as it is.
THEOREM LedgerImplementsSlot == LedgerSpec => SlotPromise
<1>1. LedgerInv => LedgerTypeOK
  BY DEF LedgerInv
<1> QED
  BY <1>1, SlotInitial, SlotStep, LedgerInvariant, LedgerNextIsAny, PTL DEF LedgerSpec, SlotPromise, Slot!Spec
=============================================================================
