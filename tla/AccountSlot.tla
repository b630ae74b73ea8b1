---------------------------- MODULE AccountSlot ----------------------------
(***************************************************************************)
(* What the Run Control ledger promises its callers, without leases,       *)
(* owners, priorities or SQL: every account has one slot.  A request       *)
(* enters it by waiting for it, is handed out, may be handed back as long  *)
(* as no run is bound to it, and leaves it by settling, for good.          *)
(***************************************************************************)
CONSTANTS Requests, Runs, Accounts, AccountOf, NoRun

VARIABLES
    phase,   \* new, waiting, owned, bound or settled
    bound    \* the run a request is bound to

slotVars == <<phase, bound>>

InSlot == {"waiting", "owned", "bound"}

SlotFree(a) == \A r \in Requests : phase[r] \in InSlot => AccountOf[r] # a

Init ==
    /\ phase = [r \in Requests |-> "new"]
    /\ bound = [r \in Requests |-> NoRun]

Submit(r) ==
    /\ phase[r] = "new"
    /\ SlotFree(AccountOf[r])
    /\ phase' = [phase EXCEPT ![r] = "waiting"]
    /\ UNCHANGED bound

\* The owners of the requests in S went silent.
HandBack(S) ==
    /\ \A r \in S : phase[r] = "owned"
    /\ phase' = [r \in Requests |-> IF r \in S THEN "waiting" ELSE phase[r]]
    /\ UNCHANGED bound

\* One request is handed out, after the silent owners lost theirs.
HandOut(S, r) ==
    /\ \A q \in S : phase[q] = "owned"
    /\ phase[r] = "waiting" \/ r \in S
    /\ phase' = [q \in Requests |-> IF q = r THEN "owned"
                                    ELSE IF q \in S THEN "waiting" ELSE phase[q]]
    /\ UNCHANGED bound

Bind(r, run) ==
    /\ phase[r] = "owned"
    /\ phase' = [phase EXCEPT ![r] = "bound"]
    /\ bound' = [bound EXCEPT ![r] = run]

Settle(r) ==
    /\ phase[r] \in InSlot
    /\ phase' = [phase EXCEPT ![r] = "settled"]
    /\ UNCHANGED bound

Next ==
    \/ \E r \in Requests :
         \/ Submit(r)
         \/ Settle(r)
         \/ \E run \in Runs : Bind(r, run)
         \/ \E S \in SUBSET Requests : HandOut(S, r)
    \/ \E S \in SUBSET Requests : HandBack(S)

Spec == Init /\ [][Next]_slotVars
=============================================================================
