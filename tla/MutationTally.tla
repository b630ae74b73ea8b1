--------------------------- MODULE MutationTally ---------------------------
(***************************************************************************)
(* What the persistence of one account promises of its follows and of its  *)
(* unfollows: a user is counted only after the action took effect on the   *)
(* phone, once, and is never uncounted.                                    *)
(***************************************************************************)
CONSTANT Users

VARIABLES
    done,         \* the users for whom the action took effect on the phone
    tallied       \* the users recorded for it

tallyVars == <<done, tallied>>

TallyInit == done = {} /\ tallied = {}

Act(u) ==
    /\ u \notin done
    /\ done' = done \union {u}
    /\ UNCHANGED tallied

Tally(u) ==
    /\ u \in done \ tallied
    /\ tallied' = tallied \union {u}
    /\ UNCHANGED done

TallyNext == \E u \in Users : Act(u) \/ Tally(u)

TallySpec == TallyInit /\ [][TallyNext]_tallyVars
=============================================================================
