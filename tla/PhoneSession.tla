---------------------------- MODULE PhoneSession ----------------------------
(***************************************************************************)
(* What the Run Control plane promises of a phone, without dispatchers,    *)
(* leases, signals or SQL.  A run is assigned a request, may enter the     *)
(* phone of the request when nobody else is on it, and leaves it for good. *)
(* A run is closed and a request is answered once, and only when they have *)
(* nobody on the phone.  A run is closed as completed only on leaving the  *)
(* phone, and a request answered as completed only after a run of its own  *)
(* was.                                                                    *)
(***************************************************************************)
CONSTANTS Requests, Runs, NoRequest,
          Outcomes,  \* of runs and of requests; a missing one is "open"
          Phone      \* the phone of each request

VARIABLES
    place,    \* of a run: before, on or over, by the phone
    serves,   \* the request of a run
    result,   \* of a run
    answer    \* of a request

sessionVars == <<place, serves, result, answer>>

Init ==
    /\ place = [g \in Runs |-> "before"]
    /\ serves = [g \in Runs |-> NoRequest]
    /\ result = [g \in Runs |-> "open"]
    /\ answer = [r \in Requests |-> "open"]

Assign(g, r) ==
    /\ place[g] = "before"
    /\ serves[g] = NoRequest
    /\ serves' = [serves EXCEPT ![g] = r]
    /\ UNCHANGED <<place, result, answer>>

Enter(g) ==
    /\ place[g] = "before"
    /\ serves[g] \in Requests
    /\ result[g] = "open"
    /\ answer[serves[g]] = "open"
    /\ \A h \in Runs : place[h] = "on" => Phone[serves[h]] # Phone[serves[g]]
    /\ place' = [place EXCEPT ![g] = "on"]
    /\ UNCHANGED <<serves, result, answer>>

\* One run ends, or many at once with the dispatcher they belong to.
Leave(S) ==
    /\ place' = [g \in Runs |-> IF g \in S THEN "over" ELSE place[g]]
    /\ UNCHANGED <<serves, result, answer>>

MayLeave(g) == place' \in {place, [place EXCEPT ![g] = "over"]}

Close(g, v) ==
    /\ result[g] = "open"
    /\ v = "completed" => place[g] = "on"
    /\ MayLeave(g)
    /\ place'[g] # "on"
    /\ result' = [result EXCEPT ![g] = v]
    /\ UNCHANGED <<serves, answer>>

Answer(r, v) ==
    /\ answer[r] = "open"
    /\ v = "completed" => \E g \in Runs : serves[g] = r /\ result[g] = "completed"
    /\ \A g \in Runs : serves[g] = r => place[g] # "on"
    /\ place' = place \/ \E g \in Runs : serves[g] = r /\ MayLeave(g)
    /\ answer' = [answer EXCEPT ![r] = v]
    /\ UNCHANGED <<serves, result>>

Next ==
    \/ \E g \in Runs :
         \/ \E r \in Requests : Assign(g, r)
         \/ Enter(g)
         \/ \E v \in Outcomes : Close(g, v)
    \/ \E S \in SUBSET Runs : Leave(S)
    \/ \E r \in Requests, v \in Outcomes : Answer(r, v)

Spec == Init /\ [][Next]_sessionVars
=============================================================================
