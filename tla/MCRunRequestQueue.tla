------------------------- MODULE MCRunRequestQueue -------------------------
(***************************************************************************)
(* An instance of the ledger: two accounts, one of which issues a normal   *)
(* request and a login request, two workers of which one refuses logins,   *)
(* and runs that any caller may insert, link or patch.                     *)
(***************************************************************************)
EXTENDS RunRequestQueue, TLC

CONSTANTS a1, a2, r1, r2, r3, w1, w2, g1, g2

MCAccountOf == r1 :> a1 @@ r2 :> a1 @@ r3 :> a2
MCPriority == r1 :> 0 @@ r2 :> 1 @@ r3 :> 0
MCAllowedFor == w1 :> {r1, r3} @@ w2 :> {r1, r2, r3}
=============================================================================
