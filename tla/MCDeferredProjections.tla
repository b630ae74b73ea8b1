----------------------- MODULE MCDeferredProjections -----------------------
(***************************************************************************)
(* An instance of the deferred projections: a step and an action log.      *)
(***************************************************************************)
EXTENDS DeferredProjections

CONSTANTS s1, l1
=============================================================================
