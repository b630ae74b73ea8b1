---------------------------- MODULE DeviceLease ----------------------------
(***************************************************************************)
(* auto_restart_device_locks and its RPCs, as auto_restart_device_lock.py  *)
(* calls them.  Their SQL is not part of this repository: the module says  *)
(* what the callers rely on.  A phone has at most one holder, the request  *)
(* the lock is bound to; a lock whose lease ran out has none.              *)
(***************************************************************************)
CONSTANTS
    Phones,
    Holders,    \* what a lock can be bound to
    NoHolder

VARIABLE holder

LeaseInit == holder = [d \in Phones |-> NoHolder]

\* auto_restart_acquire_device_lock, bound to r: granted when the phone is free.
CanAcquire(d) == holder[d] = NoHolder

\* auto_restart_transfer_device_lock: granted for the request it is bound to.
CanTransfer(d, r) == holder[d] = r

GrantTo(d, r) == holder' = [holder EXCEPT ![d] = r]

\* auto_restart_release_device_lock: the exact holder only.
Release(d, r) ==
    holder' = [holder EXCEPT ![d] = IF @ = r THEN NoHolder ELSE @]

\* The lease runs out: nobody renewed it.
Lapse(d) ==
    /\ holder[d] # NoHolder
    /\ holder' = [holder EXCEPT ![d] = NoHolder]
=============================================================================
