-------------------------- MODULE ProvisioningLock --------------------------
(***************************************************************************)
(* What create_collection promises (spec sections 3, 4.3 and 8), with the  *)
(* collection left out: a mutual-exclusion lock around a check-then-set of *)
(* the existence-cache key.  At most one caller holds the lock, and the    *)
(* key is set only by the holder, only when the key is absent.  The key    *)
(* may expire at any time.                                                 *)
(***************************************************************************)
CONSTANTS
    Procs,   \* callers of create_collection
    Free     \* the lock is held by no caller

VARIABLES
    holder,  \* the caller holding the lock, or Free
    cached   \* the existence-cache key is present

vars == <<holder, cached>>

Init ==
    /\ holder = Free
    /\ cached = FALSE

Acquire(p) ==
    /\ holder = Free
    /\ holder' = p
    /\ UNCHANGED cached

\* The holder finds the key absent, provisions, and sets the key.
Provision(p) ==
    /\ holder = p
    /\ ~cached
    /\ cached' = TRUE
    /\ UNCHANGED holder

Release(p) ==
    /\ holder = p
    /\ holder' = Free
    /\ UNCHANGED cached

Expire ==
    /\ cached
    /\ cached' = FALSE
    /\ UNCHANGED holder

Next ==
    \/ \E p \in Procs : Acquire(p) \/ Provision(p) \/ Release(p)
    \/ Expire

Spec == Init /\ [][Next]_vars
=============================================================================
