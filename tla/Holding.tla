------------------------------ MODULE Holding -------------------------------
(***************************************************************************)
(* What a durable substrate promises (datarail_core::Substrate, read with  *)
(* its at-least-once users): once it holds a cofre it keeps handing it out *)
(* until the receiver asks for its acknowledgement, across every crash.    *)
(* Cofres it has not yet made durable are not held.  The promise ends      *)
(* when the storage under it has failed.                                   *)
(***************************************************************************)
CONSTANT Cofres

VARIABLES
    held,       \* cofres the substrate answers for
    handed,     \* cofres it has given to the receiver
    failed      \* whether its storage has failed

holdingVars == <<held, handed, failed>>

HoldInit ==
    /\ held = {} /\ handed = {}
    /\ failed = FALSE

\* One or more cofres become durable.
Take(cs) ==
    /\ cs # {}
    /\ held' = held \cup cs
    /\ UNCHANGED <<handed, failed>>

\* recv, also of a cofre that is not durable yet.
Hand(c) ==
    /\ handed' = handed \cup {c}
    /\ UNCHANGED <<held, failed>>

\* ack: only what the receiver was given.
Release(c) ==
    /\ c \in handed
    /\ held' = held \ {c}
    /\ UNCHANGED <<handed, failed>>

Fail == failed' = TRUE

HoldNext ==
    \/ \E cs \in SUBSET Cofres : Take(cs)
    \/ \E c \in Cofres : Hand(c) \/ Release(c)
    \/ Fail

\* Steps of a failed substrate are not constrained.
HoldSpec == HoldInit /\ [][failed \/ HoldNext]_holdingVars
=============================================================================
