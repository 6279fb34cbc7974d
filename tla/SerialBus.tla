------------------------------ MODULE SerialBus ------------------------------
(***************************************************************************)
(* What I2C_Lock and the checks before START promise together: clients     *)
(* share one bus; the holder alone begins transactions on it, never while  *)
(* one is running; it may leave one running behind; it gives the bus back. *)
(***************************************************************************)
CONSTANTS Clients, Nobody

VARIABLES holder,   \* the client that has the bus, or Nobody
          running   \* is a transaction in flight?

vars == <<holder, running>>

Init == holder = Nobody /\ running = FALSE

Acquire(c) == holder = Nobody /\ holder' = c /\ UNCHANGED running

Begin(c) == holder = c /\ ~running /\ running' = TRUE /\ UNCHANGED holder

End == running /\ running' = FALSE /\ UNCHANGED holder

Release(c) == holder = c /\ holder' = Nobody /\ UNCHANGED running

Next ==
    \/ \E c \in Clients : Acquire(c) \/ Begin(c) \/ Release(c)
    \/ End

Spec == Init /\ [][Next]_vars

FairSpec == Spec /\ \A c \in Clients : WF_vars(Release(c))

=============================================================================
