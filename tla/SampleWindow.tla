---------------------------- MODULE SampleWindow ----------------------------
(***************************************************************************)
(* What an average over the last N values promises: it remembers the last  *)
(* N of them, in their order, since it was last reset.                     *)
(***************************************************************************)
EXTENDS Integers, Sequences

CONSTANTS N,       \* how many values are remembered
          Values   \* the values that may be averaged

VARIABLE window

Init == window = <<>>

Remember(w, d) ==
    IF Len(w) < N THEN Append(w, d) ELSE Append(Tail(w), d)

Filter(d) == window' = Remember(window, d)

Reset == window' = <<>>

Next == Reset \/ \E d \in Values : Filter(d)

Spec == Init /\ [][Next]_window

=============================================================================
