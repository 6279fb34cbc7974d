--------------------------- MODULE MCSwipeGesture ---------------------------
(* Swipes of three and four contacts, broken off by two, limits    *)
(* in the order of the code's, and a step that needs several to be far.       *)
EXTENDS SwipeGesture

MCAverages == {-1, 0, 1}
MCSwipeTicks == [n \in {3, 4} |-> IF n = 3 THEN 1 ELSE 3]
MCRepeatTicks == [n \in {3, 4} |-> IF n = 3 THEN 2 ELSE 5]

=============================================================================
