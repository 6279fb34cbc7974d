------------------------- MODULE MCCSGestureScroll -------------------------
(* Places two fingers can be at, the steps between them great and small, in    *)
(* either direction and on either axis, and one too far on each.              *)
EXTENDS CSGestureScroll

At(x, y) == [x1 |-> x, y1 |-> y, x2 |-> x + 1, y2 |-> y]

MCPositions == {At(1, 4), At(3, 4), At(9, 4), At(1, 6), At(1, 12)}

=============================================================================
