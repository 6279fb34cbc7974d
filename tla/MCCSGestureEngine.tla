------------------------- MODULE MCCSGestureEngine -------------------------
(* Two contacts, which do all but swipe.                                      *)
EXTENDS CSGestureEngine

=============================================================================
