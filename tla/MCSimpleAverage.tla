-------------------------- MODULE MCSimpleAverage --------------------------
(* Three slots wrap within four values; the values have both signs.           *)
EXTENDS SimpleAverage

MCValues == {-3, 0, 1, 5}

=============================================================================
