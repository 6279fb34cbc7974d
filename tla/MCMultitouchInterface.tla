----------------------- MODULE MCMultitouchInterface -----------------------
(* Four engines, two of them of the same score: two may be open when a report *)
(* comes, and two more may open during it.                                   *)
EXTENDS MultitouchInterface

MCScore == [e \in Engines |-> IF e = 4 THEN 3 ELSE e]

=============================================================================
