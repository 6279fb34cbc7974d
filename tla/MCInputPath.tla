----------------------------- MODULE MCInputPath -----------------------------
(* Three contacts, so that a gap can hide one; a "byte" of two values, a      *)
(* "word" of four, a touch phase of two bits.  y = 3 lies beyond MaxY and     *)
(* wraps; y = 1 and 3 of the second block are a non-zero byte 11.  A first    *)
(* block at the origin is the input the simulator suppresses.  The foreign    *)
(* reports have the bytes of a touch report and of a lift: they can mask both.*)
EXTENDS InputPath

At(x, y) == [x |-> x, y |-> y]

MCReport(id, touch, button, first, second, more) ==
    [id |-> id, touch |-> touch, button |-> button, rest |-> more,
     blocks |-> [i \in 1..3 |-> CASE i = 1 -> first [] i = 2 -> second
                                  [] OTHER -> At(1, 2)]]

MCReports ==
    {MCReport("touch", touch, FALSE, At(1, 3), At(1, 2), 0) :
        touch \in SUBSET (1..3) \ {{2, 3}}}
    \cup {MCReport("touch", touch, TRUE, At(1, 3), At(1, 2), 0) :
        touch \in {{}, {1, 2}}}
    \cup {MCReport("touch", {1, 3}, FALSE, At(0, 0), At(1, 2), 0),
          MCReport("touch", {1, 2}, FALSE, At(1, 3), At(1, 3), 0),
          MCReport("touch", {1, 2}, FALSE, At(0, 0), At(0, 1), 1)}
    \cup {MCReport("other", touch, FALSE, At(1, 3), At(1, 2), 0) :
        touch \in {{}, {1}}}

=============================================================================
