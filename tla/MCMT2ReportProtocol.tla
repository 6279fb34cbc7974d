------------------------ MODULE MCMT2ReportProtocol ------------------------
(* Three clients that may ask for any report, and for one nobody knows.       *)
EXTENDS MT2ReportProtocol, TLC

MCAsked == Known \cup {"02"}

MCSymmetry == Permutations(Clients)

=============================================================================
