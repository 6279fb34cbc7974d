---------------------------- MODULE MCI2CDevice ----------------------------
(* I2CDevice for TLC: the report threads are interchangeable.               *)
EXTENDS I2CDevice, TLC

Symmetry == Permutations(Readers)

=============================================================================
