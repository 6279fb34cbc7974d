-------------------------- MODULE MCDeviceLifecycle --------------------------
(***************************************************************************)
(* A device with two report threads: one in the gate, one that comes late. *)
(***************************************************************************)
EXTENDS DeviceLifecycle, TLC

CONSTANTS t1, t2

const_Threads == {t1, t2}
Symmetry == Permutations(const_Threads)

=============================================================================
