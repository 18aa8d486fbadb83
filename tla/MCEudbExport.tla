---------------------------- MODULE MCEudbExport ----------------------------
(* Instance of EudbExport for TLC. *)
EXTENDS EudbExport, TLC

CONSTANTS m1, m2

MeterSymmetry == Permutations({m1, m2})

=============================================================================
