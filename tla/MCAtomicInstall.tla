-------------------------- MODULE MCAtomicInstall --------------------------
(***************************************************************************)
(* AtomicInstall for TLC: three invocations, so that a third can slip in   *)
(* between the steps of two.                                               *)
(***************************************************************************)
EXTENDS AtomicInstall

CONSTANTS i1, i2, i3
=============================================================================
