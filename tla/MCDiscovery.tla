---------------------------- MODULE MCDiscovery ----------------------------
(***************************************************************************)
(* Instances of Discovery for TLC.                                         *)
(***************************************************************************)
EXTENDS Discovery, TLC

CONSTANTS setup1, setup2, setup3

Three == {setup1, setup2, setup3}

Symmetry == Permutations(Three)

=============================================================================
