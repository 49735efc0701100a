---------------------------- MODULE MCDiffParser ----------------------------
(* A small instance of DiffParser for TLC. *)
EXTENDS DiffParser

CONSTANTS src, readme

Symmetry == Permutations({src, readme})
=============================================================================
