---------------------------- MODULE MCNodeServer ----------------------------
(* The node server with a few pods, for TLC. *)
EXTENDS NodeServer, TLC

\* Targets are alike.
Symmetry == Permutations(Targets)
=============================================================================
