------------------------------- MODULE MCSetup ------------------------------
(* Builds that carry the same kinds of files differ only in being others.  *)
EXTENDS Setup, TLC

Symmetry == Permutations(Carrying)
=============================================================================
