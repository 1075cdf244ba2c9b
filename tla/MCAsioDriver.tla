---------------------------- MODULE MCAsioDriver ----------------------------
(* Small instances of AsioDriver.                                          *)
EXTENDS AsioDriver, TLC

(* Sessions and streaming threads are interchangeable.                     *)
Symmetry == Permutations(Sessions) \cup Permutations(Workers)
=============================================================================
