------------------------------ MODULE MCEngine ------------------------------
(* The transfers of the engine; the layout of the packets they carry is    *)
(* checked when the run starts.                                            *)
EXTENDS Engine, MCMode2
=============================================================================
