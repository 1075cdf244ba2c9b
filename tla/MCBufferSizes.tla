---------------------------- MODULE MCBufferSizes ---------------------------
(* Instance of BufferSizes with the constants of settings.rs.              *)
EXTENDS BufferSizes

MCDefault == [rate |-> 48000, multiple |-> 4]
=============================================================================
