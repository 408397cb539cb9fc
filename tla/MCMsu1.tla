------------------------------ MODULE MCMsu1 ------------------------------
(* One track of three frames.                                              *)
EXTENDS Msu1
MCFrameCount == [t \in Tracks |-> 3]
============================================================================
