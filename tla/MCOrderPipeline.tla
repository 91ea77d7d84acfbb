--------------------------- MODULE MCOrderPipeline ---------------------------
(* Instances of OrderPipeline for TLC.                                     *)
EXTENDS OrderPipeline, TLC

Interchangeable == Permutations(Runs)
=============================================================================
