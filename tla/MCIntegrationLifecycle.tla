----------------------- MODULE MCIntegrationLifecycle -----------------------
(* Instances of IntegrationLifecycle for TLC.                              *)
EXTENDS IntegrationLifecycle, TLC

Interchangeable ==
  Permutations(Requests) \union Permutations(Stores) \union Permutations(Shops)
=============================================================================
