----------------------------- MODULE MCConsole -----------------------------
(***************************************************************************)
(* Console on a small instance: one order and its page, two runs to retry  *)
(* together, one provider.                                                 *)
(***************************************************************************)
EXTENDS Console

CONSTANTS o1, r1, r2

MCItems == [r \in Resource |-> CASE r = "orders"        -> {o1}
                                 [] r = "workflow-runs" -> {r1, r2}
                                 [] OTHER               -> {"EASYPOST"}]

MCScreens == [r \in Resource |-> CASE r = "orders"        -> {"dashboard", "order"}
                                   [] r = "workflow-runs" -> {"dashboard", "workflow-runs"}
                                   [] OTHER               -> {"dashboard", "shipping"}]

MCMaxMoves == [r \in Resource |-> CASE r = "orders"        -> 0
                                    [] r = "workflow-runs" -> 1
                                    [] OTHER               -> 2]

MCMaxWrites == [r \in Resource |-> IF r = "orders" THEN 1 ELSE 2]

MCMaxOthers == [r \in Resource |-> IF r = "workflow-runs" THEN 0 ELSE 1]
=============================================================================
