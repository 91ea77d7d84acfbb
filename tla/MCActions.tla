----------------------------- MODULE MCActions -----------------------------
(* A tenant that connects Zoho.                                            *)
EXTENDS Actions

CONSTANTS q1, q2

MCConnectable == {"ZOHO_INVENTORY"}
MCRequests    == {q1, q2}
=============================================================================
