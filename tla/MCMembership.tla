---------------------------- MODULE MCMembership ----------------------------
(* An organization with its creator and one more user, and one request to  *)
(* the members endpoints at a time.                                        *)
EXTENDS Membership

CONSTANTS creator, other, q1

MCUsers    == {creator, other}
MCOffered  == {"Viewer"}
MCRequests == {q1}
=============================================================================
