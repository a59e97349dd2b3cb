---------------------------- MODULE MCOAuthLogin ----------------------------
(* OAuthLogin for TLC: a client with two callback ports, and one with a    *)
(* single configured port.                                                 *)
EXTENDS OAuthLogin

CONSTANTS l1, l2, p1, p2

MCPortLists == {<<p1, p2>>, <<p1>>}
=============================================================================
