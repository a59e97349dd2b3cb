-------------------------- MODULE MCTokenManager --------------------------
(* TokenManager for TLC: who runs what, and the tokens of a bounded        *)
(* behaviour.                                                              *)
EXTENDS TokenManager, TLC

CONSTANTS server, cli, h1, h2, cmd

MCSeed == MaxGrants + 1
MCTokens == [access : 0..MaxGrants, refresh : 0..MCSeed]

Sharing == h1 :> server @@ h2 :> server @@ cmd :> cli
=============================================================================
