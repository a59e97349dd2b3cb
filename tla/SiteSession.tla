---------------------------- MODULE SiteSession ----------------------------
(***************************************************************************)
(* The session gate of the server (internal/server/auth.go).  A session is *)
(* nothing but the cookie: the time it ends, signed; the server keeps no   *)
(* record of it, and a restart changes nothing.  A cookie is abstracted to *)
(* its time: a browser sends back only what it was given, so that the      *)
(* signature always matches.                                               *)
(***************************************************************************)
EXTENDS Integers

CONSTANTS TTL  \* how long a login lasts

ASSUME TTLAssumption == TTL \in Nat

VARIABLES now  \* seconds

NoCookie == 0

(* issue and verify: the session is still good in the second it ends.      *)
Issue == now + TTL
VerifyEarly(cookie) == cookie # NoCookie /\ now < cookie  \* mutant
Verify(cookie) == cookie # NoCookie /\ now <= cookie

(* Expires: what the browser may hold of a cookie at a time.  In the       *)
(* second the session ends it may or may not have dropped it.              *)
Kept(cookie, time) ==
  {c \in {cookie, NoCookie} : (time < cookie => c = cookie) /\ (time > cookie => c = NoCookie)}
=============================================================================
