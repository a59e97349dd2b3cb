--------------------------- MODULE MCRateLimiter ---------------------------
(***************************************************************************)
(* Instances of RateLimiter for TLC.  One tick is a tenth of a second of   *)
(* the code's default interval scaled down; the periods are multiples of   *)
(* ten per hit, so the integer margin of a tenth is not rounded away, as   *)
(* it is not at the code's nanosecond resolution.                          *)
(***************************************************************************)
EXTENDS RateLimiter

answer == [status |-> "ok", rules |-> {}, restrict |-> {}, retryAfter |-> {}]

(* Two tiers, a malformed one, a restriction that is running, a 429 with   *)
(* and without Retry-After.                                                *)
MCResponses ==
  {[answer EXCEPT !.rules = {[hits |-> 2, period |-> 20], [hits |-> 0, period |-> 9]}],
   [answer EXCEPT !.rules = {[hits |-> 1, period |-> 14]}, !.status = "failed"],
   [answer EXCEPT !.restrict = {0, 9}],
   [answer EXCEPT !.status = "limited", !.retryAfter = {7}],
   [answer EXCEPT !.status = "limited"]}

(* Fewer answers for the concurrent instances.                             *)
MCFewResponses ==
  {[answer EXCEPT !.rules = {[hits |-> 1, period |-> 10]}],
   [answer EXCEPT !.restrict = {6}],
   [answer EXCEPT !.status = "limited", !.retryAfter = {3}]}
=============================================================================
