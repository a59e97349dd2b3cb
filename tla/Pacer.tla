------------------------------- MODULE Pacer -------------------------------
(***************************************************************************)
(* What a rate limiter promises to the service it talks to, as the comment *)
(* on Limiter puts it (internal/poeapi/ratelimit.go:41-42): requests stay  *)
(* under the tightest advertised policy, and no request leaves while a     *)
(* restriction is active.  Nothing is said here of how the promise is      *)
(* kept: no callers, no sleeping, no responses in flight.  RateLimiter     *)
(* implements this specification when its calls are sequential and every   *)
(* request gets its response.                                              *)
(***************************************************************************)
EXTENDS Integers, Sequences

CONSTANT DefaultInterval   \* the pace before anything has been advertised

VARIABLES clock,   \* the current time
          pace,    \* the widest interval learned so far
          barred,  \* no request may leave before this instant
          sent     \* the requests that left: when, and under which pace

vars == <<clock, pace, barred, sent>>

Init ==
  /\ clock = 0
  /\ pace = DefaultInterval
  /\ barred = 0
  /\ sent = <<>>

Tick ==
  /\ clock' \in Nat
  /\ clock' > clock
  /\ UNCHANGED <<pace, barred, sent>>

(* A response can only slow the sender down.                               *)
Learn ==
  /\ pace' \in Nat /\ pace' >= pace
  /\ barred' \in Nat /\ barred' >= barred
  /\ UNCHANGED <<clock, sent>>

Send ==
  /\ clock >= barred
  /\ sent # <<>> => clock >= sent[Len(sent)].at + pace
  /\ sent' = Append(sent, [at |-> clock, pace |-> pace])
  /\ UNCHANGED <<clock, pace, barred>>

Next == Tick \/ Learn \/ Send

Spec == Init /\ [][Next]_vars

----------------------------------------------------------------------------
TypeOK ==
  /\ clock \in Nat
  /\ pace \in Nat
  /\ barred \in Nat
  /\ sent \in Seq([at : Nat, pace : Nat])

(* Any n consecutive gaps between requests last at least n times the pace  *)
(* that governed the first of them, however the pace changed meanwhile     *)
(* (Limiter.Wait and Observe, ratelimit.go:56-127).                        *)
Spaced ==
  \A i \in DOMAIN sent : \A j \in DOMAIN sent :
    i < j => sent[j].at - sent[i].at >= (j - i) * sent[i + 1].pace
=============================================================================
