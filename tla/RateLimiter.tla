---------------------------- MODULE RateLimiter ----------------------------
(***************************************************************************)
(* The client-side rate limiter of internal/poeapi/ratelimit.go together   *)
(* with the request loop that drives it: getJSON (internal/poeapi/         *)
(* client.go) and do (internal/trade2/client.go), which have the same      *)
(* shape.  One Limiter is shared by all goroutines that call a Client:     *)
(* Wait computes a deadline under the mutex and sleeps without it, then    *)
(* the request is built and sent, and only the arrival of its response     *)
(* (Observe) moves the limiter's state.                                    *)
(*                                                                         *)
(* Time is an integer; a transport error is a request that was sent but    *)
(* whose response never reached Observe.                                   *)
(***************************************************************************)
EXTENDS Integers, Sequences

CONSTANTS Callers,          \* goroutines sharing the limiter
          Responses,        \* what the service may answer
          DefaultInterval,  \* NewLimiter's pace
          HTTPTimeout,      \* http.Client.Timeout
          TransportErrors,  \* may Do fail after the request left?
          MaxCalls,         \* bound: calls made altogether
          Horizon           \* bound: time passes beyond it only for sleepers

(* A response as far as the limiter and the retry loop read it: the class  *)
(* of its status, the rules of its X-Rate-Limit headers (an unparsable     *)
(* number is 0), the restrictions of its -State headers, and its           *)
(* Retry-After when it holds an integer.                                   *)
Rule == [hits : Int, period : Int]

Response == [status : {"ok", "limited", "failed"}, rules : SUBSET Rule,
             restrict : SUBSET Int, retryAfter : SUBSET Int]

ASSUME ResponsesAssumption == Responses \subseteq Response
ASSUME IntervalAssumption == DefaultInterval \in Nat
ASSUME TimeoutAssumption == HTTPTimeout \in Nat
ASSUME BoundsAssumption == MaxCalls \in Nat /\ Horizon \in Nat

VARIABLES now,          \* the clock
          minInterval,  \* Limiter.minInterval
          last,         \* Limiter.last
          blockedTill,  \* Limiter.blockedTill
          pc,           \* where each caller is in its request loop
          attempt,      \* the loop counter of getJSON and do
          wakeAt,       \* the deadline Wait computed
          sentAt,       \* when the caller's request left
          calls,        \* calls made so far
          sent,         \* history: the requests that left, in order
          lost,         \* history: those whose response never arrived
          policies,     \* history: the rules advertised, and after which request
          bans,         \* history: the ends of the restrictions announced
          knew          \* history: what had been heard when a caller began to wait

limiter == <<minInterval, last, blockedTill>>
callers == <<pc, attempt, wakeAt, sentAt, calls>>
history == <<sent, lost, policies, bans, knew>>
vars == <<now, limiter, callers, history>>

(* The zero time.Time of a fresh Limiter: long enough ago not to delay the *)
(* first request.                                                          *)
ZeroTime == -DefaultInterval

(* The interval Observe derives from a usable rule: the advertised rate    *)
(* with a margin of a tenth, in integer arithmetic.                        *)
Usable(rule) == rule.hits > 0 /\ rule.period > 0
IntervalWithoutMargin(rule) == rule.period \div rule.hits  \* mutant
Interval(rule) == LET iv == rule.period \div rule.hits IN iv + (iv \div 10)

Largest(S) == {m \in S : \A n \in S : n <= m}
Later(s, t) == IF t > s THEN t ELSE s

Init ==
  /\ now = 0
  /\ minInterval = DefaultInterval
  /\ last = ZeroTime
  /\ blockedTill = 0
  /\ pc = [c \in Callers |-> "idle"]
  /\ attempt = [c \in Callers |-> 0]
  /\ wakeAt = [c \in Callers |-> 0]
  /\ sentAt = [c \in Callers |-> 0]
  /\ calls = 0
  /\ sent = <<>>
  /\ lost = {}
  /\ policies = {}
  /\ bans = {}
  /\ knew = [c \in Callers |-> [bans |-> {}, rules |-> {}, heard |-> ZeroTime]]

----------------------------------------------------------------------------
StartCall(c) ==
  /\ pc[c] = "idle"
  /\ calls < MaxCalls
  /\ calls' = calls + 1
  /\ attempt' = [attempt EXCEPT ![c] = 1]
  /\ pc' = [pc EXCEPT ![c] = "arriving"]
  /\ UNCHANGED <<now, limiter, wakeAt, sentAt, history>>

DeadlineIgnoringBan == last + minInterval                               \* mutant
DeadlineIgnoringPace == IF blockedTill > now THEN blockedTill ELSE now  \* mutant

(* The locked part of Wait: the deadline is computed once, from the state  *)
(* of this instant, and no slot is reserved.                               *)
Deadline ==
  Later(IF blockedTill > now THEN blockedTill ELSE ZeroTime, last + minInterval)

WaitBegin(c) ==
  /\ pc[c] = "arriving"
  /\ wakeAt' = [wakeAt EXCEPT ![c] = Deadline]
  /\ pc' = [pc EXCEPT ![c] = "sleeping"]
  /\ knew' = [knew EXCEPT ![c] =
       [bans |-> bans, rules |-> {p.rule : p \in policies}, heard |-> last]]
  /\ UNCHANGED <<now, limiter, attempt, sentAt, calls, sent, lost, policies, bans>>

WaitDone(c) ==
  /\ pc[c] = "sleeping"
  /\ now >= wakeAt[c]
  /\ pc' = [pc EXCEPT ![c] = "cleared"]
  /\ UNCHANGED <<now, limiter, attempt, wakeAt, sentAt, calls, history>>

(* The call ends without a request: its context is cancelled during the    *)
(* sleep, or no access token or request can be had after it.               *)
Abandon(c) ==
  /\ pc[c] \in {"sleeping", "cleared"}
  /\ pc' = [pc EXCEPT ![c] = "idle"]
  /\ UNCHANGED <<now, limiter, attempt, wakeAt, sentAt, calls, history>>

(* Between WaitDone and Send a caller may be held up in AccessToken.       *)
Send(c) ==
  /\ pc[c] = "cleared"
  /\ Len(sent) < 2 * MaxCalls
  /\ sent' = Append(sent, [by |-> c, at |-> now, pace |-> minInterval])
  /\ sentAt' = [sentAt EXCEPT ![c] = now]
  /\ pc' = [pc EXCEPT ![c] = "inflight"]
  /\ UNCHANGED <<now, limiter, attempt, wakeAt, calls, lost, policies, bans, knew>>

(* Observe, under the mutex.                                               *)
BlockedBy(r) ==
  {now + s : s \in {t \in r.restrict : t > 0}}
    \cup IF r.status = "limited" THEN {now + s : s \in r.retryAfter} ELSE {}

ObserveOverwriting(r) ==  \* mutant: a shorter restriction replaces a longer one
  /\ last' = now
  /\ minInterval' \in
       Largest({minInterval} \cup {Interval(ru) : ru \in {u \in r.rules : Usable(u)}})
  /\ blockedTill' \in IF BlockedBy(r) = {} THEN {blockedTill} ELSE Largest(BlockedBy(r))

Observe(r) ==
  /\ last' = now
  /\ minInterval' \in
       Largest({minInterval} \cup {Interval(ru) : ru \in {u \in r.rules : Usable(u)}})
  /\ blockedTill' \in Largest({blockedTill} \cup BlockedBy(r))

RetriedAlways(c, r) == r.status = "limited" /\ attempt[c] > 0  \* mutant

(* A 429 is retried once; anything else, and a second 429, ends the call.  *)
Retried(c, r) == r.status = "limited" /\ attempt[c] < 2

Receive(c, r) ==
  /\ pc[c] = "inflight"
  /\ Observe(r)
  /\ attempt' = [attempt EXCEPT ![c] = IF Retried(c, r) THEN @ + 1 ELSE @]
  /\ pc' = [pc EXCEPT ![c] = IF Retried(c, r) THEN "arriving" ELSE "idle"]
  /\ policies' = policies \cup
       {[rule |-> ru, from |-> Len(sent)] : ru \in {u \in r.rules : Usable(u)}}
  /\ bans' = bans \cup BlockedBy(r)
  /\ UNCHANGED <<now, wakeAt, sentAt, calls, sent, lost, knew>>

(* The last request of a caller.                                           *)
Newest(c, i) ==
  sent[i].by = c /\ \A j \in DOMAIN sent : sent[j].by = c => j <= i

(* Do fails - a timeout, a broken connection, a cancelled context - and    *)
(* Observe is not called.                                                  *)
TransportError(c) ==
  /\ TransportErrors
  /\ pc[c] = "inflight"
  /\ pc' = [pc EXCEPT ![c] = "idle"]
  /\ lost' = lost \cup {i \in DOMAIN sent : Newest(c, i)}
  /\ UNCHANGED <<now, limiter, attempt, wakeAt, sentAt, calls, sent, policies, bans, knew>>

(* No request is in flight for longer than the HTTP client's timeout.      *)
Tick ==
  /\ \A c \in Callers : pc[c] = "inflight" => now < sentAt[c] + HTTPTimeout
  /\ \/ now < Horizon
     \/ \E c \in Callers : pc[c] = "sleeping" /\ now < wakeAt[c]
  /\ now' = now + 1
  /\ UNCHANGED <<limiter, callers, history>>

(* All calls have been made and have returned.                             *)
Finished ==
  /\ calls = MaxCalls
  /\ \A c \in Callers : pc[c] = "idle"
  /\ UNCHANGED vars

Next ==
  \/ \E c \in Callers :
       \/ StartCall(c)
       \/ WaitBegin(c)
       \/ WaitDone(c)
       \/ Abandon(c)
       \/ Send(c)
       \/ \E r \in Responses : Receive(c, r)
       \/ TransportError(c)
  \/ Tick
  \/ Finished

Spec == Init /\ [][Next]_vars

(* A goroutine that can run eventually runs, the HTTP client answers or    *)
(* times out, and time passes.  Nothing is assumed about new calls or      *)
(* about cancellation.                                                     *)
Respond(c) == (\E r \in Responses : Receive(c, r)) \/ TransportError(c)

Fairness ==
  /\ WF_vars(Tick)
  /\ \A c \in Callers : /\ WF_vars(WaitBegin(c))
                        /\ WF_vars(WaitDone(c))
                        /\ WF_vars(Send(c))
                        /\ WF_vars(Respond(c))

FairSpec == Spec /\ Fairness

----------------------------------------------------------------------------
Location == {"idle", "arriving", "sleeping", "cleared", "inflight"}

(* Every variable keeps its type; the limiter's instants never precede the *)
(* ones they start from, and a call is at its first or second attempt      *)
(* (Limiter, ratelimit.go:43-48; getJSON's loop, client.go:58).            *)
TypeOK ==
  /\ now \in Nat /\ minInterval \in Nat /\ blockedTill \in Nat /\ calls \in Nat
  /\ last \in Int /\ last >= ZeroTime /\ last <= now
  /\ pc \in [Callers -> Location]
  /\ attempt \in [Callers -> 0..2]
  /\ wakeAt \in [Callers -> Int]
  /\ sentAt \in [Callers -> Nat]
  /\ sent \in Seq([by : Callers, at : Nat, pace : Nat])
  /\ lost \subseteq DOMAIN sent
  /\ policies \subseteq [rule : Rule, from : Nat]
  /\ bans \subseteq Int
  /\ knew \in [Callers -> [bans : SUBSET Int, rules : SUBSET Rule, heard : Int]]

(* Whatever the other callers do meanwhile, a request respects everything  *)
(* that had been heard when its caller entered Wait: every restriction     *)
(* announced by then is over, and it keeps the interval of every rule      *)
(* advertised by then to the last response of then (Limiter.Wait and       *)
(* Observe, ratelimit.go:56-127).                                          *)
HeedsWhatItKnew ==
  \A c \in Callers : pc[c] = "inflight" =>
    /\ \A till \in knew[c].bans : sentAt[c] >= till
    /\ \A rule \in knew[c].rules : sentAt[c] >= knew[c].heard + Interval(rule)

(* However many goroutines share the limiter, each of them keeps the pace  *)
(* to itself: after a request that was answered, the caller's next ones    *)
(* wait at least the interval known at it, also when some of them are lost *)
(* and never observed.  So n callers exceed a policy at most n-fold as     *)
(* long as no response is lost (getJSON's Wait, Do, Observe order,         *)
(* client.go:59-80).                                                       *)
SelfPaced ==
  \A i \in DOMAIN sent \ lost : \A j \in DOMAIN sent :
    i < j /\ sent[i].by = sent[j].by => sent[j].at - sent[i].at >= sent[i].pace

(* No policy is exceeded: of the requests from the one whose response      *)
(* advertised a rule on, any hits + 1 consecutive ones take longer than    *)
(* its period ("paces requests to stay under the tightest advertised       *)
(* policy", ratelimit.go:41-42).                                           *)
PolicyKept ==
  \A p \in policies : \A i \in DOMAIN sent :
    i >= p.from /\ i + p.rule.hits \in DOMAIN sent =>
      sent[i + p.rule.hits].at - sent[i].at > p.rule.period

(* The promise of the limiter as a specification of its own.               *)
Promise == INSTANCE Pacer WITH
  clock <- now, pace <- minInterval, barred <- blockedTill,
  sent <- [k \in DOMAIN sent |-> [at |-> sent[k].at, pace |-> sent[k].pace]]

(* The requests of this limiter are requests the Pacer allows (Limiter,    *)
(* ratelimit.go:41-127).                                                   *)
KeepsPromise == Promise!Spec

(* Every call returns: the deadline of a Wait is fixed when it begins, so  *)
(* no traffic of other callers can starve it, and a call makes at most two *)
(* attempts (Wait, ratelimit.go:56-81; getJSON, client.go:56-99).          *)
CallTerminates == \A c \in Callers : pc[c] # "idle" ~> pc[c] = "idle"
=============================================================================
