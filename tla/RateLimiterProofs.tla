------------------------- MODULE RateLimiterProofs -------------------------
(***************************************************************************)
(* Theorems about RateLimiter, for any set of callers, any answers of the  *)
(* service and any bounds.                                                 *)
(***************************************************************************)
EXTENDS RateLimiter, TLAPS

USE ResponsesAssumption, IntervalAssumption, TimeoutAssumption, BoundsAssumption

(* The interval of a usable rule is a natural number, so it can be added   *)
(* to an instant (Observe, ratelimit.go:98-102).                           *)
LEMMA IntervalNat ==
  ASSUME NEW rule \in Rule, Usable(rule)
  PROVE  Interval(rule) \in Nat
  <1> DEFINE iv == rule.period \div rule.hits
  <1>1. iv \in Nat
    BY DEF Rule, Usable
  <1>2. iv \div 10 \in Nat
    BY <1>1
  <1> QED
    BY <1>1, <1>2 DEF Interval

(* What Observe leaves behind: the widest interval and the latest end of a *)
(* restriction, both at least what they were (ratelimit.go:86-127).        *)
LEMMA ObserveWidens ==
  ASSUME TypeOK, NEW r \in Responses, Observe(r)
  PROVE  /\ last' = now
         /\ minInterval' \in Nat /\ minInterval' >= minInterval
         /\ \A ru \in r.rules : Usable(ru) => minInterval' >= Interval(ru)
         /\ blockedTill' \in Nat /\ blockedTill' >= blockedTill
         /\ BlockedBy(r) \subseteq Int
         /\ \A till \in BlockedBy(r) : blockedTill' >= till
  <1> DEFINE Ivs == {Interval(ru) : ru \in {u \in r.rules : Usable(u)}}
  <1>0. now \in Int /\ minInterval \in Nat /\ blockedTill \in Nat
    BY DEF TypeOK
  <1>1. r \in Response
    OBVIOUS
  <1>2. r.rules \subseteq Rule /\ r.restrict \subseteq Int /\ r.retryAfter \subseteq Int
    BY <1>1 DEF Response
  <1>3. Ivs \subseteq Nat
    BY <1>2, IntervalNat
  <1>4. BlockedBy(r) \subseteq Int
    BY <1>0, <1>2 DEF BlockedBy
  <1>5. minInterval' \in {minInterval} \cup Ivs /\ \A n \in {minInterval} \cup Ivs : n <= minInterval'
    BY DEF Observe, Largest
  <1>6. blockedTill' \in {blockedTill} \cup BlockedBy(r)
        /\ \A n \in {blockedTill} \cup BlockedBy(r) : n <= blockedTill'
    BY DEF Observe, Largest
  <1>7. blockedTill' \in Int /\ blockedTill' >= blockedTill
    BY <1>0, <1>4, <1>6
  <1>8. \A till \in BlockedBy(r) : blockedTill' >= till
    BY <1>4, <1>6, <1>7
  <1>9. \A ru \in r.rules : Usable(ru) => minInterval' >= Interval(ru)
    BY <1>0, <1>3, <1>5
  <1>10. minInterval' \in Nat /\ minInterval' >= minInterval
    BY <1>0, <1>3, <1>5
  <1> QED
    BY <1>0, <1>4, <1>7, <1>8, <1>9, <1>10 DEF Observe

(* A caller's deadline is an instant, no earlier than the paced one, and   *)
(* no earlier than the end of a restriction that is still active (Wait,    *)
(* ratelimit.go:58-67).                                                    *)
LEMMA DeadlineBounds ==
  ASSUME TypeOK
  PROVE  /\ Deadline \in Int
         /\ Deadline >= last + minInterval
         /\ blockedTill <= Deadline \/ blockedTill <= now
  BY DEF TypeOK, Deadline, Later, ZeroTime

(* Type correctness of the limiter and its callers (ratelimit.go:43-127,   *)
(* client.go:56-99).                                                       *)
THEOREM TypeCorrect == Spec => []TypeOK
  <1>1. Init => TypeOK
    BY DEF Init, TypeOK, Location, ZeroTime
  <1>2. TypeOK /\ [Next]_vars => TypeOK'
    <2> SUFFICES ASSUME TypeOK, [Next]_vars PROVE TypeOK'
      OBVIOUS
    <2> USE DEF TypeOK, Location, limiter, history
    <2>1. ASSUME NEW c \in Callers, StartCall(c) PROVE TypeOK'
      BY <2>1 DEF StartCall
    <2>2. ASSUME NEW c \in Callers, WaitBegin(c) PROVE TypeOK'
      <3>1. Deadline \in Int
        BY DeadlineBounds
      <3>2. {p.rule : p \in policies} \subseteq Rule
        OBVIOUS
      <3> QED
        BY <2>2, <3>1, <3>2 DEF WaitBegin
    <2>3. ASSUME NEW c \in Callers, WaitDone(c) PROVE TypeOK'
      BY <2>3 DEF WaitDone
    <2>4. ASSUME NEW c \in Callers, Abandon(c) PROVE TypeOK'
      BY <2>4 DEF Abandon
    <2>5. ASSUME NEW c \in Callers, Send(c) PROVE TypeOK'
      <3>1. [by |-> c, at |-> now, pace |-> minInterval] \in [by : Callers, at : Nat, pace : Nat]
        OBVIOUS
      <3>2. sent' \in Seq([by : Callers, at : Nat, pace : Nat])
        BY <2>5, <3>1 DEF Send
      <3>3. lost' \subseteq DOMAIN sent'
        <4>1. sent \in Seq([by : Callers, at : Nat, pace : Nat])
          OBVIOUS
        <4>2. Len(sent) \in Nat /\ DOMAIN sent = 1..Len(sent)
          BY <4>1
        <4>3. Len(sent') = Len(sent) + 1 /\ DOMAIN sent' = 1..Len(sent')
          BY <2>5, <3>1, <3>2, <4>1 DEF Send
        <4> QED
          BY <2>5, <4>2, <4>3 DEF Send
      <3> QED
        BY <2>5, <3>2, <3>3 DEF Send
    <2>6. ASSUME NEW c \in Callers, NEW r \in Responses, Receive(c, r) PROVE TypeOK'
      <3>1. Observe(r) /\ UNCHANGED <<now, wakeAt, sentAt, calls, sent, lost, knew>>
        BY <2>6 DEF Receive
      <3>2. r.rules \subseteq Rule
        BY DEF Response
      <3>3. policies' \subseteq [rule : Rule, from : Nat]
        BY <2>6, <3>2 DEF Receive
      <3>4. bans' \subseteq Int
        BY <2>6, <3>1, ObserveWidens DEF Receive
      <3>5. attempt' \in [Callers -> 0..2]
        BY <2>6 DEF Receive, Retried
      <3>6. pc' \in [Callers -> Location]
        BY <2>6 DEF Receive
      <3>7. last' = now /\ minInterval' \in Nat /\ blockedTill' \in Nat
        BY <3>1, ObserveWidens
      <3>8. last' \in Int /\ last' >= ZeroTime /\ last' <= now'
        BY <3>1, <3>7 DEF ZeroTime
      <3>9. UNCHANGED <<now, wakeAt, sentAt, calls, sent, lost, knew>>
        BY <3>1
      <3> QED
        BY <3>3, <3>4, <3>5, <3>6, <3>7, <3>8, <3>9
    <2>7. ASSUME NEW c \in Callers, TransportError(c) PROVE TypeOK'
      BY <2>7 DEF TransportError
    <2>8. CASE Tick
      BY <2>8 DEF Tick, callers, ZeroTime
    <2>9. CASE UNCHANGED vars
      BY <2>9 DEF vars, callers
    <2> QED
      BY <2>1, <2>2, <2>3, <2>4, <2>5, <2>6, <2>7, <2>8, <2>9 DEF Next, Finished
  <1> QED
    BY <1>1, <1>2, PTL DEF Spec
----------------------------------------------------------------------------
(* A request of c leaves, or has left, no earlier than instant t.          *)
NotBefore(c, t) ==
  \/ pc[c] = "sleeping" /\ (t <= wakeAt[c] \/ t <= now)
  \/ pc[c] = "cleared" /\ t <= now
  \/ pc[c] = "inflight" /\ t <= sentAt[c]

(* The inductive invariant behind HeedsWhatItKnew: the limiter summarises  *)
(* everything announced so far, and what a caller knew when it began to    *)
(* wait bounds its request at each of its steps.                           *)
Summarised ==
  /\ \A till \in bans : till <= blockedTill
  /\ \A p \in policies : Usable(p.rule) /\ minInterval >= Interval(p.rule)

Heeding(c) ==
  pc[c] \in {"sleeping", "cleared", "inflight"} =>
    /\ \A till \in knew[c].bans : NotBefore(c, till)
    /\ \A rule \in knew[c].rules :
         Usable(rule) /\ NotBefore(c, knew[c].heard + Interval(rule))

HeedInv == Summarised /\ \A c \in Callers : Heeding(c)

(* A step that leaves a caller's own state and the past alone leaves its   *)
(* part of the invariant alone.                                            *)
LEMMA OthersKeepHeeding ==
  ASSUME TypeOK, NEW c \in Callers, Heeding(c),
         pc'[c] = pc[c], wakeAt'[c] = wakeAt[c], sentAt'[c] = sentAt[c],
         knew'[c] = knew[c], now' \in Nat, now' >= now
  PROVE  Heeding(c)'
  <1>1. now \in Nat /\ wakeAt[c] \in Int /\ sentAt[c] \in Nat /\ knew[c].heard \in Int
        /\ knew[c].bans \subseteq Int /\ knew[c].rules \subseteq Rule
    BY DEF TypeOK
  <1>2. \A t \in Int : NotBefore(c, t) => NotBefore(c, t)'
    BY <1>1 DEF NotBefore
  <1>3. \A rule \in knew[c].rules : Usable(rule) => knew[c].heard + Interval(rule) \in Int
    BY <1>1, IntervalNat
  <1> QED
    BY <1>1, <1>2, <1>3 DEF Heeding

(* Every step preserves what the limiter summarises and what its callers   *)
(* heed.                                                                   *)
LEMMA HeedStep == TypeOK /\ HeedInv /\ [Next]_vars => HeedInv'
  <1> SUFFICES ASSUME TypeOK, HeedInv, [Next]_vars PROVE HeedInv'
    OBVIOUS
  <1>0. /\ now \in Nat /\ blockedTill \in Nat /\ minInterval \in Nat /\ last \in Int
        /\ policies \subseteq [rule : Rule, from : Nat] /\ bans \subseteq Int
        /\ pc \in [Callers -> Location]
        /\ wakeAt \in [Callers -> Int] /\ sentAt \in [Callers -> Nat]
        /\ knew \in [Callers -> [bans : SUBSET Int, rules : SUBSET Rule, heard : Int]]
    BY DEF TypeOK
  <1>1. Summarised /\ \A c \in Callers : Heeding(c)
    BY DEF HeedInv
  <1>2. ASSUME NEW c \in Callers, StartCall(c) PROVE HeedInv'
    <2>1. Summarised'
      BY <1>1, <1>2 DEF StartCall, Summarised, limiter, history
    <2>2. ASSUME NEW d \in Callers PROVE Heeding(d)'
      <3>1. CASE d = c
        BY <1>0, <1>2, <3>1 DEF StartCall, Heeding
      <3>2. CASE d # c
        BY <1>0, <1>1, <1>2, <3>2, OthersKeepHeeding DEF StartCall, history
      <3> QED
        BY <3>1, <3>2
    <2> QED
      BY <2>1, <2>2 DEF HeedInv
  <1>3. ASSUME NEW c \in Callers, WaitBegin(c) PROVE HeedInv'
    <2>1. Summarised'
      BY <1>1, <1>3 DEF WaitBegin, Summarised, limiter
    <2>2. ASSUME NEW d \in Callers PROVE Heeding(d)'
      <3>1. CASE d = c
        <4> DEFINE k == [bans |-> bans, rules |-> {p.rule : p \in policies}, heard |-> last]
        <4>1. pc'[c] = "sleeping" /\ wakeAt'[c] = Deadline /\ knew'[c] = k /\ UNCHANGED now
          BY <1>0, <1>3 DEF WaitBegin
        <4>2. k.bans = bans /\ k.rules = {p.rule : p \in policies} /\ k.heard = last
          OBVIOUS
        <4> HIDE DEF k
        <4>3. ASSUME NEW till \in bans PROVE NotBefore(c, till)'
          <5>1. till <= Deadline \/ till <= now
            BY <1>0, <1>1, DeadlineBounds DEF Summarised
          <5> QED
            BY <4>1, <5>1 DEF NotBefore
        <4>4. ASSUME NEW rule \in k.rules
              PROVE  Usable(rule) /\ NotBefore(c, last + Interval(rule))'
          <5>1. Usable(rule) /\ minInterval >= Interval(rule) /\ rule \in Rule
            BY <1>0, <1>1, <4>2, <4>4 DEF Summarised
          <5>2. last + Interval(rule) <= Deadline
            BY <1>0, <5>1, IntervalNat, DeadlineBounds
          <5>3. UNCHANGED last
            BY <1>3 DEF WaitBegin, limiter
          <5> QED
            BY <4>1, <5>1, <5>2, <5>3 DEF NotBefore
        <4>5. UNCHANGED last
          BY <1>3 DEF WaitBegin, limiter
        <4> QED
          BY <3>1, <4>1, <4>2, <4>3, <4>4, <4>5 DEF Heeding
      <3>2. CASE d # c
        BY <1>0, <1>1, <1>3, <3>2, OthersKeepHeeding DEF WaitBegin
      <3> QED
        BY <3>1, <3>2
    <2> QED
      BY <2>1, <2>2 DEF HeedInv
  <1>4. ASSUME NEW c \in Callers, WaitDone(c) PROVE HeedInv'
    <2>1. Summarised'
      BY <1>1, <1>4 DEF WaitDone, Summarised, limiter, history
    <2>2. ASSUME NEW d \in Callers PROVE Heeding(d)'
      <3>1. CASE d = c
        <4>1. pc[c] = "sleeping" /\ now >= wakeAt[c] /\ pc'[c] = "cleared" /\ UNCHANGED <<now, knew>>
          BY <1>0, <1>4 DEF WaitDone, history
        <4>2. Heeding(c)
          BY <1>1
        <4>3. \A t \in Int : NotBefore(c, t) => NotBefore(c, t)'
          BY <1>0, <4>1 DEF NotBefore
        <4>4. knew[c].heard \in Int /\ knew[c].bans \subseteq Int /\ knew[c].rules \subseteq Rule
          BY <1>0
        <4>5. \A rule \in knew[c].rules : Usable(rule) => knew[c].heard + Interval(rule) \in Int
          BY <4>4, IntervalNat
        <4> QED
          BY <3>1, <4>1, <4>2, <4>3, <4>4, <4>5 DEF Heeding
      <3>2. CASE d # c
        BY <1>0, <1>1, <1>4, <3>2, OthersKeepHeeding DEF WaitDone, history
      <3> QED
        BY <3>1, <3>2
    <2> QED
      BY <2>1, <2>2 DEF HeedInv
  <1>5. ASSUME NEW c \in Callers, Abandon(c) PROVE HeedInv'
    <2>1. Summarised'
      BY <1>1, <1>5 DEF Abandon, Summarised, limiter, history
    <2>2. ASSUME NEW d \in Callers PROVE Heeding(d)'
      <3>1. CASE d = c
        BY <1>0, <1>5, <3>1 DEF Abandon, Heeding
      <3>2. CASE d # c
        BY <1>0, <1>1, <1>5, <3>2, OthersKeepHeeding DEF Abandon, history
      <3> QED
        BY <3>1, <3>2
    <2> QED
      BY <2>1, <2>2 DEF HeedInv
  <1>6. ASSUME NEW c \in Callers, Send(c) PROVE HeedInv'
    <2>1. Summarised'
      BY <1>1, <1>6 DEF Send, Summarised, limiter
    <2>2. ASSUME NEW d \in Callers PROVE Heeding(d)'
      <3>1. CASE d = c
        <4>1. pc[c] = "cleared" /\ pc'[c] = "inflight" /\ sentAt'[c] = now /\ UNCHANGED <<now, knew>>
          BY <1>0, <1>6 DEF Send
        <4>2. Heeding(c)
          BY <1>1
        <4>3. \A t \in Int : NotBefore(c, t) => NotBefore(c, t)'
          BY <4>1 DEF NotBefore
        <4>4. knew[c].heard \in Int /\ knew[c].bans \subseteq Int /\ knew[c].rules \subseteq Rule
          BY <1>0
        <4>5. \A rule \in knew[c].rules : Usable(rule) => knew[c].heard + Interval(rule) \in Int
          BY <4>4, IntervalNat
        <4> QED
          BY <3>1, <4>1, <4>2, <4>3, <4>4, <4>5 DEF Heeding
      <3>2. CASE d # c
        BY <1>0, <1>1, <1>6, <3>2, OthersKeepHeeding DEF Send
      <3> QED
        BY <3>1, <3>2
    <2> QED
      BY <2>1, <2>2 DEF HeedInv
  <1>7. ASSUME NEW c \in Callers, NEW r \in Responses, Receive(c, r) PROVE HeedInv'
    <2>1. Observe(r) /\ UNCHANGED <<now, wakeAt, sentAt, calls, sent, lost, knew>>
      BY <1>7 DEF Receive
    <2>2. Summarised'
      <3>1. \A till \in bans' : till <= blockedTill'
        BY <1>0, <1>1, <1>7, <2>1, ObserveWidens DEF Receive, Summarised
      <3>2. ASSUME NEW p \in policies' PROVE Usable(p.rule) /\ minInterval' >= Interval(p.rule)
        <4>1. CASE p \in policies
          <5>1. p.rule \in Rule /\ Usable(p.rule) /\ minInterval >= Interval(p.rule)
            BY <1>0, <1>1, <4>1 DEF Summarised
          <5> QED
            BY <1>0, <2>1, <5>1, IntervalNat, ObserveWidens
        <4>2. CASE p \notin policies
          <5>1. PICK ru \in {u \in r.rules : Usable(u)} : p = [rule |-> ru, from |-> Len(sent)]
            BY <1>7, <4>2 DEF Receive
          <5>2. p.rule = ru /\ Usable(ru) /\ ru \in r.rules
            BY <5>1
          <5> QED
            BY <2>1, <5>2, ObserveWidens
        <4> QED
          BY <4>1, <4>2
      <3> QED
        BY <3>1, <3>2 DEF Summarised
    <2>3. ASSUME NEW d \in Callers PROVE Heeding(d)'
      <3>1. CASE d = c
        BY <1>0, <1>7, <3>1 DEF Receive, Heeding
      <3>2. CASE d # c
        BY <1>0, <1>1, <1>7, <2>1, <3>2, OthersKeepHeeding DEF Receive
      <3> QED
        BY <3>1, <3>2
    <2> QED
      BY <2>2, <2>3 DEF HeedInv
  <1>8. ASSUME NEW c \in Callers, TransportError(c) PROVE HeedInv'
    <2>1. Summarised'
      BY <1>1, <1>8 DEF TransportError, Summarised, limiter, history
    <2>2. ASSUME NEW d \in Callers PROVE Heeding(d)'
      <3>1. CASE d = c
        BY <1>0, <1>8, <3>1 DEF TransportError, Heeding
      <3>2. CASE d # c
        BY <1>0, <1>1, <1>8, <3>2, OthersKeepHeeding DEF TransportError, history
      <3> QED
        BY <3>1, <3>2
    <2> QED
      BY <2>1, <2>2 DEF HeedInv
  <1>9. CASE Tick
    <2>1. now' \in Nat /\ now' >= now /\ UNCHANGED <<limiter, callers, history>>
      BY <1>0, <1>9 DEF Tick
    <2>2. Summarised'
      BY <1>1, <2>1 DEF Summarised, limiter, history
    <2>3. \A d \in Callers : Heeding(d)'
      BY <1>1, <2>1, OthersKeepHeeding DEF callers, history
    <2> QED
      BY <2>2, <2>3 DEF HeedInv
  <1>10. CASE UNCHANGED vars
    BY <1>10 DEF vars, limiter, callers, history, HeedInv, Summarised, Heeding, NotBefore
  <1> QED
    BY <1>2, <1>3, <1>4, <1>5, <1>6, <1>7, <1>8, <1>9, <1>10 DEF Next, Finished

(* With any number of callers, lost responses included, a request heeds    *)
(* all that was known when its Wait began (ratelimit.go:56-127).           *)
THEOREM Heeds == Spec => []HeedsWhatItKnew
  <1>1. Init => HeedInv
    BY DEF Init, HeedInv, Summarised, Heeding
  <1>2. TypeOK /\ HeedInv => HeedsWhatItKnew
    BY DEF HeedInv, Heeding, NotBefore, HeedsWhatItKnew, TypeOK
  <1> QED
    BY <1>1, <1>2, HeedStep, TypeCorrect, PTL DEF Spec
----------------------------------------------------------------------------
(* The inductive invariant behind SelfPaced: a request that was not lost   *)
(* is behind its caller's next one by the pace it left under, and once it  *)
(* is not in flight any more its response has been observed.               *)
Behind(i) ==
  LET c == sent[i].by IN
  /\ sent[i].at <= now /\ sent[i].pace <= minInterval
  /\ pc[c] # "inflight" \/ ~Newest(c, i) => sent[i].at <= last
  /\ pc[c] = "sleeping" => sent[i].at + sent[i].pace <= wakeAt[c]
  /\ pc[c] = "cleared" => sent[i].at + sent[i].pace <= now

PacedInv == SelfPaced /\ \A i \in DOMAIN sent \ lost : Behind(i)

(* The entries of a sequence over S are in S.                              *)
LEMMA EntriesIn ==
  ASSUME NEW S, NEW s \in Seq(S)
  PROVE  \A k \in 1..Len(s) : s[k] \in S
  OBVIOUS

LEMMA SentEntries ==
  ASSUME TypeOK
  PROVE  /\ Len(sent) \in Nat /\ DOMAIN sent = 1..Len(sent)
         /\ \A i \in DOMAIN sent : /\ sent[i].by \in Callers
                                   /\ sent[i].at \in Nat /\ sent[i].pace \in Nat
  <1>1. sent \in Seq([by : Callers, at : Nat, pace : Nat])
    BY DEF TypeOK
  <1>2. Len(sent) \in Nat /\ DOMAIN sent = 1..Len(sent)
    BY <1>1
  <1>3. \A i \in 1..Len(sent) : sent[i] \in [by : Callers, at : Nat, pace : Nat]
    BY <1>1, EntriesIn
  <1> QED
    BY <1>2, <1>3

(* What Send appends.                                                      *)
LEMMA SendAppends ==
  ASSUME TypeOK, NEW c \in Callers, Send(c)
  PROVE  /\ DOMAIN sent' = 1..(Len(sent) + 1)
         /\ \A i \in DOMAIN sent : sent'[i] = sent[i]
         /\ sent'[Len(sent) + 1].by = c
         /\ sent'[Len(sent) + 1].at = now
         /\ sent'[Len(sent) + 1].pace = minInterval
  <1> DEFINE e == [by |-> c, at |-> now, pace |-> minInterval]
  <1>1. sent \in Seq([by : Callers, at : Nat, pace : Nat]) /\ now \in Nat /\ minInterval \in Nat
    BY DEF TypeOK
  <1>2. e \in [by : Callers, at : Nat, pace : Nat] /\ e.by = c /\ e.at = now /\ e.pace = minInterval
    BY <1>1
  <1>3. sent' = Append(sent, e)
    BY DEF Send
  <1> HIDE DEF e
  <1>4. /\ DOMAIN sent' = 1..(Len(sent) + 1)
        /\ \A i \in 1..Len(sent) : sent'[i] = sent[i]
        /\ sent'[Len(sent) + 1] = e
    BY <1>1, <1>2, <1>3
  <1> QED
    BY <1>2, <1>4, SentEntries

(* Every step keeps each caller paced.                                     *)
LEMMA PacedStep == TypeOK /\ PacedInv /\ [Next]_vars => PacedInv'
  <1> SUFFICES ASSUME TypeOK, PacedInv, [Next]_vars PROVE PacedInv'
    OBVIOUS
  <1>0. /\ now \in Nat /\ minInterval \in Nat /\ last \in Int /\ last <= now
        /\ pc \in [Callers -> Location]
        /\ wakeAt \in [Callers -> Int]
    BY DEF TypeOK
  <1>1. /\ Len(sent) \in Nat /\ DOMAIN sent = 1..Len(sent)
        /\ \A i \in DOMAIN sent : /\ sent[i].by \in Callers
                                  /\ sent[i].at \in Nat /\ sent[i].pace \in Nat
    BY SentEntries
  <1>2. SelfPaced /\ lost \subseteq DOMAIN sent /\ \A i \in DOMAIN sent \ lost : Behind(i)
    BY DEF PacedInv, TypeOK
  <1>3. ASSUME NEW c \in Callers, StartCall(c) PROVE PacedInv'
    BY <1>0, <1>1, <1>2, <1>3 DEF StartCall, limiter, history, PacedInv, SelfPaced, Behind, Newest
  <1>4. ASSUME NEW c \in Callers, WaitBegin(c) PROVE PacedInv'
    <2>1. Deadline \in Int /\ Deadline >= last + minInterval
      BY DeadlineBounds
    <2>2. UNCHANGED <<now, sent, lost, minInterval, last>>
      BY <1>4 DEF WaitBegin, limiter
    <2>3. pc[c] = "arriving" /\ pc' = [pc EXCEPT ![c] = "sleeping"]
          /\ wakeAt' = [wakeAt EXCEPT ![c] = Deadline]
      BY <1>4 DEF WaitBegin
    <2>4. ASSUME NEW i \in DOMAIN sent \ lost PROVE Behind(i)'
      <3>1. CASE sent[i].by = c
        BY <1>0, <1>1, <1>2, <2>1, <2>2, <2>3, <3>1 DEF Behind, Newest
      <3>2. CASE sent[i].by # c
        BY <1>0, <1>1, <1>2, <2>2, <2>3, <3>2 DEF Behind, Newest
      <3> QED
        BY <3>1, <3>2
    <2> QED
      BY <1>2, <2>2, <2>4 DEF PacedInv, SelfPaced
  <1>5. ASSUME NEW c \in Callers, WaitDone(c) PROVE PacedInv'
    BY <1>0, <1>1, <1>2, <1>5 DEF WaitDone, limiter, history, PacedInv, SelfPaced, Behind, Newest
  <1>6. ASSUME NEW c \in Callers, Abandon(c) PROVE PacedInv'
    BY <1>0, <1>1, <1>2, <1>6 DEF Abandon, limiter, history, PacedInv, SelfPaced, Behind, Newest
  <1>7. ASSUME NEW c \in Callers, Send(c) PROVE PacedInv'
    <2> DEFINE n == Len(sent)
    <2>1. /\ DOMAIN sent' = 1..(n + 1)
          /\ \A i \in 1..n : sent'[i] = sent[i]
          /\ sent'[n + 1].by = c /\ sent'[n + 1].at = now /\ sent'[n + 1].pace = minInterval
      BY <1>1, <1>7, SendAppends
    <2>2. UNCHANGED <<now, minInterval, last, wakeAt, lost>>
          /\ pc[c] = "cleared" /\ pc' = [pc EXCEPT ![c] = "inflight"]
      BY <1>7 DEF Send, limiter
    <2>3. ASSUME NEW i \in 1..(n + 1), i \notin lost PROVE Behind(i)'
      <3>1. CASE i \in 1..n
        <4>1. Behind(i) /\ sent'[i] = sent[i] /\ sent[i].by \in Callers
          BY <1>1, <1>2, <2>1, <2>3, <3>1
        <4>2. CASE sent[i].by = c
          BY <1>0, <1>1, <2>2, <4>1, <4>2 DEF Behind
        <4>3. CASE sent[i].by # c
          <5>1. Newest(sent[i].by, i) => Newest(sent[i].by, i)'
            BY <1>1, <2>1, <3>1, <4>3 DEF Newest
          <5> QED
            BY <1>0, <1>1, <2>2, <4>1, <4>3, <5>1 DEF Behind
        <4> QED
          BY <4>2, <4>3
      <3>2. CASE i = n + 1
        BY <1>0, <2>1, <2>2, <3>2 DEF Behind, Newest
      <3> QED
        BY <1>1, <3>1, <3>2
    <2>4. ASSUME NEW i \in 1..(n + 1), i \notin lost, NEW j \in 1..(n + 1), i < j, sent'[i].by = sent'[j].by
          PROVE  sent'[j].at - sent'[i].at >= sent'[i].pace
      <3>1. i \in 1..n
        BY <1>1, <2>4
      <3>2. CASE j \in 1..n
        BY <1>1, <1>2, <2>1, <2>4, <3>1, <3>2 DEF SelfPaced
      <3>3. CASE j = n + 1
        <4>1. sent[i].by = c
          BY <2>1, <2>4, <3>1, <3>3
        <4>2. sent[i].at + sent[i].pace <= now
          BY <1>1, <1>2, <2>2, <2>4, <3>1, <4>1 DEF Behind
        <4> QED
          BY <1>0, <1>1, <2>1, <3>1, <3>3, <4>2
      <3> QED
        BY <1>1, <3>2, <3>3
    <2>5. DOMAIN sent' \ lost' = {i \in 1..(n + 1) : i \notin lost}
      BY <2>1, <2>2
    <2>6. SelfPaced'
      BY <2>1, <2>4, <2>5 DEF SelfPaced
    <2> QED
      BY <2>3, <2>5, <2>6 DEF PacedInv
  <1>8. ASSUME NEW c \in Callers, NEW r \in Responses, Receive(c, r) PROVE PacedInv'
    <2>1. Observe(r) /\ UNCHANGED <<now, wakeAt, sent, lost>>
          /\ pc[c] = "inflight" /\ pc' \in [Callers -> Location]
          /\ pc'[c] \in {"arriving", "idle"} /\ \A d \in Callers \ {c} : pc'[d] = pc[d]
      BY <1>0, <1>8 DEF Receive, Location
    <2>2. last' = now /\ minInterval' \in Nat /\ minInterval' >= minInterval
      BY <2>1, ObserveWidens
    <2>3. ASSUME NEW i \in DOMAIN sent \ lost PROVE Behind(i)'
      <3>1. CASE sent[i].by = c
        BY <1>0, <1>1, <1>2, <2>1, <2>2, <3>1 DEF Behind, Newest
      <3>2. CASE sent[i].by # c
        BY <1>0, <1>1, <1>2, <2>1, <2>2, <3>2 DEF Behind, Newest
      <3> QED
        BY <3>1, <3>2
    <2> QED
      BY <1>2, <2>1, <2>3 DEF PacedInv, SelfPaced
  <1>11. ASSUME NEW c \in Callers, TransportError(c) PROVE PacedInv'
    <2>1. /\ UNCHANGED <<now, minInterval, last, wakeAt, sent>>
          /\ pc[c] = "inflight" /\ pc' = [pc EXCEPT ![c] = "idle"]
          /\ lost' = lost \cup {i \in DOMAIN sent : Newest(c, i)}
      BY <1>11 DEF TransportError, limiter
    <2>2. ASSUME NEW i \in DOMAIN sent, i \notin lost' PROVE Behind(i)'
      <3>1. CASE sent[i].by = c
        <4>1. Behind(i) /\ ~Newest(c, i)
          BY <1>2, <2>1, <2>2
        <4> QED
          BY <1>0, <1>1, <2>1, <3>1, <4>1 DEF Behind
      <3>2. CASE sent[i].by # c
        BY <1>0, <1>1, <1>2, <2>1, <2>2, <3>2 DEF Behind, Newest
      <3> QED
        BY <3>1, <3>2
    <2>3. SelfPaced'
      BY <1>2, <2>1 DEF SelfPaced
    <2> QED
      BY <2>1, <2>2, <2>3 DEF PacedInv
  <1>9. CASE Tick
    BY <1>0, <1>1, <1>2, <1>9 DEF Tick, limiter, callers, history, PacedInv, SelfPaced, Behind, Newest
  <1>10. CASE UNCHANGED vars
    BY <1>10 DEF vars, limiter, callers, history, PacedInv, SelfPaced, Behind, Newest
  <1> QED
    BY <1>3, <1>4, <1>5, <1>6, <1>7, <1>8, <1>9, <1>10, <1>11 DEF Next, Finished

(* With any number of callers, and whatever responses are lost, each of    *)
(* them keeps its own pace (client.go:56-99, ratelimit.go:56-127).         *)
THEOREM KeepsOwnPace == Spec => []SelfPaced
  <1>1. Init => PacedInv
    BY DEF Init, PacedInv, SelfPaced, Behind
  <1>2. PacedInv => SelfPaced
    BY DEF PacedInv
  <1> QED
    BY <1>1, <1>2, PacedStep, TypeCorrect, PTL DEF Spec
----------------------------------------------------------------------------
(* One goroutine at most: the CLI, or a server with one request at a time. *)
Sequential == \A c, d \in Callers : c = d

(* The inductive invariant behind KeepsPromise: nothing is observed while  *)
(* the only caller waits, so its deadline is still current when it sends.  *)
Current ==
  /\ \A c \in Callers :
       /\ pc[c] = "sleeping" =>
            /\ last + minInterval <= wakeAt[c]
            /\ blockedTill <= wakeAt[c] \/ blockedTill <= now
       /\ pc[c] = "cleared" => last + minInterval <= now /\ blockedTill <= now
  /\ \A i \in DOMAIN sent :
       /\ sent[i].at <= now
       /\ \A c \in Callers : pc[c] # "inflight" => sent[i].at <= last

(* Every step of a sequential limiter that loses no response keeps the     *)
(* pending deadline current.                                               *)
LEMMA CurrentStep ==
  Sequential /\ ~TransportErrors /\ TypeOK /\ Current /\ [Next]_vars => Current'
  <1> SUFFICES ASSUME Sequential, ~TransportErrors, TypeOK, Current, [Next]_vars
               PROVE  Current'
    OBVIOUS
  <1>0. /\ now \in Nat /\ minInterval \in Nat /\ last \in Int /\ last <= now /\ blockedTill \in Nat
        /\ pc \in [Callers -> Location]
        /\ wakeAt \in [Callers -> Int]
    BY DEF TypeOK
  <1>1. /\ Len(sent) \in Nat /\ DOMAIN sent = 1..Len(sent)
        /\ \A i \in DOMAIN sent : sent[i].at \in Nat
    BY SentEntries
  <1>2. \A c, d \in Callers : c = d
    BY DEF Sequential
  <1>3. ASSUME NEW c \in Callers, StartCall(c) PROVE Current'
    BY <1>0, <1>1, <1>3 DEF StartCall, limiter, history, Current
  <1>4. ASSUME NEW c \in Callers, WaitBegin(c) PROVE Current'
    BY <1>0, <1>1, <1>4, DeadlineBounds DEF WaitBegin, limiter, Current
  <1>5. ASSUME NEW c \in Callers, WaitDone(c) PROVE Current'
    BY <1>0, <1>1, <1>5 DEF WaitDone, limiter, history, Current
  <1>6. ASSUME NEW c \in Callers, Abandon(c) PROVE Current'
    BY <1>0, <1>1, <1>6 DEF Abandon, limiter, history, Current
  <1>7. ASSUME NEW c \in Callers, Send(c) PROVE Current'
    <2>1. /\ DOMAIN sent' = 1..(Len(sent) + 1)
          /\ \A i \in DOMAIN sent : sent'[i] = sent[i]
          /\ sent'[Len(sent) + 1].at = now
      BY <1>7, SendAppends
    <2>2. UNCHANGED <<now, limiter, wakeAt>> /\ pc' = [pc EXCEPT ![c] = "inflight"]
      BY <1>7 DEF Send
    <2>3. \A d \in Callers : pc'[d] = "inflight"
      BY <1>0, <1>2, <2>2
    <2>4. \A i \in DOMAIN sent' : sent'[i].at <= now
      BY <1>0, <1>1, <2>1 DEF Current
    <2> QED
      BY <2>2, <2>3, <2>4 DEF Current, limiter
  <1>8. ASSUME NEW c \in Callers, NEW r \in Responses, Receive(c, r) PROVE Current'
    <2>1. Observe(r) /\ UNCHANGED <<now, sent>> /\ pc'[c] \in {"arriving", "idle"}
      BY <1>0, <1>8 DEF Receive
    <2>2. last' = now
      BY <2>1, ObserveWidens
    <2>3. \A d \in Callers : pc'[d] \in {"arriving", "idle"}
      BY <1>2, <2>1
    <2> QED
      BY <1>0, <1>1, <2>1, <2>2, <2>3 DEF Current
  <1>9. CASE Tick
    BY <1>0, <1>1, <1>9 DEF Tick, limiter, callers, history, Current
  <1>10. CASE UNCHANGED vars
    BY <1>10 DEF vars, limiter, callers, history, Current
  <1> QED
    BY <1>3, <1>4, <1>5, <1>6, <1>7, <1>8, <1>9, <1>10 DEF Next, Finished, TransportError

(* The requests as the Pacer sees them.                                    *)
Seen == [k \in DOMAIN sent |-> [at |-> sent[k].at, pace |-> sent[k].pace]]

(* Every step of a sequential limiter that loses no response is a step of  *)
(* the Pacer or leaves it unchanged.                                       *)
LEMMA PromiseStep ==
  Sequential /\ ~TransportErrors /\ TypeOK /\ Current /\ [Next]_vars => [Promise!Next]_(Promise!vars)
  <1> SUFFICES ASSUME Sequential, ~TransportErrors, TypeOK, Current, [Next]_vars
               PROVE  [Promise!Next]_(Promise!vars)
    OBVIOUS
  <1>0. /\ now \in Nat /\ minInterval \in Nat /\ last \in Int /\ blockedTill \in Nat
    BY DEF TypeOK
  <1>1. ASSUME UNCHANGED <<now, limiter, sent>> PROVE UNCHANGED Promise!vars
    BY <1>1 DEF limiter, Promise!vars
  <1>2. ASSUME NEW c \in Callers, StartCall(c) PROVE UNCHANGED Promise!vars
    BY <1>1, <1>2 DEF StartCall, history
  <1>3. ASSUME NEW c \in Callers, WaitBegin(c) PROVE UNCHANGED Promise!vars
    BY <1>1, <1>3 DEF WaitBegin
  <1>4. ASSUME NEW c \in Callers, WaitDone(c) PROVE UNCHANGED Promise!vars
    BY <1>1, <1>4 DEF WaitDone, history
  <1>5. ASSUME NEW c \in Callers, Abandon(c) PROVE UNCHANGED Promise!vars
    BY <1>1, <1>5 DEF Abandon, history
  <1>6. ASSUME NEW c \in Callers, Send(c) PROVE Promise!Send
    <2> DEFINE n == Len(sent)
               e == [at |-> now, pace |-> minInterval]
    <2>1. pc[c] = "cleared" /\ UNCHANGED <<now, limiter>>
      BY <1>6 DEF Send
    <2>2. now >= last + minInterval /\ now >= blockedTill
      BY <1>0, <2>1 DEF Current
    <2>3. n \in Nat /\ DOMAIN sent = 1..n /\ \A i \in 1..n : sent[i].at \in Nat /\ sent[i].pace \in Nat
      BY SentEntries
    <2>4. DOMAIN sent' = 1..(n + 1) /\ (\A i \in 1..n : sent'[i] = sent[i])
          /\ sent'[n + 1].at = now /\ sent'[n + 1].pace = minInterval
      BY <1>6, <2>3, SendAppends
    <2> HIDE DEF n
    <2>5. Seen = [k \in 1..n |-> [at |-> sent[k].at, pace |-> sent[k].pace]]
      BY <2>3 DEF Seen
    <2>6. Seen \in Seq([at : Nat, pace : Nat]) /\ Len(Seen) = n
      BY <2>3, <2>5
    <2>7. Seen' = [k \in 1..(n + 1) |-> [at |-> sent'[k].at, pace |-> sent'[k].pace]]
      BY <2>4 DEF Seen
    <2>8. Append(Seen, e) = [k \in 1..(n + 1) |-> IF k = n + 1 THEN e ELSE Seen[k]]
      BY <2>3, <2>6
    <2>9. Seen' = Append(Seen, e)
      <3>1. \A k \in 1..(n + 1) : [at |-> sent'[k].at, pace |-> sent'[k].pace]
                                    = IF k = n + 1 THEN e ELSE Seen[k]
        BY <2>3, <2>4, <2>5
      <3> QED
        BY <2>7, <2>8, <3>1
    <2>10. Seen # <<>> => now >= Seen[Len(Seen)].at + minInterval
      <3>1. SUFFICES ASSUME Seen # <<>> PROVE now >= Seen[n].at + minInterval
        BY <2>6
      <3>2. n \in 1..n
        BY <2>3, <2>6, <3>1
      <3>3. Seen[n].at = sent[n].at /\ sent[n].at <= last
        BY <2>1, <2>3, <2>5, <3>2 DEF Current
      <3> QED
        BY <1>0, <2>2, <2>3, <3>2, <3>3
    <2> QED
      BY <2>1, <2>2, <2>9, <2>10 DEF Promise!Send, limiter, Seen
  <1>7. ASSUME NEW c \in Callers, NEW r \in Responses, Receive(c, r) PROVE Promise!Learn
    <2>1. Observe(r) /\ UNCHANGED <<now, sent>>
      BY <1>7 DEF Receive
    <2> QED
      BY <2>1, ObserveWidens DEF Promise!Learn
  <1>8. CASE Tick
    BY <1>0, <1>8 DEF Tick, limiter, callers, history, Promise!Next, Promise!Tick
  <1>9. CASE UNCHANGED vars
    BY <1>1, <1>9 DEF vars, history
  <1> QED
    BY <1>2, <1>3, <1>4, <1>5, <1>6, <1>7, <1>8, <1>9
    DEF Next, Finished, TransportError, Promise!Next

(* A sequential limiter that loses no response keeps the promise of its    *)
(* comment (ratelimit.go:41-127).                                          *)
THEOREM ImplementsPacer == Sequential /\ ~TransportErrors => (Spec => KeepsPromise)
  <1> SUFFICES ASSUME Sequential, ~TransportErrors PROVE Spec => KeepsPromise
    OBVIOUS
  <1>1. Init => Promise!Init
    <2> SUFFICES ASSUME Init PROVE Promise!Init
      OBVIOUS
    <2>1. sent = <<>>
      BY DEF Init
    <2>2. Seen = <<>>
      BY <2>1 DEF Seen
    <2> QED
      BY <2>2 DEF Init, Promise!Init, Seen
  <1>2. Init => Current
    BY DEF Init, Current
  <1> QED
    BY <1>1, <1>2, CurrentStep, PromiseStep, TypeCorrect, PTL DEF Spec, KeepsPromise, Promise!Spec
----------------------------------------------------------------------------
(* The abstract pacer, seen through the limiter's variables: its requests  *)
(* are spaced because the pace only grows, so that the pace of an earlier  *)
(* request is below that of every later one and below the current one.     *)
Entry == [at : Nat, pace : Nat]
Rising(s, pace) ==
  /\ \A k \in DOMAIN s : s[k].pace <= pace
  /\ \A i \in DOMAIN s : \A j \in DOMAIN s : i <= j => s[i].pace <= s[j].pace
Apart(s) ==
  \A i \in DOMAIN s : \A j \in DOMAIN s : i < j => s[j].at - s[i].at >= (j - i) * s[i + 1].pace

PromiseInv ==
  /\ now \in Nat /\ minInterval \in Nat /\ blockedTill \in Nat
  /\ Seen \in Seq(Entry) /\ Rising(Seen, minInterval) /\ Apart(Seen)

(* One more gap of f after m gaps of f.                                    *)
LEMMA OneMore ==
  ASSUME NEW m \in Nat, NEW f \in Nat
  PROVE  m * f \in Nat /\ (m + 1) * f = m * f + f
  OBVIOUS

(* A request that leaves a pace after the last one keeps them spaced.      *)
LEMMA SentApart ==
  ASSUME NEW s \in Seq(Entry), NEW clock \in Nat, NEW pace \in Nat, Rising(s, pace), Apart(s),
         s # <<>> => clock >= s[Len(s)].at + pace
  PROVE  LET t == Append(s, [at |-> clock, pace |-> pace])
         IN  t \in Seq(Entry) /\ Rising(t, pace) /\ Apart(t)
  <1> DEFINE n == Len(s)
             e == [at |-> clock, pace |-> pace]
             t == Append(s, e)
  <1>1. n \in Nat /\ DOMAIN s = 1..n
    OBVIOUS
  <1>2. \A k \in 1..n : s[k] \in Entry
    BY EntriesIn
  <1>3. \A k \in 1..n : s[k].at \in Nat /\ s[k].pace \in Nat
    BY <1>2 DEF Entry
  <1>4. \A k \in 1..n : s[k].pace <= pace
    BY <1>1 DEF Rising
  <1>5. \A i, j \in 1..n : i <= j => s[i].pace <= s[j].pace
    BY <1>1 DEF Rising
  <1>6. \A i, j \in 1..n : i < j => s[j].at - s[i].at >= (j - i) * s[i + 1].pace
    BY <1>1 DEF Apart
  <1>7. e \in Entry /\ e.at = clock /\ e.pace = pace
    BY DEF Entry
  <1> HIDE DEF e
  <1>8. t \in Seq(Entry) /\ DOMAIN t = 1..(n + 1) /\ (\A k \in 1..n : t[k] = s[k]) /\ t[n + 1] = e
    BY <1>1, <1>7
  <1>9. s # <<>> => clock >= s[n].at + pace
    OBVIOUS
  <1>10. n # 0 => s # <<>>
    OBVIOUS
  <1> HIDE DEF n, t
  <1>11. Rising(t, pace)
    <2>1. \A k \in DOMAIN t : t[k].pace <= pace
      BY <1>1, <1>4, <1>7, <1>8
    <2>2. \A i, j \in DOMAIN t : i <= j => t[i].pace <= t[j].pace
      BY <1>1, <1>4, <1>5, <1>7, <1>8
    <2> QED
      BY <2>1, <2>2 DEF Rising
  <1>12. ASSUME NEW i \in DOMAIN t, NEW j \in DOMAIN t, i < j
         PROVE  t[j].at - t[i].at >= (j - i) * t[i + 1].pace
    <2>1. i \in 1..n /\ i \in Int /\ j \in 1..(n + 1)
      BY <1>1, <1>8, <1>12
    <2>2. CASE j <= n
      <3>1. j \in 1..n /\ i + 1 \in 1..n
        BY <1>1, <1>12, <2>1, <2>2
      <3> QED
        BY <1>6, <1>8, <1>12, <2>1, <3>1
    <2>3. CASE j = n + 1
      <3>1. n \in 1..n /\ clock >= s[n].at + pace
        BY <1>1, <1>9, <1>10, <2>1
      <3>2. t[j].at = clock /\ t[i].at = s[i].at
        BY <1>7, <1>8, <2>1, <2>3
      <3>3. CASE i = n
        <4>1. t[i + 1].pace = pace /\ j - i = 1
          BY <1>1, <1>7, <1>8, <2>3, <3>3
        <4>2. clock - s[i].at >= pace
          BY <1>3, <2>1, <3>1, <3>3
        <4>3. (j - i) * t[i + 1].pace = pace
          BY <4>1
        <4> QED
          BY <3>2, <4>2, <4>3
      <3>4. CASE i < n
        <4> DEFINE f == s[i + 1].pace
        <4>1. i + 1 \in 1..n
          BY <1>1, <2>1, <3>4
        <4>2. f \in Nat /\ f <= pace /\ t[i + 1].pace = f
          BY <1>3, <1>4, <1>8, <4>1
        <4>3. s[n].at - s[i].at >= (n - i) * f
          BY <1>6, <2>1, <3>1, <3>4
        <4>4. n - i \in Nat /\ s[n].at \in Int /\ s[i].at \in Int
          BY <1>1, <1>3, <2>1, <3>1, <3>4
        <4> HIDE DEF f
        <4> DEFINE gaps == (n - i) * f
                   a == s[i].at
                   b == s[n].at
        <4>5. gaps \in Nat /\ ((n - i) + 1) * f = gaps + f
          BY <4>2, <4>4, OneMore
        <4>6. a \in Int /\ b \in Int /\ clock >= b + pace /\ b - a >= gaps
          BY <3>1, <4>3, <4>4
        <4>7. (n - i) + 1 = j - i
          BY <1>1, <2>1, <2>3
        <4> HIDE DEF gaps, a, b
        <4>8. clock - a >= gaps + f
          BY <4>2, <4>5, <4>6
        <4> QED
          BY <3>2, <4>2, <4>5, <4>7, <4>8 DEF a
      <3> QED
        BY <1>1, <2>1, <3>3, <3>4
    <2> QED
      BY <1>1, <2>1, <2>2, <2>3
  <1>13. Apart(t)
    BY <1>12 DEF Apart
  <1> QED
    BY <1>8, <1>11, <1>13 DEF t, e

(* Every step of the pacer preserves the invariant.                        *)
LEMMA PromiseInvStep == PromiseInv /\ [Promise!Next]_(Promise!vars) => PromiseInv'
  <1> SUFFICES ASSUME PromiseInv, [Promise!Next]_(Promise!vars) PROVE PromiseInv'
    OBVIOUS
  <1>1. /\ now \in Nat /\ minInterval \in Nat /\ blockedTill \in Nat
        /\ Seen \in Seq(Entry) /\ Rising(Seen, minInterval) /\ Apart(Seen)
    BY DEF PromiseInv
  <1>2. CASE UNCHANGED Promise!vars
    <2>1. UNCHANGED <<now, minInterval, blockedTill, Seen>>
      BY <1>2 DEF Promise!vars, Seen
    <2> QED
      BY <1>1, <2>1 DEF PromiseInv
  <1>3. CASE Promise!Tick
    <2>1. now' \in Nat /\ UNCHANGED <<minInterval, blockedTill, Seen>>
      BY <1>3 DEF Promise!Tick, Seen
    <2> QED
      BY <1>1, <2>1 DEF PromiseInv
  <1>4. CASE Promise!Learn
    <2>1. /\ minInterval' \in Nat /\ minInterval' >= minInterval /\ blockedTill' \in Nat
          /\ UNCHANGED <<now, Seen>>
      BY <1>4 DEF Promise!Learn, Seen
    <2>2. \A k \in 1..Len(Seen) : Seen[k] \in Entry
      BY <1>1, EntriesIn
    <2>3. \A k \in DOMAIN Seen : Seen[k].pace \in Nat /\ Seen[k].pace <= minInterval
      BY <1>1, <2>2 DEF Entry, Rising
    <2>4. \A k \in DOMAIN Seen : Seen[k].pace <= minInterval'
      BY <1>1, <2>1, <2>3
    <2>5. Rising(Seen, minInterval')
      BY <1>1, <2>4 DEF Rising
    <2> QED
      BY <1>1, <2>1, <2>5 DEF PromiseInv
  <1>5. CASE Promise!Send
    <2>1. /\ UNCHANGED <<now, minInterval, blockedTill>>
          /\ Seen' = Append(Seen, [at |-> now, pace |-> minInterval])
          /\ Seen # <<>> => now >= Seen[Len(Seen)].at + minInterval
      BY <1>5 DEF Promise!Send, Seen
    <2>2. Seen' \in Seq(Entry) /\ Rising(Seen', minInterval) /\ Apart(Seen')
      BY <1>1, <2>1, SentApart
    <2> QED
      BY <1>1, <2>1, <2>2 DEF PromiseInv
  <1> QED
    BY <1>2, <1>3, <1>4, <1>5 DEF Promise!Next

(* What the abstract pacer promises bounds the request rate over windows   *)
(* of any length (ratelimit.go:41-42).                                     *)
THEOREM PromiseSpaced == Promise!Spec => [](Promise!TypeOK /\ Promise!Spaced)
  <1>1. Promise!Init => PromiseInv
    <2> SUFFICES ASSUME Promise!Init PROVE PromiseInv
      OBVIOUS
    <2>1. now = 0 /\ minInterval = DefaultInterval /\ blockedTill = 0 /\ Seen = <<>>
      BY DEF Promise!Init, Seen
    <2> QED
      BY <2>1 DEF PromiseInv, Rising, Apart
  <1>2. PromiseInv => Promise!TypeOK /\ Promise!Spaced
    BY DEF PromiseInv, Apart, Seen, Entry, Promise!TypeOK, Promise!Spaced
  <1> QED
    BY <1>1, <1>2, PromiseInvStep, PTL DEF Promise!Spec

----------------------------------------------------------------------------
(* Periods are long enough for the integer margin of a tenth not to be     *)
(* rounded away: in the code's nanoseconds, any period of at least ten     *)
(* nanoseconds per hit.                                                    *)
WidePeriods ==
  \A r \in Responses : \A rule \in r.rules : Usable(rule) => rule.period \div rule.hits >= 10

Wide(rule) == rule \in Rule /\ Usable(rule) /\ rule.period \div rule.hits >= 10

(* As many intervals as a rule has hits exceed its period (Observe,        *)
(* ratelimit.go:98-102).                                                   *)
LEMMA MarginSuffices ==
  ASSUME NEW rule, Wide(rule)
  PROVE  rule.hits * Interval(rule) > rule.period
  <1> DEFINE h == rule.hits
             p == rule.period
             q == p \div h
             m == q \div 10
  <1>1. h \in Nat /\ h > 0 /\ p \in Nat /\ q >= 10
    BY DEF Wide, Rule, Usable
  <1>2. q \in Nat /\ p < h * q + h
    BY <1>1
  <1> HIDE DEF q
  <1>3. m \in Nat /\ m >= 1
    BY <1>1, <1>2
  <1> HIDE DEF m
  <1>4. h * m >= h
    BY <1>1, <1>3
  <1>5. h * (q + m) = h * q + h * m
    BY <1>1, <1>2, <1>3
  <1>6. h * q \in Nat /\ h * m \in Nat
    BY <1>1, <1>2, <1>3
  <1>7. h * (q + m) > p
    BY <1>1, <1>2, <1>4, <1>5, <1>6
  <1> QED
    BY <1>7 DEF Interval, q, m

(* The inductive invariant that ties a policy to the pace of the requests  *)
(* made since it was advertised.                                           *)
Advertised ==
  \A p \in policies :
    /\ Wide(p.rule) /\ p.from \in Nat /\ minInterval >= Interval(p.rule)
    /\ \A k \in DOMAIN sent : k > p.from => sent[k].pace >= Interval(p.rule)

(* Every step preserves it, with any number of callers.                    *)
LEMMA AdvertisedStep == WidePeriods /\ TypeOK /\ Advertised /\ [Next]_vars => Advertised'
  <1> SUFFICES ASSUME WidePeriods, TypeOK, Advertised, [Next]_vars PROVE Advertised'
    OBVIOUS
  <1>0. /\ minInterval \in Nat
        /\ Len(sent) \in Nat /\ DOMAIN sent = 1..Len(sent)
        /\ \A k \in DOMAIN sent : sent[k].pace \in Nat
    BY SentEntries DEF TypeOK
  <1>1. ASSUME UNCHANGED <<minInterval, sent, policies>> PROVE Advertised'
    BY <1>1 DEF Advertised
  <1>2. ASSUME NEW c \in Callers, Send(c) PROVE Advertised'
    <2>1. /\ DOMAIN sent' = 1..(Len(sent) + 1)
          /\ \A i \in DOMAIN sent : sent'[i] = sent[i]
          /\ sent'[Len(sent) + 1].pace = minInterval
      BY <1>2, SendAppends
    <2>2. UNCHANGED <<minInterval, policies>>
      BY <1>2 DEF Send, limiter
    <2> QED
      BY <1>0, <2>1, <2>2 DEF Advertised
  <1>3. ASSUME NEW c \in Callers, NEW r \in Responses, Receive(c, r) PROVE Advertised'
    <2>1. Observe(r) /\ UNCHANGED sent
          /\ policies' = policies \cup
               {[rule |-> ru, from |-> Len(sent)] : ru \in {u \in r.rules : Usable(u)}}
      BY <1>3 DEF Receive
    <2>2. minInterval' \in Nat /\ minInterval' >= minInterval
          /\ \A ru \in r.rules : Usable(ru) => minInterval' >= Interval(ru)
      BY <2>1, ObserveWidens
    <2>3. ASSUME NEW p \in policies'
          PROVE /\ Wide(p.rule) /\ p.from \in Nat /\ minInterval' >= Interval(p.rule)
                /\ \A k \in DOMAIN sent : k > p.from => sent[k].pace >= Interval(p.rule)
      <3>1. CASE p \in policies
        <4>1. Wide(p.rule) /\ p.from \in Nat /\ minInterval >= Interval(p.rule)
              /\ \A k \in DOMAIN sent : k > p.from => sent[k].pace >= Interval(p.rule)
          BY <3>1 DEF Advertised
        <4>2. Interval(p.rule) \in Nat
          BY <4>1, IntervalNat DEF Wide
        <4>3. minInterval' >= Interval(p.rule)
          BY <1>0, <2>2, <4>1, <4>2
        <4> QED
          BY <4>1, <4>3
      <3>2. CASE p \notin policies
        <4>1. PICK ru \in {u \in r.rules : Usable(u)} : p = [rule |-> ru, from |-> Len(sent)]
          BY <2>1, <3>2
        <4>2. p.rule = ru /\ Usable(ru) /\ ru \in r.rules /\ p.from = Len(sent)
          BY <4>1
        <4>3. Wide(ru)
          BY <4>2 DEF Wide, WidePeriods, Response
        <4>4. \A k \in DOMAIN sent : ~(k > p.from)
          BY <1>0, <4>2
        <4> QED
          BY <1>0, <2>2, <4>2, <4>3, <4>4
      <3> QED
        BY <3>1, <3>2
    <2> QED
      BY <2>1, <2>3 DEF Advertised
  <1> QED
    BY <1>1, <1>2, <1>3
    DEF Next, StartCall, WaitBegin, WaitDone, Abandon, TransportError, Tick, Finished,
        vars, limiter, history

(* A sequential limiter that loses no response never exceeds a policy that *)
(* has been advertised to it (ratelimit.go:41-127).                        *)
THEOREM KeepsPolicies ==
  Sequential /\ ~TransportErrors /\ WidePeriods => (Spec => []PolicyKept)
  <1> SUFFICES ASSUME Sequential, ~TransportErrors, WidePeriods PROVE Spec => []PolicyKept
    OBVIOUS
  <1>1. Init => Advertised
    BY DEF Init, Advertised
  <1>2. TypeOK /\ Advertised /\ Promise!Spaced => PolicyKept
    <2> SUFFICES ASSUME TypeOK, Advertised, Promise!Spaced,
                        NEW p \in policies, NEW i \in DOMAIN sent,
                        i >= p.from, i + p.rule.hits \in DOMAIN sent
                 PROVE  sent[i + p.rule.hits].at - sent[i].at > p.rule.period
      BY DEF PolicyKept
    <2> DEFINE h == p.rule.hits
               f == sent[i + 1].pace
               iv == Interval(p.rule)
    <2>1. /\ Len(sent) \in Nat /\ DOMAIN sent = 1..Len(sent)
          /\ \A k \in DOMAIN sent : sent[k].at \in Nat /\ sent[k].pace \in Nat
      BY SentEntries
    <2>2. /\ Wide(p.rule) /\ p.from \in Nat
          /\ \A k \in DOMAIN sent : k > p.from => sent[k].pace >= iv
      BY DEF Advertised
    <2>3. h \in Nat /\ h > 0 /\ iv \in Nat /\ p.rule.period \in Nat
      BY <2>2, IntervalNat DEF Wide, Rule, Usable
    <2>4. h * iv > p.rule.period
      BY <2>2, MarginSuffices
    <2> HIDE DEF h, iv
    <2>5. i \in Nat /\ i + 1 \in DOMAIN sent /\ i < i + h /\ i + h \in DOMAIN sent
      BY <2>1, <2>3 DEF h
    <2>6. f \in Nat /\ f >= iv
      BY <2>1, <2>2, <2>5
    <2>7. \A k \in DOMAIN sent : Seen[k].at = sent[k].at /\ Seen[k].pace = sent[k].pace
      BY DEF Seen
    <2>8. DOMAIN Seen = DOMAIN sent
      BY DEF Seen
    <2>9. \A a, b \in DOMAIN Seen : a < b => Seen[b].at - Seen[a].at >= (b - a) * Seen[a + 1].pace
      BY DEF Promise!Spaced, Seen
    <2>10. sent[i + h].at - sent[i].at >= ((i + h) - i) * f
      BY <2>5, <2>7, <2>8, <2>9
    <2> HIDE DEF f
    <2>11. ((i + h) - i) * f = h * f
      BY <2>3, <2>5
    <2>12. h * f >= h * iv
      BY <2>3, <2>6
    <2> DEFINE hf == h * f
               hi == h * iv
    <2>13. hf \in Nat /\ hi \in Nat /\ hf >= hi /\ hi > p.rule.period
           /\ sent[i + h].at - sent[i].at >= hf
      BY <2>3, <2>4, <2>6, <2>10, <2>11, <2>12
    <2> HIDE DEF hf, hi
    <2>14. sent[i + h].at - sent[i].at > p.rule.period
      BY <2>1, <2>3, <2>5, <2>13
    <2> QED
      BY <2>14 DEF h
  <1>3. Spec => []Promise!Spaced
    BY ImplementsPacer, PromiseSpaced, PTL DEF KeepsPromise
  <1> QED
    BY <1>1, <1>2, <1>3, AdvertisedStep, TypeCorrect, PTL DEF Spec
=============================================================================
