------------------------- MODULE TradePricingProofs -------------------------
(***************************************************************************)
(* Proofs about TradePricing, for every number of handlers, slots and      *)
(* listings.  The inductive invariant BudgetInv relates the requests a     *)
(* price check has sent to how far it has come: two for each exchange that *)
(* is over, one for a first attempt that was refused, and one in flight.   *)
(* WholeInv adds what the answer holds so far: the slots before the one at *)
(* work, and the listings of the chunks fetched, from the cheapest on.     *)
(***************************************************************************)
EXTENDS TradePricing, SequenceTheorems, TLAPS

Over == 2 * (1 + Fetches(MaxListings))

(* What a handler at a place has spent, and what it has been told.         *)
Searching(place, j) ==
  /\ j.stage = "search" /\ j.out = <<>> /\ j.chunk = 0
  /\ j.sent = j.attempt + (IF place = "flying" THEN 1 ELSE 0)

Fetching(place, j) ==
  /\ j.stage = "fetch"
  /\ j.kept <= MaxListings /\ j.chunk * MaxFetch < j.kept
  /\ j.sent <= 2 + 2 * j.chunk + j.attempt + (IF place = "flying" THEN 1 ELSE 0)

Budget(place, j) ==
  /\ place = "idle" => j = NoJob
  /\ place \in {"waiting", "flying"} =>
       /\ Searching(place, j) \/ Fetching(place, j)
       /\ j.reply = "none" /\ j.heard # "denied"
  /\ place = "replied" =>
       /\ j.sent <= Over
       /\ j.reply = "expired" <=> j.heard = "denied"

BudgetInv ==
  /\ TypeOK
  /\ \A h \in Handlers : Budget(pc[h], job[h])

----------------------------------------------------------------------------
(* Before the last chunk of n listings, at most Fetches(n) - 1 were        *)
(* fetched (the loop of Fetch, client.go:91-95).                           *)
LEMMA ChunksBound ==
  ASSUME NEW n \in Nat, NEW c \in Nat, c * MaxFetch < n
  PROVE  Fetches(n) \in Nat /\ c + 1 <= Fetches(n)
<1> DEFINE M == MaxFetch
           q == Fetches(n)
<1>1. M \in Nat /\ M >= 1
  BY SizesAssumption
<1>2. q \in Int /\ n + M - 1 < M * (q + 1)
  BY <1>1 DEF Fetches
<1>3. c * M < M * q
  <2>1. M * (q + 1) = M * q + M
    BY <1>1, <1>2
  <2> QED BY <2>1, <1>1, <1>2
<1>4. c < q
  <2>1. SUFFICES ASSUME q <= c PROVE FALSE
    BY <1>2
  <2>2. M * q <= M * c
    BY <2>1, <1>1, <1>2
  <2> QED BY <2>2, <1>1, <1>2, <1>3
<1> QED BY <1>2, <1>4

(* So the cost of a check that fetched c chunks and is owed a request is   *)
(* within the bound.                                                       *)
LEMMA ChunksCost ==
  ASSUME NEW c \in Nat, NEW k \in Nat, k <= MaxListings, c * MaxFetch < k
  PROVE  Over \in Nat /\ 4 + 2 * c <= Over
<1>1. MaxListings \in Nat /\ MaxFetch \in Nat
  BY SizesAssumption
<1>2. c * MaxFetch < MaxListings
  BY <1>1
<1>3. Fetches(MaxListings) \in Nat /\ c + 1 <= Fetches(MaxListings)
  BY <1>1, <1>2, ChunksBound
<1> QED BY <1>3 DEF Over

(* A search costs two requests at most.                                    *)
LEMMA SearchCost == Over \in Nat /\ 4 <= Over
<1>1. MaxListings \in Nat /\ MaxListings >= 1 /\ MaxFetch \in Nat
  BY SizesAssumption
<1>2. 0 * MaxFetch < MaxListings
  BY <1>1
<1> QED BY <1>1, <1>2, ChunksCost

(* An answer holds listings of its chunk, each once, in rising order        *)
(* (Fetch, client.go:91-119).                                              *)
LEMMA ChunkRanks ==
  ASSUME NEW j \in Job, NEW answer \in Answers(Chunk(j))
  PROVE  /\ Chunk(j) \subseteq Nat /\ answer \in Seq(Nat)
         /\ Len(answer) \in Nat /\ Rising(answer)
         /\ \A k \in 1..Len(answer) : answer[k] \in Chunk(j)
<1>1. MaxFetch \in Nat /\ j.chunk \in Nat /\ j.kept \in Nat
  BY SizesAssumption DEF Job
<1>2. (j.chunk * MaxFetch) + 1 \in Nat /\ Smaller((j.chunk + 1) * MaxFetch, j.kept) \in Nat
  BY <1>1 DEF Smaller
<1>3. Chunk(j) \subseteq Nat
  BY <1>2 DEF Chunk
<1> DEFINE C == Chunk(j)
<1> HIDE DEF C
<1>4. PICK n \in 0..MaxFetch : answer \in [1..n -> C]
  BY DEF Answers, C
<1>5. n \in Nat /\ C \subseteq Nat
  BY <1>1, <1>3 DEF C
<1>8. \A k \in 1..n : answer[k] \in C
  BY <1>4
<1>9. answer \in [1..n -> Nat]
  BY <1>4, <1>5
<1>10. answer \in Seq(Nat)
  BY <1>5, <1>9
<1>11. DOMAIN answer = 1..n
  BY <1>4
<1>12. Len(answer) = n
  BY <1>5, <1>10, <1>11
<1>6. answer \in Seq(Nat) /\ Len(answer) = n /\ \A k \in 1..n : answer[k] \in C
  BY <1>8, <1>10, <1>12
<1>7. Rising(answer)
  BY DEF Answers
<1> QED BY <1>3, <1>5, <1>6, <1>7 DEF C

(* A check starts within the types, and within the budget.                 *)
LEMMA NoJobTyped == NoJob \in Job
BY SizesAssumption DEF NoJob, Job

LEMMA CheckStarts ==
  ASSUME NEW j \in Job, NEW s \in 1..Slots, j.heard # "denied"
  PROVE  StartCheck(j, s) \in Job /\ Budget("waiting", StartCheck(j, s))
<1>1. StartCheck(j, s) \in Job
  BY NoJobTyped DEF StartCheck, Job
<1>2. Budget("waiting", StartCheck(j, s))
  BY DEF StartCheck, NoJob, Job, Budget, Searching
<1> QED BY <1>1, <1>2

LEMMA NewJob ==
  ASSUME NEW s \in 1..Slots, NEW t \in 1..Slots
  PROVE  LET k == [StartCheck(NoJob, s) EXCEPT !.to = t] IN
         k \in Job /\ Budget("waiting", k)
<1> DEFINE c == StartCheck(NoJob, s)
           k == [c EXCEPT !.to = t]
<1>1. NoJob \in Job /\ NoJob.heard = "none"
  BY NoJobTyped DEF NoJob
<1>2. c \in Job /\ Budget("waiting", c)
  BY <1>1, CheckStarts
<1> HIDE DEF c
<1>3. k \in Job
  BY <1>2 DEF Job
<1>4. /\ k.stage = c.stage /\ k.out = c.out /\ k.chunk = c.chunk /\ k.sent = c.sent
      /\ k.attempt = c.attempt /\ k.reply = c.reply /\ k.heard = c.heard /\ k.kept = c.kept
  BY <1>2 DEF Job
<1> HIDE DEF k
<1>5. Budget("waiting", k)
  BY <1>2, <1>4 DEF Budget, Searching, Fetching
<1> QED BY <1>3, <1>5 DEF c, k

(* One handler moves; the others keep what they have.                      *)
LEMMA OneHandlerMoves ==
  ASSUME BudgetInv, NEW h \in Handlers, NEW j \in Job,
         NEW place \in {"idle", "waiting", "flying", "replied"},
         Budget(place, j), Become(h, place, j)
  PROVE  BudgetInv'
<1>1. TypeOK'
  BY DEF BudgetInv, TypeOK, Become
<1>2. ASSUME NEW g \in Handlers PROVE Budget(pc'[g], job'[g])
  <2>1. CASE g = h
    BY <2>1 DEF BudgetInv, TypeOK, Become
  <2>2. CASE g # h
    BY <2>2 DEF BudgetInv, TypeOK, Become
  <2> QED BY <2>1, <2>2
<1> QED BY <1>1, <1>2 DEF BudgetInv, Budget, Searching, Fetching

(* An error ends the handler within the budget: it is called for a request *)
(* that was sent or is owed.                                               *)
LEMMA FailureStep ==
  ASSUME BudgetInv, NEW h \in Handlers, pc[h] \in {"waiting", "flying"},
         NEW why \in {"none", "ok", "limited", "denied", "error", "lost"},
         Failure(h, why)
  PROVE  BudgetInv'
<1>1. job[h] \in Job /\ Budget(pc[h], job[h])
  BY DEF BudgetInv, TypeOK
<1>2. job[h].sent <= Over
  <2>1. CASE Searching(pc[h], job[h])
    BY <2>1, <1>1, SearchCost DEF Searching, Job
  <2>2. CASE Fetching(pc[h], job[h])
    BY <2>2, <1>1, ChunksCost DEF Fetching, Job
  <2> QED BY <1>1, <2>1, <2>2 DEF Budget
<1>3. Fails(h, why) \in Job /\ Budget("replied", Fails(h, why))
  BY <1>1, <1>2 DEF Fails, Job, Budget
<1> QED BY <1>3, OneHandlerMoves DEF Failure

(* A slot is over: the next one starts, or the request is answered.        *)
LEMMA NextSlotStep ==
  ASSUME BudgetInv, NEW h \in Handlers, NEW j \in Job,
         j.sent <= Over, j.reply = "none", j.heard = "ok", NextSlot(h, j)
  PROVE  BudgetInv'
<1> DEFINE result == [slot |-> j.slot, found |-> j.found, gone |-> j.gone, listings |-> j.out]
<1>1. Append(j.priced, result) \in Seq(Result)
  <2>1. result \in Result /\ j.priced \in Seq(Result)
    BY DEF Job, Result
  <2> HIDE DEF result
  <2> QED BY <2>1
<1> HIDE DEF result
<1>2. /\ Priced(j) \in Job /\ Priced(j).heard = "ok" /\ Priced(j).reply = "none"
      /\ Priced(j).sent = j.sent
  BY <1>1 DEF Priced, Job, result
<1>3. CASE MoreSlots(j)
  <2>1. j.slot + 1 \in 1..Slots
    BY <1>3, SizesAssumption DEF Job, MoreSlots
  <2>2. Become(h, "waiting", StartCheck(Priced(j), j.slot + 1))
    BY <1>3 DEF NextSlot, MoreSlots
  <2> QED BY <2>1, <2>2, <1>2, CheckStarts, OneHandlerMoves
<1>4. CASE ~MoreSlots(j)
  <2> DEFINE k == [Priced(j) EXCEPT !.reply = "ok"]
  <2>1. k \in Job /\ Budget("replied", k)
    BY <1>2 DEF Job, Budget
  <2>2. Become(h, "replied", k)
    BY <1>4 DEF NextSlot
  <2> QED BY <2>1, <2>2, OneHandlerMoves
<1> QED BY <1>3, <1>4

----------------------------------------------------------------------------
(* Every step of a handler keeps the budget.                               *)
LEMMA BudgetStep ==
  ASSUME BudgetInv, [Next]_vars
  PROVE  BudgetInv'
<1>1. CASE UNCHANGED vars
  BY <1>1 DEF BudgetInv, TypeOK, Budget, Searching, Fetching, vars
<1>2. ASSUME NEW h \in Handlers,
             \/ Upgrades(h) \/ PriceOne(h) \/ Send(h) \/ GiveUp(h) \/ Lose(h) \/ Reject(h)
             \/ Limited(h) \/ Found(h) \/ Fetched(h) \/ Respond(h)
      PROVE  BudgetInv'
  <2> DEFINE j == job[h]
  <2>0. /\ j \in Job /\ Budget(pc[h], j) /\ SizesAssumption
        /\ pc[h] \in {"idle", "waiting", "flying", "replied"}
    BY SizesAssumption DEF BudgetInv, TypeOK
  <2>9. CASE pc[h] = "idle" /\ Decline(h)
    <3> DEFINE k == [NoJob EXCEPT !.reply = "error"]
    <3>1. k \in Job
      BY NoJobTyped DEF Job
    <3>2. k.sent = 0 /\ k.reply = "error" /\ k.heard = "none"
      BY DEF NoJob
    <3>3. Become(h, "replied", k)
      BY <2>9 DEF Decline
    <3> HIDE DEF k
    <3> QED BY <3>1, <3>2, <3>3, SearchCost, OneHandlerMoves DEF Budget
  <2>1. CASE Upgrades(h) /\ ~Decline(h)
    <3>1. PICK limit \in {1, Slots} :
            Become(h, "waiting", [StartCheck(NoJob, 1) EXCEPT !.to = limit])
      BY <2>1 DEF Upgrades
    <3> QED BY <3>1, SizesAssumption, NewJob, OneHandlerMoves
  <2>2. CASE PriceOne(h) /\ ~Decline(h)
    <3>1. PICK s \in 1..Slots : Become(h, "waiting", [StartCheck(NoJob, s) EXCEPT !.to = s])
      BY <2>2 DEF PriceOne
    <3> QED BY <3>1, SizesAssumption, NewJob, OneHandlerMoves
  <2>3. CASE Send(h)
    <3> DEFINE k == [j EXCEPT !.sent = @ + 1]
    <3>1. pc[h] = "waiting" /\ Become(h, "flying", k)
      BY <2>3 DEF Send
    <3>2. /\ k \in Job /\ k.sent = j.sent + 1 /\ k.stage = j.stage /\ k.attempt = j.attempt
          /\ k.chunk = j.chunk /\ k.kept = j.kept /\ k.out = j.out
          /\ k.reply = j.reply /\ k.heard = j.heard
      <4> HIDE DEF j
      <4>0. j.sent + 1 \in Nat
        BY <2>0 DEF Job
      <4>1. k \in Job
        BY <2>0, <4>0 DEF Job
      <4>2. k.sent = j.sent + 1 /\ k.stage = j.stage /\ k.attempt = j.attempt /\ k.chunk = j.chunk
        BY <2>0 DEF Job
      <4>3. k.kept = j.kept /\ k.out = j.out /\ k.reply = j.reply /\ k.heard = j.heard
        BY <2>0 DEF Job
      <4> QED BY <4>1, <4>2, <4>3
    <3>3. /\ j.sent \in Nat /\ j.attempt \in Nat /\ j.chunk \in Nat
      BY <2>0 DEF Job
    <3> HIDE DEF k
    <3>4. CASE Searching("waiting", j)
      BY <2>0, <3>1, <3>2, <3>3, <3>4, OneHandlerMoves DEF Budget, Searching
    <3>5. CASE Fetching("waiting", j)
      <4>1. Fetching("flying", k)
        BY <3>2, <3>3, <3>5 DEF Fetching
      <4> QED BY <2>0, <3>1, <3>2, <4>1, OneHandlerMoves DEF Budget
    <3> QED BY <2>0, <3>1, <3>4, <3>5 DEF Budget
  <2>4. CASE GiveUp(h) \/ Lose(h) \/ Reject(h)
    BY <2>0, <2>4, FailureStep DEF GiveUp, Lose, Reject, Job
  <2>5. CASE Limited(h)
    <3>1. CASE MayRetry(j)
      <4> DEFINE k == [j EXCEPT !.attempt = 1, !.heard = "limited"]
      <4>1. pc[h] = "flying" /\ Become(h, "waiting", k)
        BY <2>5, <3>1 DEF Limited
      <4>2. /\ k \in Job /\ k.sent = j.sent /\ k.stage = j.stage /\ k.attempt = 1
            /\ k.chunk = j.chunk /\ k.kept = j.kept /\ k.out = j.out
            /\ k.reply = j.reply /\ k.heard = "limited"
        <5>1. k \in Job
          BY <2>0 DEF Job
        <5>2. k.sent = j.sent /\ k.stage = j.stage /\ k.attempt = 1 /\ k.chunk = j.chunk
          BY <2>0 DEF Job
        <5>3. k.kept = j.kept /\ k.out = j.out /\ k.reply = j.reply /\ k.heard = "limited"
          BY <2>0 DEF Job
        <5> QED BY <5>1, <5>2, <5>3
      <4>3. j.sent \in Nat /\ j.attempt = 0 /\ j.chunk \in Nat
        BY <2>0, <3>1 DEF Job, MayRetry
      <4> HIDE DEF k
      <4>4. CASE Searching("flying", j)
        <5>1. Searching("waiting", k)
          BY <4>2, <4>3, <4>4 DEF Searching
        <5> QED BY <2>0, <4>1, <4>2, <5>1, OneHandlerMoves DEF Budget
      <4>5. CASE Fetching("flying", j)
        <5>1. Fetching("waiting", k)
          BY <4>2, <4>3, <4>5 DEF Fetching
        <5> QED BY <2>0, <4>1, <4>2, <5>1, OneHandlerMoves DEF Budget
      <4> QED BY <2>0, <4>1, <4>4, <4>5 DEF Budget
    <3>2. CASE ~MayRetry(j)
      BY <2>0, <2>5, <3>2, FailureStep DEF Limited
    <3> QED BY <3>1, <3>2
  <2>6. CASE Found(h)
    <3>1. PICK n \in Matches :
            LET k == [j EXCEPT !.found = n, !.kept = Kept(n), !.heard = "ok"] IN
            IF Kept(n) = 0
            THEN NextSlot(h, k)
            ELSE Become(h, "waiting", [k EXCEPT !.stage = "fetch", !.attempt = 0])
      BY <2>6 DEF Found
    <3> DEFINE k == [j EXCEPT !.found = n, !.kept = Kept(n), !.heard = "ok"]
    <3>2. Kept(n) \in Nat /\ Kept(n) <= MaxListings /\ n \in Nat /\ MaxFetch \in Nat
      BY SizesAssumption DEF Kept, Smaller
    <3>7. pc[h] = "flying" /\ j.stage = "search"
      BY <2>6 DEF Found
    <3>8. Searching("flying", j) /\ j.reply = "none"
      BY <2>0, <3>7 DEF Budget, Fetching
    <3>3. j.chunk = 0 /\ j.sent <= 2 /\ j.reply = "none"
      BY <2>0, <3>8 DEF Searching, Job
    <3>4. /\ k \in Job /\ k.sent = j.sent /\ k.reply = "none" /\ k.heard = "ok"
          /\ k.kept = Kept(n) /\ k.chunk = 0
      BY <2>0, <3>2, <3>3 DEF Job
    <3> HIDE DEF k
    <3>5. CASE Kept(n) = 0
      <4>1. k.sent <= Over
        BY <3>3, <3>4, SearchCost DEF Job
      <4>2. NextSlot(h, k)
        BY <3>1, <3>5 DEF k
      <4> QED BY <3>4, <4>1, <4>2, NextSlotStep
    <3>6. CASE Kept(n) # 0
      <4> DEFINE m == [k EXCEPT !.stage = "fetch", !.attempt = 0]
      <4>1. 0 * MaxFetch < Kept(n)
        BY <3>2, <3>6
      <4>2. /\ m \in Job /\ m.sent = j.sent /\ m.stage = "fetch" /\ m.attempt = 0
            /\ m.chunk = 0 /\ m.kept = Kept(n) /\ m.reply = "none" /\ m.heard = "ok"
        <5>1. m \in Job
          BY <3>4 DEF Job
        <5>2. m.sent = j.sent /\ m.stage = "fetch" /\ m.attempt = 0 /\ m.chunk = 0
          BY <3>4 DEF Job
        <5>3. m.kept = Kept(n) /\ m.reply = "none" /\ m.heard = "ok"
          BY <3>4 DEF Job
        <5> QED BY <5>1, <5>2, <5>3
      <4>3. Become(h, "waiting", m)
        BY <3>1, <3>6 DEF k
      <4> HIDE DEF m
      <4>4. Fetching("waiting", m)
        BY <2>0, <3>2, <3>3, <4>1, <4>2 DEF Fetching, Job
      <4> QED BY <4>2, <4>3, <4>4, OneHandlerMoves DEF Budget
    <3> QED BY <3>5, <3>6
  <2>7. CASE Fetched(h)
    <3>0. PICK answer \in Answers(Chunk(j)) :
            LET k == [j EXCEPT !.chunk = @ + 1, !.out = @ \o answer, !.heard = "ok",
                               !.gone = @ \cup (Chunk(j) \ Listed(answer))] IN
            IF k.chunk * MaxFetch < k.kept
            THEN Become(h, "waiting", [k EXCEPT !.attempt = 0])
            ELSE NextSlot(h, k)
      BY <2>7 DEF Fetched
    <3> DEFINE k == [j EXCEPT !.chunk = @ + 1, !.out = @ \o answer, !.heard = "ok",
                              !.gone = @ \cup (Chunk(j) \ Listed(answer))]
    <3>1. Fetching("flying", j) /\ j.reply = "none"
      BY <2>0, <2>7 DEF Fetched, Budget, Searching
    <3>2. answer \in Seq(Nat) /\ Chunk(j) \subseteq Nat
      BY <2>0, ChunkRanks
    <3>3. /\ j.out \o answer \in Seq(Nat)
          /\ j.gone \cup (Chunk(j) \ Listed(answer)) \in SUBSET Nat
      <4>1. j.out \in Seq(Nat) /\ j.gone \subseteq Nat
        BY <2>0 DEF Job
      <4> HIDE DEF j
      <4> QED BY <3>2, <4>1
    <3>8. /\ j.sent \in Nat /\ j.attempt \in {0, 1} /\ j.chunk \in Nat /\ j.kept \in Nat
          /\ j.chunk + 1 \in Nat
      BY <2>0 DEF Job
    <3>4. /\ k \in Job /\ k.sent = j.sent /\ k.reply = "none" /\ k.heard = "ok"
          /\ k.kept = j.kept /\ k.chunk = j.chunk + 1 /\ k.stage = j.stage
      <4>1. k \in Job
        BY <2>0, <3>3, <3>8 DEF Job
      <4>2. /\ k.sent = j.sent /\ k.reply = "none" /\ k.heard = "ok"
            /\ k.kept = j.kept /\ k.chunk = j.chunk + 1 /\ k.stage = j.stage
        BY <2>0, <3>1 DEF Job
      <4> QED BY <4>1, <4>2
    <3>5. k.sent <= 4 + 2 * j.chunk
      <4>1. j.sent <= 2 + 2 * j.chunk + j.attempt + 1
        BY <3>1 DEF Fetching
      <4>2. k.sent = j.sent
        BY <3>4
      <4> HIDE DEF k, j
      <4> QED BY <4>1, <4>2, <3>8
    <3> HIDE DEF k
    <3>6. CASE k.chunk * MaxFetch < k.kept
      <4> DEFINE m == [k EXCEPT !.attempt = 0]
      <4>1. /\ m \in Job /\ m.chunk = k.chunk /\ m.kept = k.kept /\ m.sent = k.sent
            /\ m.stage = k.stage /\ m.attempt = 0 /\ m.reply = "none" /\ m.heard = "ok"
        <5>1. m \in Job
          BY <3>4 DEF Job
        <5>2. m.chunk = k.chunk /\ m.kept = k.kept /\ m.sent = k.sent /\ m.stage = k.stage
          BY <3>4 DEF Job
        <5>3. m.attempt = 0 /\ m.reply = "none" /\ m.heard = "ok"
          BY <3>4 DEF Job
        <5> QED BY <5>1, <5>2, <5>3
      <4> HIDE DEF m
      <4>2. Fetching("waiting", m)
        <5>1. m.stage = "fetch" /\ m.kept <= MaxListings /\ m.chunk * MaxFetch < m.kept
          BY <3>1, <3>4, <3>6, <4>1 DEF Fetching
        <5>2. m.sent <= 2 + 2 * m.chunk + m.attempt
          <6>1. m.sent <= 4 + 2 * j.chunk /\ m.chunk = j.chunk + 1 /\ m.attempt = 0
            BY <3>4, <3>5, <4>1
          <6> HIDE DEF j
          <6> QED BY <6>1, <3>8
        <5>3. m.sent \in Nat /\ m.chunk \in Nat /\ m.attempt = 0
          BY <4>1 DEF Job
        <5> QED BY <5>1, <5>2, <5>3 DEF Fetching
      <4>3. Become(h, "waiting", m)
        BY <3>0, <3>6 DEF k, m
      <4> QED BY <4>1, <4>2, <4>3, OneHandlerMoves DEF Budget
    <3>7. CASE ~(k.chunk * MaxFetch < k.kept)
      <4>1. j.chunk \in Nat /\ j.kept \in Nat /\ k.sent \in Nat
        BY <2>0, <3>4 DEF Job
      <4>2. k.sent <= Over
        BY <3>1, <3>5, <4>1, ChunksCost DEF Fetching
      <4>3. NextSlot(h, k)
        BY <3>0, <3>7 DEF k
      <4> QED BY <3>4, <4>2, <4>3, NextSlotStep
    <3> QED BY <3>6, <3>7
  <2>8. CASE Respond(h)
    <3>1. Budget("idle", NoJob)
      BY DEF Budget
    <3> QED BY <2>8, <3>1, NoJobTyped, OneHandlerMoves DEF Respond
  <2> QED BY <1>2, <2>1, <2>2, <2>3, <2>4, <2>5, <2>6, <2>7, <2>8, <2>9 DEF Upgrades, PriceOne
<1> QED BY <1>1, <1>2 DEF Next

(* The budget gives the bound on the requests: what was spent on a search  *)
(* or on the chunks so far is below it, and what is over stayed below it.  *)
LEMMA BudgetBounds ==
  ASSUME BudgetInv
  PROVE  TypeOK /\ RequestBound /\ ExpiryIsTold
<1>1. ASSUME NEW h \in Handlers
      PROVE  /\ job[h].sent <= Over
             /\ (job[h].reply = "expired") = (job[h].heard = "denied")
             /\ job[h].heard = "denied" => pc[h] = "replied"
  <2>1. /\ job[h] \in Job /\ Budget(pc[h], job[h])
        /\ pc[h] \in {"idle", "waiting", "flying", "replied"}
    BY DEF BudgetInv, TypeOK
  <2>2. CASE pc[h] = "idle"
    BY <2>1, <2>2, SearchCost DEF Budget, NoJob
  <2>3. CASE pc[h] = "replied"
    BY <2>1, <2>3 DEF Budget
  <2>4. CASE Searching(pc[h], job[h]) /\ pc[h] \in {"waiting", "flying"}
    <3>1. job[h].sent <= 2 /\ job[h].sent \in Nat
      BY <2>1, <2>4 DEF Searching, Job
    <3> QED BY <2>1, <2>4, <3>1, SearchCost DEF Budget
  <2>5. CASE Fetching(pc[h], job[h]) /\ pc[h] \in {"waiting", "flying"}
    BY <2>1, <2>5, ChunksCost DEF Budget, Fetching, Job
  <2> QED BY <2>1, <2>2, <2>3, <2>4, <2>5 DEF Budget
<1> QED BY <1>1 DEF BudgetInv, RequestBound, ExpiryIsTold, Over

LEMMA BudgetInvariant == Spec => []BudgetInv
<1>1. Init => BudgetInv
  BY NoJobTyped DEF Init, BudgetInv, TypeOK, Budget
<1>2. BudgetInv /\ [Next]_vars => BudgetInv'
  BY BudgetStep
<1> QED BY <1>1, <1>2, PTL DEF Spec

(* However often the trade host answers 429, and whatever fails, a price   *)
(* check sends two requests at most for its search and for each chunk of   *)
(* ten (PriceCheck, client.go:54-72, and do, 124-170).                     *)
THEOREM RequestsBounded == Spec => []RequestBound
<1>1. BudgetInv => RequestBound
  BY BudgetBounds
<1> QED BY <1>1, BudgetInvariant, PTL

(* An expired trade session is told as such and ends the handler, and no   *)
(* other error is taken for it (server.go:215-219 and 257-261).            *)
THEOREM ExpiryTold == Spec => []ExpiryIsTold
<1>1. BudgetInv => ExpiryIsTold
  BY BudgetBounds
<1> QED BY <1>1, BudgetInvariant, PTL
----------------------------------------------------------------------------
(* What an answer holds, on the way to it: the slots priced so far are     *)
(* those before the slot at work, without a gap, each with the cheapest of *)
(* its matches that were to be had; and a check that has fetched some      *)
(* chunks holds the listings of these chunks from the first one on.        *)
(* WholeAnswers itself says nothing of a handler that is not done yet.     *)
Holds(listings, n, gone) == Rising(listings) /\ Listed(listings) = (1..n) \ gone

PricedUpTo(results, s) ==
  \A i \in 1..Len(results) :
    /\ results[i].slot = s - Len(results) + i
    /\ Holds(results[i].listings, Kept(results[i].found), results[i].gone)

Collected(j) ==
  /\ PricedUpTo(j.priced, j.slot - 1)
  /\ j.slot <= j.to
  /\ j.stage = "search" => j.gone = {}
  /\ j.stage = "fetch" =>
       /\ j.kept = Kept(j.found)
       /\ Holds(j.out, j.chunk * MaxFetch, j.gone)
       /\ j.gone \subseteq 1..(j.chunk * MaxFetch)

Whole(place, j) ==
  /\ place \in {"waiting", "flying"} => Collected(j)
  /\ j.reply = "ok" => j.priced # <<>> /\ PricedUpTo(j.priced, j.to)

WholeInv ==
  /\ BudgetInv
  /\ \A h \in Handlers : Whole(pc[h], job[h])

(* No listing at all: what a check holds before its first fetch.           *)
LEMMA HoldsNothing == Holds(<<>>, 0, {})
BY DEF Holds, Rising, Listed

(* The chunks join without a seam: what was held of the first a ids, and   *)
(* then the answer for the ids above a up to b, hold what was to be had of *)
(* the first b (the loop of Fetch, client.go:91-119).                      *)
LEMMA HoldsJoin ==
  ASSUME NEW a \in Nat, NEW b \in Nat, a <= b, NEW s \in Seq(Nat), NEW t \in Seq(Nat),
         NEW gone \in SUBSET (1..a), Holds(s, a, gone), Rising(t),
         \A k \in 1..Len(t) : t[k] \in (a + 1)..b
  PROVE  Holds(s \o t, b, gone \cup (((a + 1)..b) \ Listed(t)))
<1> DEFINE u == s \o t
           m == Len(s)
           n == Len(t)
<1>1. /\ u \in Seq(Nat) /\ Len(u) = m + n /\ m \in Nat /\ n \in Nat
      /\ \A k \in 1..(m + n) : u[k] = IF k <= m THEN s[k] ELSE t[k - m]
  BY ConcatProperties
<1>2. \A k \in 1..m : s[k] \in 1..a
  BY DEF Holds, Listed
<1> HIDE DEF u
<1>3. ASSUME NEW i \in 1..Len(u), NEW k \in 1..Len(u), i < k PROVE u[i] < u[k]
  <2>0. i \in 1..(m + n) /\ k \in 1..(m + n) /\ i < k
    BY <1>1, <1>3
  <2> HIDE DEF m, n
  <2>1. CASE k <= m
    <3>1. i \in 1..m /\ k \in 1..m /\ u[i] = s[i] /\ u[k] = s[k]
      BY <1>1, <2>0, <2>1
    <3> QED BY <2>0, <3>1 DEF Holds, Rising, m
  <2>2. CASE i <= m /\ ~(k <= m)
    <3>1. i \in 1..m /\ k - m \in 1..n /\ u[i] = s[i] /\ u[k] = t[k - m]
      BY <1>1, <2>0, <2>2
    <3>2. s[i] \in 1..a /\ t[k - m] \in (a + 1)..b
      BY <1>2, <3>1 DEF n
    <3> QED BY <3>1, <3>2
  <2>3. CASE ~(i <= m)
    <3>1. /\ i - m \in 1..n /\ k - m \in 1..n /\ i - m < k - m
          /\ u[i] = t[i - m] /\ u[k] = t[k - m]
      BY <1>1, <2>0, <2>3
    <3> QED BY <3>1 DEF Rising, n
  <2> QED BY <2>1, <2>2, <2>3
<1>4. Listed(u) = Listed(s) \cup Listed(t)
  <2>1. ASSUME NEW k \in 1..Len(u) PROVE u[k] \in Listed(s) \cup Listed(t)
    <3>0. k \in 1..(m + n)
      BY <1>1
    <3>1. CASE k <= m
      <4>1. k \in 1..m /\ u[k] = s[k]
        BY <1>1, <3>0, <3>1
      <4> QED BY <4>1 DEF Listed
    <3>2. CASE ~(k <= m)
      <4>1. k - m \in 1..n /\ u[k] = t[k - m]
        BY <1>1, <3>0, <3>2
      <4> QED BY <4>1 DEF Listed
    <3> QED BY <3>1, <3>2
  <2>2. ASSUME NEW k \in 1..m PROVE s[k] \in Listed(u)
    <3>1. k \in 1..Len(u) /\ u[k] = s[k]
      BY <1>1
    <3> QED BY <3>1 DEF Listed
  <2>3. ASSUME NEW k \in 1..n PROVE t[k] \in Listed(u)
    <3>1. m + k \in 1..(m + n) /\ ~(m + k <= m) /\ (m + k) - m = k
      BY <1>1
    <3>2. m + k \in 1..Len(u) /\ u[m + k] = t[k]
      BY <1>1, <3>1
    <3> QED BY <3>2 DEF Listed
  <2> QED BY <2>1, <2>2, <2>3 DEF Listed
<1>5. Listed(t) \subseteq (a + 1)..b /\ Listed(s) = (1..a) \ gone
  BY DEF Listed, Holds
<1>6. (1..b) = (1..a) \cup ((a + 1)..b) /\ (1..a) \cap ((a + 1)..b) = {}
  OBVIOUS
<1> DEFINE T == Listed(t)
           C == (a + 1)..b
           A == 1..a
<1>7. T \subseteq C /\ gone \subseteq A /\ A \cap C = {} /\ (1..b) = A \cup C
      /\ Listed(u) = (A \ gone) \cup T
  BY <1>4, <1>5, <1>6
<1>8. Listed(u) = (1..b) \ (gone \cup (C \ T))
  <2> HIDE DEF T, C, A
  <2> QED BY <1>7
<1> QED BY <1>3, <1>8 DEF Holds, Rising, u

(* A chunk more: all the chunks before it are full, and the last one ends  *)
(* with the listings that were kept (client.go:91-119).                    *)
LEMMA ChunkJoins ==
  ASSUME NEW j \in Job, j.chunk * MaxFetch < j.kept, NEW answer \in Answers(Chunk(j)),
         Holds(j.out, j.chunk * MaxFetch, j.gone), j.gone \subseteq 1..(j.chunk * MaxFetch)
  PROVE  LET to == Smaller((j.chunk + 1) * MaxFetch, j.kept)
             missed == j.gone \cup (Chunk(j) \ Listed(answer)) IN
         Holds(j.out \o answer, to, missed) /\ missed \subseteq 1..to
<1> DEFINE from == j.chunk * MaxFetch
           to == Smaller((j.chunk + 1) * MaxFetch, j.kept)
<1>1. MaxFetch \in Nat /\ j.kept \in Nat /\ from \in Nat /\ j.chunk \in Nat
  BY SizesAssumption DEF Job
<1>2. (j.chunk + 1) * MaxFetch = from + MaxFetch
  BY <1>1
<1>3. to \in Nat /\ from <= to
  BY <1>1, <1>2 DEF Smaller
<1>4. Chunk(j) = (from + 1)..to
  BY DEF Chunk
<1>5. /\ answer \in Seq(Nat) /\ Rising(answer)
      /\ \A k \in 1..Len(answer) : answer[k] \in (from + 1)..to
  BY <1>4, ChunkRanks
<1>6. j.out \in Seq(Nat) /\ j.gone \in SUBSET (1..from) /\ Holds(j.out, from, j.gone)
  BY DEF Job
<1> HIDE DEF from, to
<1>7. Holds(j.out \o answer, to, j.gone \cup (((from + 1)..to) \ Listed(answer)))
  BY <1>1, <1>3, <1>5, <1>6, HoldsJoin
<1>8. j.gone \cup (((from + 1)..to) \ Listed(answer)) \subseteq 1..to
  BY <1>1, <1>3, <1>6
<1> QED BY <1>4, <1>7, <1>8 DEF from, to

(* A result more: the slots priced still end with the one just priced      *)
(* (handleUpgrades, server.go:212-225).                                    *)
LEMMA PricedGrows ==
  ASSUME NEW j \in Job, PricedUpTo(j.priced, j.slot - 1),
         Holds(j.out, Kept(j.found), j.gone)
  PROVE  PricedUpTo(Priced(j).priced, j.slot) /\ Priced(j).priced # <<>>
<1> DEFINE R == Result
           r == [slot |-> j.slot, found |-> j.found, gone |-> j.gone, listings |-> j.out]
           p == j.priced
           q == Append(p, r)
<1>1. p \in Seq(R) /\ r \in R /\ Len(p) \in Nat /\ j.slot \in Int
  BY SizesAssumption DEF Job, Result
<1>2. r.slot = j.slot /\ Holds(r.listings, Kept(r.found), r.gone)
  OBVIOUS
<1>3. Priced(j).priced = q
  BY DEF Priced, Job
<1> HIDE DEF r, R
<1>4. /\ q \in Seq(R) /\ Len(q) = Len(p) + 1 /\ q[Len(q)] = r
      /\ \A i \in 1..Len(p) : q[i] = p[i]
  BY <1>1
<1> HIDE DEF q
<1>5. ASSUME NEW i \in 1..Len(q)
      PROVE  /\ q[i].slot = j.slot - Len(q) + i
             /\ Holds(q[i].listings, Kept(q[i].found), q[i].gone)
  <2>1. CASE i = Len(q)
    <3>1. q[i] = r /\ Len(q) \in Nat
      BY <1>1, <1>4, <2>1
    <3> HIDE DEF p
    <3>2. q[i].slot = j.slot - Len(q) + i
      BY <1>1, <1>2, <2>1, <3>1
    <3> QED BY <1>2, <3>1, <3>2
  <2>2. CASE i # Len(q)
    <3>1. i \in 1..Len(p) /\ q[i] = p[i]
      BY <1>1, <1>4, <2>2
    <3>2. /\ p[i].slot = (j.slot - 1) - Len(p) + i
          /\ Holds(p[i].listings, Kept(p[i].found), p[i].gone)
      BY <3>1 DEF PricedUpTo
    <3>3. i \in Int
      OBVIOUS
    <3> HIDE DEF p
    <3> QED BY <1>1, <1>4, <3>1, <3>2, <3>3
  <2> QED BY <2>1, <2>2
<1>6. q # <<>>
  BY <1>1, <1>4
<1> QED BY <1>3, <1>5, <1>6 DEF PricedUpTo

(* The other handlers keep what they hold.                                 *)
LEMMA OneHandlerCollects ==
  ASSUME WholeInv, BudgetInv', NEW h \in Handlers, NEW j, NEW place,
         Whole(place, j), Become(h, place, j)
  PROVE  WholeInv'
<1>1. ASSUME NEW g \in Handlers PROVE Whole(pc'[g], job'[g])
  <2>1. CASE g = h
    BY <2>1 DEF WholeInv, BudgetInv, TypeOK, Become
  <2>2. CASE g # h
    BY <2>2 DEF WholeInv, BudgetInv, TypeOK, Become
  <2> QED BY <2>1, <2>2
<1> QED BY <1>1 DEF WholeInv, Whole, Collected, PricedUpTo

(* A slot whose check is complete: the next check begins behind it, or the *)
(* answer is whole (server.go:212-227).                                    *)
LEMMA NextSlotCollects ==
  ASSUME WholeInv, BudgetInv', NEW h \in Handlers, NEW j \in Job,
         j.reply = "none", PricedUpTo(j.priced, j.slot - 1), j.slot <= j.to,
         Holds(j.out, Kept(j.found), j.gone), NextSlot(h, j)
  PROVE  WholeInv'
<1> DEFINE k == Priced(j)
<1>1. /\ k.reply = "none" /\ k.to = j.to /\ k.slot = j.slot
      /\ PricedUpTo(k.priced, j.slot) /\ k.priced # <<>>
  BY PricedGrows DEF Priced, Job
<1>2. j.slot \in Nat /\ j.to \in Nat
  BY SizesAssumption DEF Job
<1>3. CASE MoreSlots(j)
  <2> DEFINE m == StartCheck(k, j.slot + 1)
  <2>1. /\ m.slot = j.slot + 1 /\ m.to = j.to /\ m.priced = k.priced
        /\ m.stage = "search" /\ m.reply = "none" /\ m.gone = {}
    BY <1>1 DEF StartCheck, NoJob
  <2>2. m.slot - 1 = j.slot /\ m.slot <= m.to
    BY <1>2, <1>3, <2>1 DEF MoreSlots
  <2>3. Become(h, "waiting", m)
    BY <1>3 DEF NextSlot
  <2> HIDE DEF m, k
  <2>4. Whole("waiting", m)
    BY <1>1, <2>1, <2>2 DEF Whole, Collected
  <2> QED BY <2>3, <2>4, OneHandlerCollects
<1>4. CASE ~MoreSlots(j)
  <2> DEFINE m == [k EXCEPT !.reply = "ok"]
  <2>1. m.priced = k.priced /\ m.to = j.to
    BY <1>1 DEF Priced, Job
  <2>2. j.to = j.slot
    BY <1>2, <1>4 DEF MoreSlots
  <2>3. Become(h, "replied", m)
    BY <1>4 DEF NextSlot
  <2> HIDE DEF m, k
  <2>4. Whole("replied", m)
    BY <1>1, <2>1, <2>2 DEF Whole
  <2> QED BY <2>3, <2>4, OneHandlerCollects
<1> QED BY <1>3, <1>4

(* Every step of a handler keeps what is collected whole.                  *)
LEMMA WholeStep ==
  ASSUME WholeInv, BudgetInv', [Next]_vars
  PROVE  WholeInv'
<1>1. CASE UNCHANGED vars
  BY <1>1 DEF WholeInv, Whole, Collected, PricedUpTo, vars
<1>2. ASSUME NEW h \in Handlers,
             \/ Upgrades(h) \/ PriceOne(h) \/ Send(h) \/ GiveUp(h) \/ Lose(h) \/ Reject(h)
             \/ Limited(h) \/ Found(h) \/ Fetched(h) \/ Respond(h)
      PROVE  WholeInv'
  <2> DEFINE j == job[h]
  <2>0. /\ j \in Job /\ Budget(pc[h], j) /\ Whole(pc[h], j)
    BY DEF WholeInv, BudgetInv, TypeOK
  <2>1. ASSUME NEW s \in 1..Slots, NEW t \in 1..Slots, s <= t,
               Become(h, "waiting", [StartCheck(NoJob, s) EXCEPT !.to = t])
        PROVE  WholeInv'
    <3> DEFINE k == [StartCheck(NoJob, s) EXCEPT !.to = t]
    <3>1. /\ k.slot = s /\ k.to = t /\ k.stage = "search" /\ k.reply = "none"
          /\ k.priced = <<>> /\ k.gone = {}
      BY DEF StartCheck, NoJob
    <3> HIDE DEF k
    <3>2. Whole("waiting", k)
      BY <2>1, <3>1 DEF Whole, Collected, PricedUpTo
    <3> QED BY <2>1, <3>2, OneHandlerCollects DEF k
  <2>11. CASE pc[h] = "idle" /\ Decline(h)
    <3> DEFINE k == [NoJob EXCEPT !.reply = "error"]
    <3>1. k.reply = "error"
      BY DEF NoJob
    <3>2. Become(h, "replied", k)
      BY <2>11 DEF Decline
    <3> HIDE DEF k
    <3>3. Whole("replied", k)
      BY <3>1 DEF Whole
    <3> QED BY <3>2, <3>3, OneHandlerCollects
  <2>2. CASE Upgrades(h) /\ ~Decline(h)
    <3>1. PICK limit \in {1, Slots} :
            Become(h, "waiting", [StartCheck(NoJob, 1) EXCEPT !.to = limit])
      BY <2>2 DEF Upgrades
    <3>2. 1 \in 1..Slots /\ limit \in 1..Slots /\ 1 <= limit
      BY SizesAssumption
    <3> QED BY <2>1, <3>1, <3>2
  <2>3. CASE PriceOne(h) /\ ~Decline(h)
    <3>1. PICK s \in 1..Slots : Become(h, "waiting", [StartCheck(NoJob, s) EXCEPT !.to = s])
      BY <2>3 DEF PriceOne
    <3>2. s <= s
      BY SizesAssumption
    <3> QED BY <2>1, <3>1, <3>2
  <2>4. CASE Send(h)
    <3> DEFINE k == [j EXCEPT !.sent = @ + 1]
    <3>1. pc[h] = "waiting" /\ Become(h, "flying", k)
      BY <2>4 DEF Send
    <3>2. /\ k.priced = j.priced /\ k.slot = j.slot /\ k.to = j.to /\ k.stage = j.stage
          /\ k.kept = j.kept /\ k.found = j.found /\ k.out = j.out /\ k.chunk = j.chunk
          /\ k.reply = j.reply /\ k.gone = j.gone
      BY <2>0 DEF Job
    <3> HIDE DEF k, j
    <3>3. Whole("flying", k)
      BY <2>0, <3>1, <3>2 DEF Whole, Collected
    <3> QED BY <3>1, <3>3, OneHandlerCollects
  <2>5. ASSUME NEW why, pc[h] \in {"waiting", "flying"}, Failure(h, why)
        PROVE  WholeInv'
    <3>1. Fails(h, why).reply \in {"expired", "error"}
      BY <2>0 DEF Fails, Job
    <3>2. Whole("replied", Fails(h, why))
      BY <3>1 DEF Whole
    <3> QED BY <2>5, <3>2, OneHandlerCollects DEF Failure
  <2>6. CASE GiveUp(h) \/ Lose(h) \/ Reject(h)
    BY <2>5, <2>6 DEF GiveUp, Lose, Reject
  <2>7. CASE Limited(h)
    <3>1. CASE MayRetry(j)
      <4> DEFINE k == [j EXCEPT !.attempt = 1, !.heard = "limited"]
      <4>1. pc[h] = "flying" /\ Become(h, "waiting", k)
        BY <2>7, <3>1 DEF Limited
      <4>2. /\ k.priced = j.priced /\ k.slot = j.slot /\ k.to = j.to /\ k.stage = j.stage
            /\ k.kept = j.kept /\ k.found = j.found /\ k.out = j.out /\ k.chunk = j.chunk
            /\ k.reply = j.reply /\ k.gone = j.gone
        BY <2>0 DEF Job
      <4> HIDE DEF k, j
      <4>3. Whole("waiting", k)
        BY <2>0, <4>1, <4>2 DEF Whole, Collected
      <4> QED BY <4>1, <4>3, OneHandlerCollects
    <3>2. CASE ~MayRetry(j)
      BY <2>5, <2>7, <3>2 DEF Limited
    <3> QED BY <3>1, <3>2
  <2>8. CASE Found(h)
    <3>1. PICK n \in Matches :
            LET k == [j EXCEPT !.found = n, !.kept = Kept(n), !.heard = "ok"] IN
            IF Kept(n) = 0
            THEN NextSlot(h, k)
            ELSE Become(h, "waiting", [k EXCEPT !.stage = "fetch", !.attempt = 0])
      BY <2>8 DEF Found
    <3> DEFINE k == [j EXCEPT !.found = n, !.kept = Kept(n), !.heard = "ok"]
    <3>2. n \in Nat /\ Kept(n) \in Nat /\ MaxFetch \in Nat
      BY SizesAssumption DEF Kept, Smaller
    <3>3. pc[h] = "flying" /\ j.stage = "search"
      BY <2>8 DEF Found
    <3>4. /\ Collected(j) /\ j.reply = "none" /\ j.chunk = 0 /\ j.out = <<>> /\ j.gone = {}
      BY <2>0, <3>3 DEF Whole, Budget, Searching, Fetching, Collected
    <3>5. /\ k \in Job /\ k.priced = j.priced /\ k.slot = j.slot /\ k.to = j.to
          /\ k.reply = "none" /\ k.chunk = 0 /\ k.out = <<>> /\ k.found = n /\ k.kept = Kept(n)
          /\ k.gone = {}
      BY <2>0, <3>2, <3>4 DEF Job
    <3> HIDE DEF k, j
    <3>7. CASE Kept(n) = 0
      <4>1. Holds(k.out, Kept(k.found), k.gone)
        BY <3>5, <3>7, HoldsNothing
      <4>2. NextSlot(h, k)
        BY <3>1, <3>7 DEF k
      <4>3. PricedUpTo(k.priced, k.slot - 1) /\ k.slot <= k.to
        BY <3>4, <3>5 DEF Collected
      <4> QED BY <3>5, <4>1, <4>2, <4>3, NextSlotCollects
    <3>8. CASE Kept(n) # 0
      <4> DEFINE m == [k EXCEPT !.stage = "fetch", !.attempt = 0]
      <4>1. /\ m.priced = j.priced /\ m.slot = j.slot /\ m.to = j.to /\ m.reply = "none"
            /\ m.chunk = 0 /\ m.out = <<>> /\ m.found = n /\ m.kept = Kept(n) /\ m.gone = {}
            /\ m.stage = "fetch"
        BY <3>5 DEF Job
      <4>2. Become(h, "waiting", m)
        BY <3>1, <3>8 DEF k
      <4> HIDE DEF m
      <4>3. m.chunk * MaxFetch = 0
        BY <3>2, <4>1
      <4>4. Whole("waiting", m)
        BY <3>4, <4>1, <4>3, HoldsNothing DEF Whole, Collected
      <4> QED BY <4>2, <4>4, OneHandlerCollects
    <3> QED BY <3>7, <3>8
  <2>9. CASE Fetched(h)
    <3>0. PICK answer \in Answers(Chunk(j)) :
            LET k == [j EXCEPT !.chunk = @ + 1, !.out = @ \o answer, !.heard = "ok",
                               !.gone = @ \cup (Chunk(j) \ Listed(answer))] IN
            IF k.chunk * MaxFetch < k.kept
            THEN Become(h, "waiting", [k EXCEPT !.attempt = 0])
            ELSE NextSlot(h, k)
      BY <2>9 DEF Fetched
    <3> DEFINE missed == j.gone \cup (Chunk(j) \ Listed(answer))
               k == [j EXCEPT !.chunk = @ + 1, !.out = @ \o answer, !.heard = "ok",
                              !.gone = missed]
    <3>1. pc[h] = "flying" /\ j.stage = "fetch"
      BY <2>9 DEF Fetched
    <3>2. /\ Collected(j) /\ j.reply = "none" /\ j.chunk * MaxFetch < j.kept
      BY <2>0, <3>1 DEF Whole, Budget, Searching, Fetching
    <3>3. /\ Holds(j.out, j.chunk * MaxFetch, j.gone) /\ j.kept = Kept(j.found)
          /\ j.gone \subseteq 1..(j.chunk * MaxFetch)
      BY <3>1, <3>2 DEF Collected
    <3>4. j.chunk + 1 \in Nat /\ j.kept \in Nat /\ MaxFetch \in Nat
      BY <2>0, SizesAssumption DEF Job
    <3>5. j.out \o answer \in Seq(Nat) /\ missed \in SUBSET Nat
      <4>1. answer \in Seq(Nat) /\ Chunk(j) \subseteq Nat
        BY <2>0, ChunkRanks
      <4>2. j.out \in Seq(Nat) /\ j.gone \subseteq Nat
        BY <2>0 DEF Job
      <4> HIDE DEF j
      <4> QED BY <4>1, <4>2
    <3>6. LET to == Smaller((j.chunk + 1) * MaxFetch, j.kept) IN
          Holds(j.out \o answer, to, missed) /\ missed \subseteq 1..to
      BY <2>0, <3>2, <3>3, ChunkJoins
    <3> HIDE DEF missed
    <3>7. /\ k.priced = j.priced /\ k.slot = j.slot /\ k.to = j.to /\ k.reply = "none"
          /\ k.found = j.found /\ k.kept = j.kept /\ k.chunk = j.chunk + 1
          /\ k.out = j.out \o answer /\ k.stage = "fetch" /\ k.gone = missed
          /\ k.heard = "ok"
      BY <2>0, <3>1, <3>2 DEF Job
    <3>8. k \in Job
      BY <2>0, <3>4, <3>5 DEF Job
    <3>9. (j.chunk + 1) * MaxFetch \in Nat
      BY <3>4
    <3>12. IF k.chunk * MaxFetch < k.kept
           THEN Become(h, "waiting", [k EXCEPT !.attempt = 0])
           ELSE NextSlot(h, k)
      BY <3>0 DEF missed
    <3> HIDE DEF k, j
    <3>10. CASE k.chunk * MaxFetch < k.kept
      <4> DEFINE m == [k EXCEPT !.attempt = 0]
      <4>1. /\ m.priced = j.priced /\ m.slot = j.slot /\ m.to = j.to /\ m.reply = "none"
            /\ m.found = j.found /\ m.kept = j.kept /\ m.chunk = j.chunk + 1
            /\ m.out = k.out /\ m.gone = k.gone /\ m.stage = "fetch"
        BY <3>7, <3>8 DEF Job
      <4>2. Smaller((j.chunk + 1) * MaxFetch, j.kept) = (j.chunk + 1) * MaxFetch
        BY <3>4, <3>7, <3>9, <3>10 DEF Smaller
      <4>5. /\ Holds(k.out, (j.chunk + 1) * MaxFetch, k.gone)
            /\ k.gone \subseteq 1..((j.chunk + 1) * MaxFetch)
        BY <3>6, <3>7, <4>2
      <4>3. Become(h, "waiting", m)
        BY <3>10, <3>12
      <4> HIDE DEF m
      <4>4. Whole("waiting", m)
        BY <3>2, <3>3, <4>1, <4>5 DEF Whole, Collected
      <4> QED BY <4>3, <4>4, OneHandlerCollects
    <3>11. CASE ~(k.chunk * MaxFetch < k.kept)
      <4>4. Smaller((j.chunk + 1) * MaxFetch, j.kept) = Kept(k.found)
        BY <3>3, <3>4, <3>7, <3>9, <3>11 DEF Smaller
      <4>1. Holds(k.out, Kept(k.found), k.gone)
        BY <3>6, <3>7, <4>4
      <4>2. NextSlot(h, k)
        BY <3>11, <3>12
      <4>3. PricedUpTo(k.priced, k.slot - 1) /\ k.slot <= k.to
        BY <3>2, <3>7 DEF Collected
      <4> QED BY <3>7, <3>8, <4>1, <4>2, <4>3, NextSlotCollects
    <3> QED BY <3>10, <3>11
  <2>10. CASE Respond(h)
    <3>1. Whole("idle", NoJob)
      BY DEF Whole, NoJob
    <3> QED BY <2>10, <3>1, OneHandlerCollects DEF Respond
  <2> QED BY <1>2, <2>2, <2>3, <2>4, <2>6, <2>7, <2>8, <2>9, <2>10, <2>11
          DEF Upgrades, PriceOne
<1> QED BY <1>1, <1>2 DEF Next

(* Whatever the sizes, and whichever listings the host no longer has, an   *)
(* answer of 200 prices the slots wanted without a gap, each with all of   *)
(* the cheapest matches that were to be had, in order and without a seam   *)
(* (handleUpgrades, server.go:212-227, Fetch, client.go:89-122).           *)
THEOREM AnswersAreWhole == Spec => []WholeAnswers
<1>1. Init => WholeInv
  BY NoJobTyped DEF Init, WholeInv, BudgetInv, TypeOK, Budget, Whole, NoJob
<1>2. WholeInv /\ BudgetInv' /\ [Next]_vars => WholeInv'
  BY WholeStep
<1>3. WholeInv => WholeAnswers
  <2> SUFFICES ASSUME WholeInv, NEW h \in Handlers, job[h].reply = "ok"
               PROVE  LET results == job[h].priced IN
                      /\ results # <<>> /\ results[Len(results)].slot = job[h].to
                      /\ \A i \in 1..Len(results) :
                           /\ results[i].slot = job[h].to - Len(results) + i
                           /\ Rising(results[i].listings)
                           /\ Listed(results[i].listings) =
                                (1..Kept(results[i].found)) \ results[i].gone
    BY DEF WholeAnswers
  <2> DEFINE results == job[h].priced
             R == Result
  <2>0. job[h] \in Job
    BY DEF WholeInv, BudgetInv, TypeOK
  <2>1. results \in Seq(R) /\ job[h].to \in Int
    BY <2>0, SizesAssumption DEF Job
  <2>2. results # <<>> /\ PricedUpTo(results, job[h].to)
    BY DEF WholeInv, Whole
  <2> HIDE DEF results, R
  <2>3. Len(results) \in 1..Len(results) /\ Len(results) \in Nat
    BY <2>1, <2>2
  <2>4. results[Len(results)].slot = job[h].to - Len(results) + Len(results)
    BY <2>2, <2>3 DEF PricedUpTo
  <2>5. results[Len(results)].slot = job[h].to
    BY <2>1, <2>3, <2>4
  <2> QED BY <2>2, <2>5 DEF PricedUpTo, Holds, results
<1> QED BY <1>1, <1>2, <1>3, BudgetInvariant, PTL DEF Spec
=============================================================================
