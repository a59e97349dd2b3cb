---------------------------- MODULE TradePricing ----------------------------
(***************************************************************************)
(* Live price checks: the trade client (internal/trade2/client.go) and the *)
(* two request handlers that drive it, handleUpgrades and handlePrice      *)
(* (internal/server/server.go).  A handler prices one slot after another;  *)
(* a price check is one search and then fetches of MaxFetch listings each; *)
(* every request goes through do, which asks once more after a 429.        *)
(*                                                                         *)
(* A listing is its rank in the answer of the search, which is sorted by   *)
(* price, so that 1 is the cheapest.  The total the host reports with it   *)
(* is handed on as it is, whatever it says, and left out.  The limiters    *)
(* that delay the requests are RateLimiter's subject: here a request is    *)
(* sent some time after it is wanted, or never.                            *)
(***************************************************************************)
EXTENDS Integers, Sequences

CONSTANTS Handlers,     \* request handlers running at the same time
          Slots,        \* slot reports, ranked 1..Slots by the scorer
          MaxFetch,     \* listing ids per fetch request
          MaxListings,  \* listings wanted per slot
          Matches       \* how many ids a search may return

ASSUME SizesAssumption ==
  /\ Slots \in Nat \ {0} /\ MaxFetch \in Nat \ {0} /\ MaxListings \in Nat \ {0}
  /\ Matches \subseteq Nat

VARIABLES pc,   \* where each handler is
          job   \* what each is doing, see Job

vars == <<pc, job>>

Smaller(a, b) == IF a < b THEN a ELSE b

(* Listings, each once and none before a cheaper one.                      *)
Rising(s) == \A i, k \in 1..Len(s) : i < k => s[i] < s[k]
Listed(s) == {s[i] : i \in 1..Len(s)}

(* The requests a price check of n listings needs.                         *)
Fetches(n) == (n + MaxFetch - 1) \div MaxFetch

(* A handler's work: the slot it is at and the last one it wants; in that  *)
(* slot's price check, the current exchange with the trade host and its    *)
(* attempt, the ids kept from the search, the chunks fetched and the       *)
(* listings in them; the results so far; and, as history, the ids found    *)
(* before the cut, those the host answered nothing for, the requests sent  *)
(* by this check and the last response.                                    *)
Result == [slot : 1..Slots, found : Nat, gone : SUBSET Nat, listings : Seq(Nat)]
Job == [slot : 1..Slots, to : 1..Slots, stage : {"search", "fetch"}, attempt : {0, 1},
        found : Nat, kept : Nat, chunk : Nat, out : Seq(Nat), gone : SUBSET Nat,
        priced : Seq(Result),
        reply : {"none", "ok", "expired", "error"},
        sent : Nat, heard : {"none", "ok", "limited", "denied", "error", "lost"}]

NoJob == [slot |-> 1, to |-> 1, stage |-> "search", attempt |-> 0, found |-> 0, kept |-> 0,
          chunk |-> 0, out |-> <<>>, gone |-> {}, priced |-> <<>>, reply |-> "none",
          sent |-> 0, heard |-> "none"]

(* A price check of a slot begins with its search.                         *)
StartCheck(j, s) ==
  [NoJob EXCEPT !.slot = s, !.to = j.to, !.priced = j.priced, !.heard = j.heard]

Init == pc = [h \in Handlers |-> "idle"] /\ job = [h \in Handlers |-> NoJob]

Become(h, place, j) ==
  /\ pc' = [pc EXCEPT ![h] = place]
  /\ job' = [job EXCEPT ![h] = j]

----------------------------------------------------------------------------
(* No price check at all: pricing is not configured, the character cannot  *)
(* be had, or the slot asked for is missing or unknown.                    *)
Decline(h) == Become(h, "replied", [NoJob EXCEPT !.reply = "error"])

(* GET /api/upgrades: the top slot, or all of them with ?all=true.         *)
Upgrades(h) ==
  /\ pc[h] = "idle"
  /\ \/ Decline(h)
     \/ \E limit \in {1, Slots} :
          Become(h, "waiting", [StartCheck(NoJob, 1) EXCEPT !.to = limit])

(* GET /api/price: one slot by name.                                       *)
PriceOne(h) ==
  /\ pc[h] = "idle"
  /\ \/ Decline(h)
     \/ \E s \in 1..Slots : Become(h, "waiting", [StartCheck(NoJob, s) EXCEPT !.to = s])

(* The limiter lets the request go.                                        *)
Send(h) ==
  /\ pc[h] = "waiting"
  /\ Become(h, "flying", [job[h] EXCEPT !.sent = @ + 1])

FailsAlike(h, why) == [job[h] EXCEPT !.heard = why, !.reply = "error"]  \* mutant
(* An error of any request ends the handler: what was priced or fetched    *)
(* before it is dropped, 401 for an expired session and 502 for the rest.  *)
Fails(h, why) ==
  [job[h] EXCEPT !.heard = why, !.reply = IF why = "denied" THEN "expired" ELSE "error"]

Failure(h, why) == Become(h, "replied", Fails(h, why))

(* The user has gone while the limiter waits, or the request is lost.      *)
GiveUp(h) == pc[h] = "waiting" /\ Failure(h, job[h].heard)
Lose(h) == pc[h] = "flying" /\ Failure(h, "lost")

(* Any other status, or a body that does not decode.                       *)
Reject(h) == pc[h] = "flying" /\ \E why \in {"denied", "error"} : Failure(h, why)

(* 429: do asks a second time, and gives up on the second 429.             *)
RetryAgain(j) == j.attempt < 2  \* mutant
MayRetry(j) == j.attempt < 1

Limited(h) ==
  /\ pc[h] = "flying"
  /\ IF MayRetry(job[h])
     THEN Become(h, "waiting", [job[h] EXCEPT !.attempt = 1, !.heard = "limited"])
     ELSE Failure(h, "limited")

(* A slot is priced: the handler goes on to the next one, or answers.      *)
Priced(j) ==
  [j EXCEPT !.priced = Append(@, [slot |-> j.slot, found |-> j.found, gone |-> j.gone,
                                  listings |-> j.out])]

MoreSlots(j) == j.slot < j.to

NextSlot(h, j) ==
  IF MoreSlots(j)
  THEN Become(h, "waiting", StartCheck(Priced(j), j.slot + 1))
  ELSE Become(h, "replied", [Priced(j) EXCEPT !.reply = "ok"])

(* The search is answered: the cheapest MaxListings of the ids are kept,   *)
(* and nothing is fetched when there are none.                             *)
Kept(n) == Smaller(n, MaxListings)

Found(h) ==
  /\ pc[h] = "flying" /\ job[h].stage = "search"
  /\ \E n \in Matches :
       LET j == [job[h] EXCEPT !.found = n, !.kept = Kept(n), !.heard = "ok"] IN
       IF Kept(n) = 0
       THEN NextSlot(h, j)
       ELSE Become(h, "waiting", [j EXCEPT !.stage = "fetch", !.attempt = 0])

(* The ids of a chunk, asked for in rising order.                          *)
ChunkStartingOver(j) == 1..Smaller(MaxFetch, j.kept)  \* mutant
Chunk(j) == (j.chunk * MaxFetch + 1)..Smaller((j.chunk + 1) * MaxFetch, j.kept)

(* The trade host's answers to a chunk: any of its listings, or none, in   *)
(* the order they were asked for.                                          *)
Answers(ids) == {a \in UNION {[1..n -> ids] : n \in 0..MaxFetch} : Rising(a)}

(* A fetch is answered, and whatever listings it holds are taken.          *)
Fetched(h) ==
  /\ pc[h] = "flying" /\ job[h].stage = "fetch"
  /\ \E answer \in Answers(Chunk(job[h])) :
       LET j == [job[h] EXCEPT !.chunk = @ + 1, !.out = @ \o answer, !.heard = "ok",
                               !.gone = @ \cup (Chunk(job[h]) \ Listed(answer))] IN
       IF j.chunk * MaxFetch < j.kept
       THEN Become(h, "waiting", [j EXCEPT !.attempt = 0])
       ELSE NextSlot(h, j)

Respond(h) == pc[h] = "replied" /\ Become(h, "idle", NoJob)

Next ==
  \E h \in Handlers :
    \/ Upgrades(h) \/ PriceOne(h) \/ Send(h) \/ GiveUp(h) \/ Lose(h) \/ Reject(h)
    \/ Limited(h) \/ Found(h) \/ Fetched(h) \/ Respond(h)

Spec == Init /\ [][Next]_vars

----------------------------------------------------------------------------
(* The types of the handlers' work; in particular the results answered are *)
(* those of known slots (UpgradeResult, server.go:178-191).                *)
TypeOK ==
  /\ pc \in [Handlers -> {"idle", "waiting", "flying", "replied"}]
  /\ job \in [Handlers -> Job]

(* A price check, whatever is answered to it, sends at most two requests   *)
(* for its search and two for each chunk of the listings wanted, so that a *)
(* page of all the slots has a known cost (PriceCheck, client.go:54-57,    *)
(* with the retry of do, 124-131).                                         *)
RequestBound ==
  \A h \in Handlers : job[h].sent <= 2 * (1 + Fetches(MaxListings))

(* An answer of 200 is whole: it prices every slot wanted, in the order of *)
(* the ranking, and for each of them lists every one of the cheapest       *)
(* MaxListings matches that the trade host still had when asked, each of   *)
(* them once and in the order of their prices, so that the first listing   *)
(* is the cheapest still to be had: no listing is lost or repeated at the  *)
(* seams of the chunks, and no error leaves a hole in a page               *)
(* (handleUpgrades, server.go:212-225, Fetch, client.go:89-122).           *)
WholeAnswers ==
  \A h \in Handlers : job[h].reply = "ok" =>
    LET results == job[h].priced IN
    /\ results # <<>> /\ results[Len(results)].slot = job[h].to
    /\ \A i \in 1..Len(results) :
         /\ results[i].slot = job[h].to - Len(results) + i
         /\ Rising(results[i].listings)
         /\ Listed(results[i].listings) = (1..Kept(results[i].found)) \ results[i].gone

(* The user is asked for a new session exactly when the trade host refused *)
(* the session in the last response, and nothing is sent after that        *)
(* (ErrSessionExpired, client.go:24-26, through every caller up to         *)
(* server.go:215-219 and 257-261).                                         *)
ExpiryIsTold ==
  \A h \in Handlers :
    /\ (job[h].reply = "expired") = (job[h].heard = "denied")
    /\ job[h].heard = "denied" => pc[h] = "replied"
=============================================================================
