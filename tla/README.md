# Verification of poe-fissure

poe-fissure reads a Path of Exile 2 character through the game's API, keeps
snapshots of it, ranks the equipment slots by how much an upgrade would bring,
prices upgrades on the trade site, and advises on crafting. It is a Go program
with a command line (`cmd/poefissure`) and a server (`cmd/poefissure-server`)
behind which a React application (`web/`) runs. This directory holds TLA+
models of its components, TLC configurations that check them, and proofs that
TLAPS checks.

```
tlc -workers 2 -config Tokens.cfg MCTokenManager    # one of the runs below
tlapm RateLimiterProofs.tla                         # one of the proof modules
```

`PROJECT.json` lists the components, the runs with their properties, a mutant
of the code for each property (which the run must refute), the source lines
each definition stands for, the hazards and the theorems.

## 1. Inventory

| Component (source) | State | Operations | Interacts with |
|---|---|---|---|
| Rate limiter (`internal/poeapi/ratelimit.go`) and request loop (`poeapi/client.go` `getJSON`, `trade2/client.go` `do`) | pace, last response, end of restriction, all under a mutex | `Wait`, `Observe`; loop with one retry of a 429 | every goroutine of a client; the game API or trade site |
| Token store (`internal/auth/store.go`) | `<path>`, `<path>.tmp` | `Load`, `Save` (write, rename), `Clear` | token manager, server boot, login, logout, other processes |
| Token manager (`internal/auth/manager.go`), refresh (`oauth.go`), seeding (`poefissure-server/main.go`), `auth login/logout` (`poefissure/main.go`) | token in memory, mutex | `AccessToken`, seed at boot, login, logout | token endpoint, which rotates refresh tokens; token store; rate limited client |
| Snapshot store (`internal/storage/store.go`) and character fetching (`internal/server/server.go`, `cmd/poefissure/main.go`) | a directory per character, a file per snapshot | `Save`, `Latest`; `latestOrFetch`, `fetchAndStore` of both programs | handlers; commands in processes of their own; the limiter, which spaces fetches |
| Trade pricing (`internal/trade2/client.go`, `server.go`) | none between requests | `PriceCheck`, `Search`, `Fetch`, `do`; `handleUpgrades`, `handlePrice` | trade site; limiter |
| Upgrade scorer (`internal/analysis`) and query builder (`internal/trade`: `query.go`, `url.go`, `statids.go`) | none | `Analyze`, `scoreSlot`, `Build`, `WeaponCategory`, `LoadStatIDs` | character, configuration, stat ids; both programs |
| Session gate (`internal/server/auth.go`) | none: a signed cookie | `issue`, `verify`, `require`, login, logout | browser |
| Web application (`web/src`) | session flag, chosen view, the mounted page | the handlers of five components | HTTP API |
| Crafting: parser, archetype, rating, advice (`internal/craft`) and the text of an equipped item (`internal/pob/build.go`) | none | `Parse`, `DeriveArchetype`, `Rate`, `Advise`, `ItemText` | player, game, character |
| OAuth login (`internal/auth/oauth.go`, `pkce.go`) | callback server on a port, channel of one place | `Login` | browser, other logins, token endpoint |
| Path of Building codec, configuration, the rest of the command-line program, scripts | none | conversions, printing | - |

What is hard in this code, and where:

* **Concurrency.** Goroutines share one limiter and one token manager.
  The limiter sleeps without its mutex, the manager holds its mutex across
  network and disk. The server's handlers and the commands overlap on the
  snapshot files. A login's callback handlers, its timeout and its own end
  meet at a channel of one place.
* **Two processes, one file.** Server and command-line program can be pointed
  at the same token file, and refresh tokens are good for one use.
* **Failure in the middle.** A response that is lost after the endpoint has
  rotated the token; a save that fails after the token was adopted in memory; a
  kill between write and rename; a trade check that fails after some chunks.
* **Ordering.** Responses reach the browser late, or for a page that is gone;
  a snapshot is stamped after its fetch; a consent page outlives its login and
  redirects to a port where another login listens.
* **Conversions that lose.** Names of characters become names of directories,
  an item becomes a text that is parsed again, a base's name a trade category.
* **Boundaries.** Integer pacing, chunks of ten listings, caps of resistances,
  the last second of a session, three rounded and capped scores.

Every such place is listed with its line under `hazards` in `PROJECT.json`.

## 2. Modules

| Module | Models | Extends / instantiates |
|---|---|---|
| `Pacer` | abstract: who may send when | |
| `RateLimiter` | `Wait`, `Observe`, request loop, clock | refines `Pacer` |
| `RateLimiterProofs` | theorems on `RateLimiter` and `Pacer` | |
| `AtomicFile` | abstract: a file that is replaced in one step | |
| `TokenFile` | `Load`, `Save` in file-system steps, `Clear`, kills | refines `AtomicFile` |
| `TokenManager` | processes, handlers, mutex, token endpoint, seed, login, logout | extends `TokenFile` |
| `TokenManagerProofs` | theorems on `TokenManager` and on `TokenFile` | |
| `OAuthLogin` | `Login`: ports, callback server, channel, timeout; pages that stay open | |
| `OAuthLoginProofs` | theorems on `OAuthLogin` | |
| `SnapshotStore` | snapshot files, `latestOrFetch`, `fetchAndStore`, server and commands | |
| `SnapshotStoreProofs` | theorems on `SnapshotStore`, any number of handlers, and one at a time | |
| `TradePricing` | a page's price checks, request by request | |
| `TradePricingProofs` | theorems on `TradePricing` | |
| `UpgradeRanking` | scores, ranking, wanted stats, the query and what it finds | |
| `UpgradeRankingProofs` | theorems on `UpgradeRanking`, and on finite sums | |
| `CraftItem` | the game's and the program's text of an item, `Parse`, open slots | |
| `CraftAdvisor` | `DeriveArchetype`, `Rate`, `Advise`, a player who follows the plans | extends `CraftItem` |
| `CraftProofs` | theorems on `CraftAdvisor`, and on folds over sequences and sets | |
| `SiteSession` | `issue` and `verify` | |
| `WebApp` | one browser tab, its pages, requests, cookie | extends `SiteSession` |
| `WebAppProofs` | theorems on `WebApp` | |
| `MC...` | constants for TLC where a `.cfg` cannot state them | the module named |

### RateLimiter

`minInterval`, `last` and `blockedTill` are the limiter's fields. A caller goes
through `StartCall`, `WaitBegin` (the critical section of `Wait`, which
computes `wakeAt`), `WaitDone` (the end of the sleep), `Send`, and `Receive`
(`Observe`, then return or one retry) or `TransportError` (no `Observe`);
`Abandon` is an error between `Wait` and `Do`. Headers are sets of rules and
of restrictions; time is an integer in the unit of the rules. `sent`, `lost`,
`policies`, `bans` and `knew` are history. `Tick` lets time pass only up to a
request's timeout, as `http.Client.Timeout` does.

The limiter reserves nothing, so the strong promise ("stay under the tightest
advertised policy") is kept by one goroutine at a time and not by several; what
several do keep is `SelfPaced` (each goroutine by itself, over the requests
that were answered) and `HeedsWhatItKnew` (a request obeys everything heard
before its `Wait` began).

### TokenFile and TokenManager

`Save` is open-with-truncation, write, rename, with a failure or a kill at each
step; open descriptors follow renamed files, as they do under POSIX. In
`TokenManager` a thread takes the manager's lock, checks memory, reads the file
only if memory holds no access token, asks the endpoint, adopts the answer,
saves and returns. The endpoint may rotate, keep or omit the refresh token. A
`Mishap` is a lost reply, a failed load or save or a kill; `MaxMishaps` bounds
them. The server's boot is `Boot` (`Load`) or `Misread` (`Load` fails on a complete
file), and `SeedStep`: the file-system steps of saving the seed, or the refusal to
start without one. `ExistingFileWins` and `StoredIsLive` name what the code does not
keep: a server that failed to read the file replaces it, and a reply without a
refresh token leaves none in the file.
`Exclusive` says whether the operator ever runs the two processes at the same
time on one file.

### OAuthLogin

`TokenManager` takes a login as one step that yields a token; this module is what
comes before. A login binds the first free port of its list (`Bind`), waits
for its channel, a cancellation or five minutes (`TakeResult`, `Cancel`,
`TimeOut`), exchanges the code (`Exchanged`) and closes its server (`Close`, which
cuts whatever connections are open). A page of the authorization site can be
consented to, denied and reloaded at any time, and the browser takes the redirect
to whoever listens on the port the page was made for (`Handle`); requests that come
from no page (the bare address, another program, the icon) reach any port. The
handler checks the path, then error, then state, and blocks until the channel's one
place is free (`Put`). The random values (state, verifier, code) are named by the
login they belong to. `NotDisturbed` is about the logins among themselves: what a
login takes from the page of another one is of a login that is over and had its
port. A request of no page ends a login, as the code has it, and the property allows
that.

### SnapshotStore

A file name is the capture time cut to the second, its directory the
character's name with every letter outside ASCII replaced (`Sanitize`). `view` and
`refresh` are requests to the server, which share its limiter; `get` (`char get`,
a round of `char watch`) and `use` (`pob`, `export`, `upgrades`) are processes of
their own, of which the second kind fetches without saving. All list, read,
fetch, stamp, open and write; a failed or killed write leaves an empty or a
partial file, and `Restart` is a kill of the server with whatever it was doing.
`Due` and `Hear` stand for the limiter between the server's fetches.

`setting` is chosen once, from the combinations worth looking at: what is asked for,
of which characters, how many at a time, whether writes may fail.
`NoStepBack` and `LatestIsNewest` hold for one request or command at a time, also
with failures; `RefreshShowsNow` and `BoundedStaleness` (an answer is not older
than MaxAge plus one fetch) hold for overlapping ones. `OwnCharacter` is as
strong as the directories allow: names in other alphabets share one, and such a
letter shares one with an underscore.

### TradePricing

A handler's job is a search, then chunks of `MaxFetch` listings, for one slot
or all; each request may succeed, be throttled (one retry), be refused because
the session expired, or fail, and a handler may decline before it sends any.
Listings are their ranks by price. The trade host, which is external, answers a
chunk with any part of its listings, or none, since a listing may be gone by then;
it is assumed to keep the order in which they were asked for, and to repeat none.
`gone` remembers what it left out, so that `WholeAnswers` can say that what is shown
is every one of the cheapest listings still to be had, in order, with no gap and no
repetition at the seams of the chunks. The total the host reports is handed on as it
is (`client.go:71`) and left out.

### UpgradeRanking

Scores are counted in quarters and weights in halves, with items for which every
quotient is exact, so that scores of different slots can be compared. The gear is a
variable, changed one item at a time, because gaps belong to the whole character
and one item moves every slot's score; the second weapon set counts for the
gaps. The query is the server's or the command's: they differ in the goals, in
the table of stat ids and in whether the category comes from the equipped weapon.
An item has a class in the game and, apart from it, the words in its base's name,
for these words are all the code has to guess the class from. A name may have any
words; `WordsAssumption` says only that a name with "crossbow" in it has "bow" in
it, and one with "quarterstaff" "staff". Most names tell the class (`WordsIn`,
`Telling`); that of the crossbow "Trarthan Cannon" tells nothing; "Wanderer Shoes",
with "wand" in it, misleads (`Misleading`), for the server looks for the words in the
item of any slot. The two properties about the query except slots whose item's name
misleads, and `FindsItsKind` needs a weapon whose name tells its class.

### CraftItem and CraftAdvisor

The game, which is external, has an item with real affixes. Three texts describe
it: the game's, with or without annotations, and the one `ItemText` writes, which
tags crafted and rune lines, no others, and leaves fractured ones out. `Parse` reads
the lines back. A wording is a record of what the code finds in it: the kind
`classify` guesses, its worth for the build, its tags. Scores are exact integers:
the blend 30/40/30 is computed in hundredths, which agrees with the code's
floating-point result for all values of 0..100. The player carries out plans step
by step, and the game picks any affix it may pick. `StepsPossible` and
`CountsAreTrue` are about readable texts: each affix on one line, and annotated or
worded so that its kind is recognised. For other texts the code can only guess.
`ExportReadsBack` compares the two unannotated texts also where both are misread:
the open slots for every item the program can write, the rating only where all
lines of the base are runes and the class of the base tells nothing its name does
not (`ClassTells`). An implicit or enchant line, which `ItemText` leaves untagged, is
rated like an affix, and the text has no line "Item Class:" (`BaseRead`), so that
the family of a "Trarthan Cannon" is lost: there the ratings do differ.

### SiteSession and WebApp

A cookie is the time it ends; the server has no session state, so a restart
changes nothing and is not an action. The browser drops a cookie when its `Expires`
has passed (`Kept`), and in the second it ends it may or may not have dropped it. The
tab is an event loop: user actions send requests, `Serve` handles one, `Lose` fails
it or loses its response, and `Deliver` runs the continuation of the `await`.
The response to a login or a logout comes in two parts: with its headers
(`Headers`) the browser sets or clears the cookie, with its body the page goes on,
and in between it can be cut off, or the headers of another response come. Responses
to an unmounted page change nothing, except that a refresh goes on to load the items.
Requests under way can be answered and delivered in any order.

`AgreesWithCookie` says when the pages may be shown although the browser holds no
cookie (`MayLackCookie`): when the time of the last session is up (`until`), between
the headers and the body of a logout (`Leaving`), and after a logout that was cut off
there or was still under way at the login (`astray`). `NotRefusedEarly` says that the
session gate refuses nothing else. A 401 for an expired trade session
(`TradeExpired`) is no refusal by the gate; the page shows it as an error.

## 3. Runs

| Run | Instance | Shows |
|---|---|---|
| `LimiterSequential` | 1 goroutine, 3 calls, time 8 | `PolicyKept`, refinement of `Pacer` (`KeepsPromise`) |
| `LimiterShared` | 2 goroutines, 2 calls, lost requests, time 5 | `SelfPaced`, `HeedsWhatItKnew`, `CallTerminates` |
| `LimiterBurst` (violation) | 2 goroutines | `PolicyKept` fails: both pass `Wait` at once |
| `Tokens` | server with 2 handlers, command line, 2 mishaps, 3 grants, not at the same time | `NeverTorn`, `NoReplay`, `RefusedForGood`, `StoredIsLive`, `ExistingFileWins`, `CallReturns`, refinement of `AtomicFile` (`SavesAtomically`) |
| `TokensShared` (violation) | the same two processes at the same time | `RefusedForGood` fails |
| `Login` | 2 logins, 2 requests of their pages or of none, two ports or one | `OwnCodeOnce`, `NotDisturbed`, `LoginReturns`, `TabsSettle` |
| `Snapshots` | 3 settings: one at a time with failures, two at a time, commands for 3 characters | `RefreshShowsNow`, `BoundedStaleness`, `NoStepBack`, `LatestIsNewest`, `OwnCharacter` |
| `TradeOnePage` | 3 slots, chunks of 2, 3 listings, 0 to 4 matches, any part of a chunk answered | `RequestBound`, `WholeAnswers`, `ExpiryIsTold` |
| `Ranking` | 13 items in 5 slots, 2 programs, 3 sets of goals, 3 files of stat ids | `NeverUpTheRanking`, `PerfectIsFound`, `FindsItsKind` |
| `RankingWorse` (violation) | the same | `FindsAtLeastAsGood` fails |
| `Craft` | 8 affixes, 4 bases, all rarities, 3 texts | `CountsAreTrue`, `StepsPossible`, `ExportReadsBack`, `FillerNeverHelps` |
| `Web` | 2 requests under way, 4 clicks, 2 versions, time 3, TTL 1 | `BusyEnds`, `PlanIsOfItem`, `RefreshIsShown`, `AgreesWithCookie`, `NotRefusedEarly` |

Type invariants are checked by the runs of the modules whose variables they
constrain beyond what `Init` and one assignment say: `LimiterSequential`, `Tokens`,
`Login` and `Web`.

Why the bounds are enough. *Limiter:* a policy is exceeded by `hits + 1` requests of
one period, and rules of one and two hits are in the response set, so three requests
and a retry suffice; two goroutines exhibit the missing reservation. *Tokens:* the
interesting stories are a grant, a second one that supersedes it, and a use of the
superseded token, three grants; two mishaps allow a lost reply followed by a failed
save or a kill. *Login:* two logins meet on different ports, on the same port one
after the other, or with no port left; of two requests one can be waiting in the
channel while the other blocks, and a foreign or a pageless one can come before or
after the login's own. *Snapshots:* two instants to the second give captures that
collide and captures that do not; a restart and a MaxAge that runs out fit into the
time bound; of the three characters two share a directory. *Trade:* three listings
in chunks of two give a full and a short last chunk, and match counts lie below, at
and above the chunk and the maximum. *Ranking:* the items put resistances below, at
and above the cap, and life below, at and above a step of ten; there are a crossbow,
whose name contains "bow", a crossbow and a mace whose names contain no known word,
boots whose name contains one, an item in the swap set and prices on both sides of
the cap. *Craft:* a kind of affix has four members, so a full kind has one left to
gain, with an unrecognised wording in each kind, one affix of two lines, a crafted
and a fractured one, and one of the bases is a weapon only by its class. *Web:* two
requests are enough for every overtaking (a load and a refresh, two logouts, the
headers and bodies of a logout and a login), and four clicks for a logout, a second
one, a login and what is clicked after it; the clock passes the end of a session
while the browser holds its cookie.

`Craft`, `Login` and `Web` do not check deadlock: a plan made for an unreadable
text may ask for a modifier that is not there and leave the player stuck, logins
that are over stay so once the browser's requests are used up, and so does a tab in
which the clicks are. Bounds on clicks, requests, calls and time are in the guards
and are named constants.

### Fairness

* `RateLimiter`: weak fairness of time and of each caller's own steps: the Go
  scheduler runs a ready goroutine, timers fire, and a request ends by its
  client's timeout. `StartCall` is not fair.
* `TokenManager`: strong fairness only where a mutex decides (`sync.Mutex`
  hands over to a waiter after a millisecond, so a caller that waits is not
  overtaken for ever), weak fairness of the other steps of a living process,
  and of the endpoint's answer or its loss (the HTTP client has a timeout). A
  killed process owes nothing.
* `OAuthLogin`: weak fairness of each login's own steps (the timer fires, the
  exchange's HTTP client has a timeout) and of each handler and its response.
  Users owe nothing: they need not consent, nor start a second login.
* `WebApp`: weak fairness of serving and of delivering a response or its
  failure; a browser's fetch settles. Users and time are not fair.

## 4. Proofs

All proof modules are checked by `tlapm` from nothing, for every value of the
constants.

**`RateLimiterProofs`.** `TypeCorrect` is the type invariant. `Heeds` proves
`HeedsWhatItKnew` for any number of goroutines and with lost requests.
`HeedsWhatItKnew` is not inductive, since it speaks of the moment of sending;
`HeedInv` adds that the limiter's fields summarise the histories
(`Summarised`: the pace covers every advertised rule, the restriction every
announced one) and that a sleeping caller's deadline lies behind all it knew
(`Heeding`). `KeepsOwnPace` proves `SelfPaced`, with lost requests, from
`PacedInv`: `last` is not before the sending of any answered request, and a
caller that sleeps has a deadline at least a pace after its own last answered
one. `PromiseSpaced` is about the abstract pacer alone:
requests it admits are spaced by the pace they were sent at, since a pace only
grows (`PromiseInv`). `ImplementsPacer` assumes `Sequential /\ ~TransportErrors` and uses
`Current` (while nothing is in flight, `last` is at or after the last request),
and `KeepsPolicies` adds `WidePeriods`: the margin of a tenth is lost to
integer division when a period is shorter than ten times its hits, so
`MarginSuffices` needs a rule's period to be wide enough; the code counts in
nanoseconds, where every real policy is.

**`TokenManagerProofs`.** Three layers. *The file alone:* with a single writing
process (`SingleWriter`) `FileNeverTorn` and `FileImplementsAtomic`, from
`SaveOK`: the temporary file is what the writer's stage says, and no descriptor
points at the token file. *Any number of processes on one file:* `ManagerTypes`
and `NeverReplays`, from `IInv`. `NoReplay` is about the moment of asking, so
`ReplayInv` follows the token to it: a process that has replaced a token has an
access token in memory and so does not load the file again, what it holds and
what is on its way to it was not replaced, and a killed process remembers
nothing. That a grant gives a token nobody has replaced needs `NumberedInv`
(no refresh token is above the last one issued), and that two threads do not
adopt answers to the same question needs the mutex (`Locking`).
*Processes that run one at a time* (`Exclusive`, which is what the code's
comments take for granted): `RevokedForGood`, `StoredStaysLive`,
`ManagerNeverTears`, `SeedYields` and `ManagerImplementsAtomic`, from `XInv`. It
adds that a save belongs to the one thread or boot that is at it (`WriterInv`),
that a live token in the file is also the one in memory, or memory has none to
present (`FileInv`, without which a refusal says nothing about the file), and
that, without mishaps, what the file will hold in the end can be refreshed
(`LastingInv`: while an answer is on its way the file holds a dead token, so the
invariant speaks of the token that will be written). The theorems about
exclusive processes have `Exclusive` as their hypothesis, which run `Tokens`
satisfies; run `TokensShared` shows that `RefusedForGood` fails without it.
Assumed of the constants: tokens are numbered, a thread has an owner, the
command line has one thread (`CommandsAssumption`), and replies and contents of
files that are no tokens differ from all tokens (`RepliesAssumption`,
`ContentsAssumption`).

**`TradePricingProofs`.** `RequestsBounded` for all sizes, from `BudgetInv`,
which relates what has been sent to the chunk and attempt the job has reached,
and `ExpiryTold`. `AnswersAreWhole` proves `WholeAnswers`, which says nothing of
an answer that is not finished; `WholeInv` says what it holds on the way: the
slots before the one at work, without a gap, and of the slot at work the
listings of exactly the chunks fetched, rising, but for those the host left out
(`Holds`). `HoldsJoin` and `ChunkJoins` are the seams: two such runs of listings, the
second beginning where the first one ends, make one.

**`UpgradeRankingProofs`.** `PerfectOnesAreFound` and `FoundFits`, from `GearInv`
(what is worn fits), from `WordIsClass`, that the first of the words in a telling
name is the class of the weapon - here the order of the table is what counts -, and
from `NoWordsNoCategory`. No item is excluded: the properties themselves say for which
names they hold.
`ImprovedIsNotUrgent` proves the action property `NeverUpTheRanking`: the gaps are
sums over all the items, so an improved item lowers every slot's score, but its
own slot's at least as much as any other's (`GapsAreShared`), and the quotients of
what is its own fall (`QuotientFalls`). It holds for any numbers: the runs need
stats for which the quotients are exact (`DivisorsAssumption`), the proof does not
use it. The library's induction theorems cannot be applied by the installed
provers, so `SumIsDefined` and `SumGrows`, on the sum of the community modules,
are proved by a least counterexample, from the well-foundedness of the natural
numbers.

**`WebAppProofs`.** `WebTypes`, `PlanFits`, `RefreshShows`, `PagesNeedCookie` and
`RefusedOnlyLate`, for any number of requests under way, any clicks and any lifetime
of a session, from `IInv`. Its parts say what a request on its way and the state of
the tab have to do with each other (`Belongs`): the question for the session is
asked before anything else, a login is sent while logged out, and the requests of a
page with a cookie; while an item is parsed no plan is shown, and after a refresh
what is under way is at least as new as the click (`Fresh`). `OneSole` says that one
request keeps the page busy. Without it two answers could overtake each other, and
none of the properties would follow from `Belongs`. The two properties about the
cookie need a second invariant, `JarInv`: the cookie is the end of the session that
was given last, or is gone; while the pages are shown, a cookie that is gone has one
of the reasons `MayLackCookie` lists, and so had every request of the pages that
left without one; and a login whose headers are there has either set the cookie or
was overtaken. Assumed are positive bounds (`BoundsAssumption`, `TTLAssumption`).

**`OAuthLoginProofs`.** `LoginTypes`, `PresentsOwnCodeOnce` and
`OthersDoNotDisturb`, for any number of logins, ports and requests, also of no page,
from `Types`, `PortInv`, `CauseInv` and `CodeInv`. `OwnCodeOnce` speaks of what was
presented, so its invariant follows the code through the channel: a code in a
login's channel is its own, and before it is taken nothing was presented.
`NotDisturbed` needs the same chain one link further back, from the request
(`CauseInv`): a request is of no page, or at the login of its page, or its page
belongs to a login that is over and had the same port; so is a result in the channel
and one that was taken, and a mismatch is not of the login's own page. That a port
has one listener (`PortInv`) makes this hold when a request arrives, and that a
login which is over stays over keeps it.

**`SnapshotStoreProofs`.** In its first part `RefreshesShowNow`, `StalenessBounded`
and `ReturnsOwnCharacter`, for any number of overlapping handlers and commands, with
failed saves, kills and restarts. The properties speak of what is returned, so the
invariant `IInv` says where it came from: a snapshot, in a file or in a handler's
hands, was stamped when its version was current or at most a response's latency
later (`Dated`), and a file that can be read lies in its character's directory
(`FilesInv`). In its second part `NeverStepsBack` and `LatestIsTheNewest`, for one
request or command at a time, from `OInv`: `IInv`, nothing of the future is on the
disk (`PastInv`), and `SerialInv`, by which a latest file that can be read is at
least as new as all that was saved or shown (`LatestInv`), and what a save will
write is at least as new and goes to the end of its directory (`Ordered`).
`LatestIsNewest` alone is not inductive, for it does not say what a save under way
holds. Assumed are finitely many handlers, at least one character, and that the
markers for an absent, an empty and a torn file differ from snapshots.

**`CraftProofs`.** `CountsHold`, `StepsHold`, `ExportHolds` and `FillerHolds`, for
any affixes, bases, item levels and builds. The text of an item is a
concatenation over its lines and a fold over its set of affixes, and `Parse` is a
fold over that text. The first part shows what these folds are, by least
counterexamples as above: `ReadsTrace` (a fold over a sequence has a trace, and so
reads a concatenation one half after the other), `Flattened`, and `StrungSome`
and `StrungTyped` for the fold over a set. The second part,
`ParsedMods`, gives the result of `Parse` in closed form: the base as far as the
text tells it (`AsWritten`), the rarity and level of the item, and one mod for each
line. Counting is `Tally`, which adds over
a concatenation; `TallyTakes` shows that the order in which the fold takes the
affixes does not matter. `CountsHold` then follows because a readable affix is
tallied once, for its own kind, and the lines of the base not at all.
`StepsPossible` is not inductive, since it says nothing of the steps to come;
`PlanInv` adds that a plan under way is for an item that is not corrupted, that
only the first step can be an annulment or an upgrade and only after an annulment
a slam stands second (`PlansShape`), so that the slot an annulment frees is still
there for it. What is advised first fits the item by `CountsTrue`
(`AdviceFits`), and of three affixes of a kind one can be removed because at most
one is fractured (`OneIsRemovable`). `ExportHolds` compares the two closed forms;
where `ClassTells` is false, the weapon's family is the same with and without the
class.
`FillerHolds` is an action property: taking out an affix of filler lines takes
nothing desirable from the tallies, may add an open slot, and each part of the
rating, the blend, the clamps and both caps are monotone in these
(`ScoreOrder`). Assumed are finitely many affixes of at least one line
(`PoolAssumption`), that the lines of a base are implicits, runes and enchants
(`BasesAssumption`), and natural item levels (`LevelsAssumption`).

Only model-checked is liveness (`CallTerminates`, `CallReturns`, `LoginReturns`,
`TabsSettle`, `BusyEnds`), which is beyond the prover. All invariants and action
properties of the passing runs, and both refinements, are proved.

## 5. Findings

Three statements in the code's comments are not what the program does; each has
a run of its own.

* `ratelimit.go:41-42`, "paces requests to stay under the tightest advertised
  policy": goroutines that wait together are let go together (`LimiterBurst`).
* `manager.go:10-11`, "transparently refreshes it when expired": between the load
  of a token (`manager.go:30-36`) and its refresh (`manager.go:43`) another process
  may refresh it. In `TokensShared` both processes load the same expired token; one
  gets its successor and saves it, the other, which had loaded the old one before, is
  told that it is revoked and fails although the file has the live one by then. The
  same comes about when the old token has stayed in memory since an earlier refresh.
* `server.go:268`, "at least as good as equipped": the minimum for a resistance
  does not look at what the equipped item has, and two of the wanted stats
  suffice (`RankingWorse`).

Other behaviours met while modelling, which have no run:

* A goroutine asleep in `Wait` does not notice a restriction announced meanwhile
  (`ratelimit.go:69`); a request whose response is lost is not counted
  (`client.go:77`).
* A server that fails to read a complete token file takes it for a missing one and
  writes the seed over it (`poefissure-server/main.go:93`; lines 90-91 say "An
  existing token file wins"). A reply without a refresh token overwrites the stored
  token all the same, and nothing is left to refresh with (`manager.go:47-48`).
* Two processes that save at the same time share `<path>.tmp` (`store.go:85`), and a
  login between `Load` and `Save` of the server's boot is overwritten by the seed
  (`poefissure-server/main.go:93`). A logout is undone by a refresh of another
  process (`store.go:92`).
* A consent page that is denied after its login ended aborts a later login on the
  same port, since the error is looked at before the state, and so does any other
  page of the old login, and any request to the port without the state
  (`oauth.go:112-121`). The tab says "Authorization complete" before the exchange,
  and for a login that then fails (`oauth.go:126`, `139-143`); `srv.Close` may cut
  that page off.
* Names of characters that differ only in letters outside ASCII share a directory
  (`storage/store.go:128`), so `pob`, `export` and `upgrades` for one may use the
  latest snapshot of another (`store.go:98`, "the most recent snapshot for a
  character").
* Of two overlapping fetches, the older answer may get the later stamp, and two
  snapshots of one second share a file (`storage/store.go:56`).
* A 429 that is retried doubles the bound stated at `trade2/client.go:56-57`, and
  nothing serialises the trade requests of two handlers (`client.go:30`, "Calls are
  sequential; never fan out").
* An empty slot is not always ranked first (`scorer.go:109`). The resistances of the
  second weapon set count for the gaps (`stats.go:170`).
* The query for a mace, for empty hands, or of the command-line program for any
  weapon has no category, and the reports of the Weapon slot want no stat, so it
  finds anything; so it does for a crossbow without the word in its name, as the
  "Trarthan Cannon" of `craft/parse_test.go:5-10` (`server.go:274`, "match the
  equipped item's actual class"). The server looks for the words of weapons in the
  base of every slot (`server.go:273`): for "Wanderer Shoes" it searches wands.
* In the Gear page an older load may overwrite a refresh (`Gear.tsx:19`); in the
  Craft page the rating stays the one of the last parse when advice is asked for an
  edited text (`Craft.tsx:41`); a second click on "Log out" whose response is late
  ends the session of a login made in between (`App.tsx:37`). If the headers of that
  late response come between the headers and the body of the login, or the response
  of a logout is cut off after its headers, the tab shows the pages without a cookie
  until the next request is refused or the tab is loaded again.
* An affix of unknown wording is not counted at all, so an unannotated item may be
  told to have more open slots than it has (`parse.go:215`). An annotated crafted or
  fractured affix, whose annotation has no Prefix or Suffix, counts for neither
  either.
* `ItemText` is not quite "standard PoE clipboard text" (`server.go:106`): implicit
  and enchant lines have no tag and are read as affixes, fractured affixes are not
  written at all, and neither is the line "Item Class:", so that a weapon known by
  its class only loses its family in the rating, and no plan for such a text advises
  a catalyst. The directory of a snapshot is built from the name in the API's
  answer, not from the one asked for (`storage/store.go:51`). Items with one
  inventory id, flasks say, are shown once by `handleItems`.

## 6. Not modelled

* Path of Building's XML and compression, the encoding of trade URLs and
  queries, static files, YAML: pure conversions and I/O.
* The regular expressions with which mods are recognised, and the tables of
  knowledge about crafting: the models start from what they yield, a stat, a
  kind, a worth.
* The cap of 35 filters of a query, which no report reaches.
* `auth status`, `char list`, `History` and the files `export` writes: they change no
  state another part reads.
* Signatures, passwords and TLS: cryptography is assumed; a browser sends back
  the cookies it was given.
* The repetition of a slam that missed (`advise.go:138-140`): the player asks for
  advice again instead.
* Several browser tabs on one cookie; the two effects of React's strict mode in
  development.
* Floating-point rounding of the ranking's scores, and the order in which Go
  iterates over a map while it adds them.

## 7. Plan

Done, in this order: limiter, token file and manager, snapshots, trade pricing,
ranking, crafting, web application, the login; proofs for all of them.

Next:

1. An abstract specification of the token manager (a client that is granted
   access or told why not), with `TokenManager` shown to implement it.
2. Two tabs on one cookie, and two trade handlers.
