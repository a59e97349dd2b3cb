------------------------------- MODULE WebApp -------------------------------
(***************************************************************************)
(* The web application in one browser tab (web/src) against the server's   *)
(* HTTP API (internal/server): the session as the tab sees it, and the     *)
(* state of the mounted page against responses that are lost or arrive     *)
(* late, out of order, or for a page that is gone.                         *)
(*                                                                         *)
(* A request is served in one step; the handlers' own steps are those of   *)
(* SnapshotStore, TradePricing and CraftAdvisor.  The pages do not tell    *)
(* failures apart; for the properties a 401 of the session gate is         *)
(* "refused", one of an expired trade session "expired", and every other   *)
(* failure "failed".  A response that sets the cookie comes in two steps,  *)
(* its headers, which the browser obeys, and its body, which the page      *)
(* waits for.                                                              *)
(***************************************************************************)
EXTENDS SiteSession, FiniteSets, FiniteSetsExt

CONSTANTS Texts,        \* item texts to paste
          None,         \* nothing
          MaxInFlight,  \* bounds of the model: requests at a time, clicks,
          MaxClicks, MaxVersion, MaxTime  \* versions of the character, time

ASSUME BoundsAssumption ==
  /\ MaxInFlight \in Nat \ {0} /\ MaxClicks \in Nat /\ MaxVersion \in Nat \ {0}
  /\ MaxTime \in Nat \ {0} /\ None \notin Texts

VARIABLES cookie,  \* what the browser holds
          until,   \* history: the end of the last session the browser was given
          astray,  \* history: the last login passed a logout, or one was cut off
          authed,  \* "unknown", "in" or "out" (null, true, false)
          view,    \* the page chosen in the navigation
          page,    \* the state of the mounted page
          net,     \* the requests under way
          live,    \* the version of the character in the game
          stored,  \* the version in the latest snapshot, 0 if none
          asked,   \* history: the version when the last refresh was clicked
          clicks   \* history: how many, for the bound

jar == <<cookie, until, astray>>
browser == <<jar, authed, view, page, asked>>
vars == <<now, browser, net, live, stored, clicks>>

Views == {"gear", "upgrades", "craft"}
Protected == {"items", "refresh", "upgrades", "parse", "advise"}
Slots == 1..MaxInFlight

----------------------------------------------------------------------------
(* Requests.  by is who waits for the response: the App, the mounted page, *)
(* the load that ends a refresh, or nobody any more.                       *)
Idle == [op |-> "idle"]
Busy(n) == {s \in Slots : n[s] # Idle}
Room(n) == Busy(n) # Slots

Request(op, arg, by) ==
  [op |-> op, arg |-> arg, by |-> by, cookie |-> cookie, reply |-> "waiting", value |-> None]
Send(n, r) == [n EXCEPT ![Min(Slots \ Busy(n))] = r]
Waiting(s) == net[s] # Idle /\ net[s].reply = "waiting"
SetsCookie(s) == net[s] # Idle /\ net[s].op \in {"login", "logout"} /\ net[s].reply = "ok"
Answered(s) == net[s] # Idle /\ net[s].reply # "waiting" /\ ~SetsCookie(s)

(* The responses to a page that is unmounted reach no state.               *)
Orphan(n) ==
  [s \in Slots |-> IF n[s] # Idle /\ n[s].by # "app" THEN [n[s] EXCEPT !.by = "gone"] ELSE n[s]]

(* A page as it mounts; Gear loads its items at once.                      *)
Blank == [busy |-> FALSE, error |-> FALSE, items |-> 0, rows |-> 0,
          text |-> None, item |-> None, rating |-> None, plan |-> None]
Mount(v, n) ==
  /\ page' = Blank /\ asked' = 0
  /\ net' = IF v = "gear" THEN Send(Orphan(n), Request("items", None, "page")) ELSE Orphan(n)

Opening == [s \in Slots |-> IF s = 1 THEN Request("session", None, "app") ELSE Idle]

(* The user comes for the first time, or back.                             *)
Init ==
  /\ now = 1
  /\ cookie \in {NoCookie, Issue} /\ until = cookie /\ astray = FALSE
  /\ authed = "unknown" /\ view = "gear" /\ page = Blank /\ net = Opening
  /\ live = 1 /\ stored = 0 /\ asked = 0 /\ clicks = 0

----------------------------------------------------------------------------
(* The server.                                                             *)
Reply(s, reply, value) == net' = [net EXCEPT ![s].reply = reply, ![s].value = value]

Fetch(s) == Reply(s, "ok", live) /\ stored' = live
LatestAlways(s) ==  \* mutant: the missing snapshot is not noticed
  (Reply(s, "ok", stored) /\ UNCHANGED stored) \/ Fetch(s)
LatestOrFetch(s) ==
  (stored # 0 /\ Reply(s, "ok", stored) /\ UNCHANGED stored) \/ Fetch(s)

HandleSession(s) == net[s].op = "session" /\ Reply(s, "ok", Verify(net[s].cookie)) /\ UNCHANGED stored
HandleLogin(s) ==
  /\ net[s].op = "login"
  /\ IF net[s].arg = "right"
     THEN Reply(s, "ok", Issue)
     ELSE Reply(s, "refused", None)
  /\ UNCHANGED stored
HandleLogout(s) == net[s].op = "logout" /\ Reply(s, "ok", NoCookie) /\ UNCHANGED stored

HandleProtected(s) ==
  /\ Verify(net[s].cookie)
  /\ \/ net[s].op \in {"items", "upgrades"} /\ LatestOrFetch(s)
     \/ net[s].op = "refresh" /\ Fetch(s)
     \/ net[s].op \in {"parse", "advise"} /\ Reply(s, "ok", net[s].arg) /\ UNCHANGED stored
TradeExpired(s) ==  \* writeSessionExpired, after latestOrFetch
  /\ net[s].op = "upgrades" /\ Verify(net[s].cookie) /\ Reply(s, "expired", None)
  /\ stored' \in (IF stored = 0 THEN {live} ELSE {stored, live})
Refuse(s) ==
  /\ net[s].op \in Protected /\ ~Verify(net[s].cookie)
  /\ Reply(s, "refused", None) /\ UNCHANGED stored

Serve(s) ==
  /\ Waiting(s)
  /\ \/ HandleSession(s) \/ HandleLogin(s) \/ HandleLogout(s)
     \/ HandleProtected(s) \/ TradeExpired(s) \/ Refuse(s)
  /\ UNCHANGED <<now, browser, live, clicks>>

(* A request fails at the server, or it or its response is lost, or cut    *)
(* off when the headers are there.                                         *)
Lose(s) ==
  /\ net[s] # Idle /\ net[s].reply # "failed"
  /\ Reply(s, "failed", None)
  /\ astray' = (astray \/ (net[s].op = "logout" /\ net[s].reply = "arriving"))
  /\ UNCHANGED <<now, cookie, until, authed, view, page, asked, live, stored, clicks>>

(* The headers of a response that sets the cookie or clears it.            *)
Clearing == \E s \in Busy(net) : net[s].op = "logout" /\ net[s].reply \in {"waiting", "ok"}
Headers(s) ==
  /\ SetsCookie(s) /\ net' = [net EXCEPT ![s].reply = "arriving"]
  /\ IF net[s].op = "login"
     THEN until' = net[s].value /\ cookie' \in Kept(net[s].value, now) /\ astray' = Clearing
     ELSE cookie' = NoCookie /\ UNCHANGED <<until, astray>>
  /\ UNCHANGED <<now, authed, view, page, asked, live, stored, clicks>>

----------------------------------------------------------------------------
(* Responses in the browser: the continuation of each await.               *)
Rest(s) == [net EXCEPT ![s] = Idle]
Ok(s) == net[s].reply \in {"ok", "arriving"}

FailedStillBusy(p) == [p EXCEPT !.error = TRUE]  \* mutant: no finally
Failed(p) == [p EXCEPT !.error = TRUE, !.busy = FALSE]

SessionKnown(s) ==
  /\ net[s].op = "session"
  /\ IF Ok(s) /\ net[s].value
     THEN authed' = "in" /\ Mount(view, Rest(s))
     ELSE authed' = "out" /\ net' = Rest(s) /\ UNCHANGED <<page, asked>>

LoggedIn(s) ==
  /\ net[s].op = "login"
  /\ IF Ok(s)
     THEN authed' = "in" /\ Mount(view, Rest(s))
     ELSE page' = Failed(page) /\ net' = Rest(s) /\ UNCHANGED <<authed, asked>>

(* The login page replaces the other pages, and stays if it was there.     *)
StayIn == authed  \* mutant: the app is not told
AfterLogout == "out"
LoggedOut(s) ==
  /\ net[s].op = "logout"
  /\ IF Ok(s)
     THEN /\ authed' = AfterLogout
          /\ IF authed = "in" THEN page' = Blank /\ asked' = 0 /\ net' = Orphan(Rest(s))
             ELSE net' = Rest(s) /\ UNCHANGED <<page, asked>>
     ELSE net' = Rest(s) /\ UNCHANGED <<authed, page, asked>>

(* After a refresh the items are loaded again, even for a page that is     *)
(* gone; load catches its own failure.                                     *)
RefreshedAtOnce(s) ==  \* mutant: the items are not loaded again
  page' = [page EXCEPT !.busy = FALSE] /\ net' = Rest(s)
LoadAgain(s) ==
  /\ page' = IF net[s].by = "gone" THEN page ELSE [page EXCEPT !.error = FALSE]
  /\ net' = [net EXCEPT ![s] = Request("items", None, IF @.by = "gone" THEN @.by ELSE "reload")]
Refreshed(s) == net[s].op = "refresh" /\ Ok(s) /\ LoadAgain(s)

Gone(s) ==
  /\ net[s].by = "gone" /\ ~(net[s].op = "refresh" /\ Ok(s))
  /\ net' = Rest(s) /\ UNCHANGED page

Result(s) ==
  CASE net[s].op = "items" -> [page EXCEPT !.items = net[s].value,
                                           !.busy = @ /\ net[s].by # "reload"]
    [] net[s].op = "upgrades" -> [page EXCEPT !.rows = net[s].value, !.busy = FALSE]
    [] net[s].op = "parse" ->
         [page EXCEPT !.item = net[s].value, !.rating = net[s].value, !.busy = FALSE]
    [] net[s].op = "advise" ->
         [page EXCEPT !.item = net[s].value, !.plan = net[s].value, !.busy = FALSE]

(* The load of a page that mounts is not what busy is about.               *)
Failure(s) ==
  IF net[s].op = "items" /\ net[s].by = "page" THEN [page EXCEPT !.error = TRUE] ELSE Failed(page)

Shown(s) ==
  /\ net[s].by \in {"page", "reload"} /\ net[s].op \in Protected
  /\ ~(net[s].op = "refresh" /\ Ok(s))
  /\ page' = IF Ok(s) THEN Result(s) ELSE Failure(s)
  /\ net' = Rest(s)

Deliver(s) ==
  /\ Answered(s)
  /\ \/ SessionKnown(s) \/ LoggedIn(s) \/ LoggedOut(s)
     \/ (Refreshed(s) \/ Gone(s) \/ Shown(s)) /\ UNCHANGED <<authed, asked>>
  /\ UNCHANGED <<now, jar, view, live, stored, clicks>>

----------------------------------------------------------------------------
(* The user.  The buttons of a page are disabled while it is busy.         *)
Click == clicks < MaxClicks /\ clicks' = clicks + 1 /\ UNCHANGED <<now, live, stored>>
Enabled == ~page.busy /\ Room(net)
On(v) == authed = "in" /\ view = v

(* The page's own request; what the code sets before it.                   *)
Ask(op, arg, p) ==
  /\ Enabled
  /\ page' = [p EXCEPT !.busy = TRUE, !.error = FALSE]
  /\ net' = Send(net, Request(op, arg, "page"))
  /\ UNCHANGED <<jar, authed, view>>

Submit ==
  /\ authed = "out" /\ Click
  /\ \E password \in {"right", "wrong"} : Ask("login", password, page)
  /\ UNCHANGED asked

Alone == \A s \in Busy(net) : net[s].op \notin {"items", "refresh", "upgrades"}
ClickRefresh ==
  /\ On("gear") /\ Click /\ Ask("refresh", None, page)
  /\ asked' = IF Alone THEN live ELSE 0

ClickPrices == On("upgrades") /\ Click /\ Ask("upgrades", None, page) /\ UNCHANGED asked

(* Parsing needs a text, and clears the plan; advice needs an item.        *)
KeepPlan(p) == p  \* mutant
ClearPlan(p) == [p EXCEPT !.plan = None]
ClickParse ==
  /\ On("craft") /\ page.text # None /\ Click
  /\ Ask("parse", page.text, ClearPlan(page)) /\ UNCHANGED asked
ClickAdvise ==
  On("craft") /\ page.item # None /\ Click /\ Ask("advise", page.text, page) /\ UNCHANGED asked
Paste ==
  /\ On("craft")
  /\ \E t \in Texts \ {page.text} : page' = [page EXCEPT !.text = t]
  /\ UNCHANGED <<now, jar, authed, view, asked, net, live, stored, clicks>>

(* Neither the navigation nor logging out waits for anything.              *)
Navigate ==
  /\ authed = "in" /\ Click /\ Room(net)
  /\ \E v \in Views \ {view} : view' = v /\ Mount(v, net)
  /\ UNCHANGED <<jar, authed>>
ClickLogout ==
  /\ authed = "in" /\ Click /\ Room(net)
  /\ net' = Send(net, Request("logout", None, "app"))
  /\ UNCHANGED browser

(* The tab is loaded again; the browser drops the fetches of the old one.  *)
ReloadTab ==
  /\ Click
  /\ authed' = "unknown" /\ view' = "gear" /\ page' = Blank /\ asked' = 0 /\ net' = Opening
  /\ astray' = FALSE /\ UNCHANGED <<cookie, until>>

User ==
  \/ Submit \/ ClickRefresh \/ ClickPrices \/ ClickParse \/ ClickAdvise \/ Paste
  \/ Navigate \/ ClickLogout \/ ReloadTab

Play == live < MaxVersion /\ live' = live + 1 /\ UNCHANGED <<now, browser, net, stored, clicks>>
Tick ==
  /\ now < MaxTime /\ now' = now + 1 /\ cookie' \in Kept(cookie, now')
  /\ UNCHANGED <<until, astray, authed, view, page, asked, net, live, stored, clicks>>

Next ==
  User \/ Play \/ Tick \/ \E s \in Slots : Serve(s) \/ Headers(s) \/ Lose(s) \/ Deliver(s)

Spec == Init /\ [][Next]_vars

(* Requests are served, and what is answered or lost reaches the tab.      *)
FairSpec ==
  Spec /\ \A s \in Slots : WF_vars(Serve(s)) /\ WF_vars(Headers(s)) /\ WF_vars(Deliver(s))

----------------------------------------------------------------------------
(* Types; an answer about the character is about one that was fetched      *)
(* (latestOrFetch, server.go:150-158).                                     *)
TypeOK ==
  /\ now \in 1..MaxTime /\ {cookie, until} \subseteq 0..(MaxTime + TTL) /\ astray \in BOOLEAN
  /\ authed \in {"unknown", "in", "out"} /\ view \in Views
  /\ page.busy \in BOOLEAN /\ page.error \in BOOLEAN
  /\ {page.text, page.item, page.rating, page.plan} \subseteq Texts \cup {None}
  /\ stored \in 0..live /\ asked \in 0..live
  /\ \A s \in Busy(net) :
       net[s].op \in {"items", "refresh", "upgrades"} /\ Ok(s) => net[s].value \in 1..live

(* The plan on the screen is one for the item on the screen, however the   *)
(* text is edited meanwhile (Craft.tsx:21-49).                             *)
PlanIsOfItem == page.plan # None => page.plan = page.item

(* When a refresh is over and shows no error, the items are not older than *)
(* the click, unless another load was under way then (refresh,             *)
(* Gear.tsx:22-33).                                                        *)
RefreshIsShown == ~page.busy /\ ~page.error => page.items >= asked

(* The pages are shown without a session cookie only when its time is up,  *)
(* or for the moment between the headers and the body of a logout, or      *)
(* after a logout that was cut off there or still under way at the login:  *)
(* however logouts, logins and the end of the session interleave           *)
(* (App.tsx:14-39; auth.go:69-94).                                         *)
Leaving == \E s \in Busy(net) : net[s].op = "logout" /\ net[s].reply = "arriving"
MayLackCookie == now >= until \/ astray \/ Leaving
AgreesWithCookie == authed = "in" /\ cookie = NoCookie => MayLackCookie

(* Nobody who uses the pages is asked to log in before the time is up: a   *)
(* request is refused only for a cookie that has run out, or for none      *)
(* where the browser may lack it (require, auth.go:129-137; TTL and        *)
(* Expires, auth.go:69-81).                                                *)
NotRefusedEarly ==
  \A s \in Busy(net) :
    net[s].op \in Protected /\ net[s].by # "gone" /\ net[s].reply = "refused"
      => IF net[s].cookie = NoCookie THEN MayLackCookie ELSE now > net[s].cookie

(* A busy page does not stay busy: every path through an await ends in     *)
(* finally, also when the response fails (Gear.tsx:30, Upgrades.tsx:21,    *)
(* Craft.tsx:32, 46, Login.tsx:18).                                        *)
BusyEnds == page.busy ~> ~page.busy
=============================================================================
