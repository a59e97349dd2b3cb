---------------------------- MODULE WebAppProofs ----------------------------
(***************************************************************************)
(* Proofs about WebApp, for any number of requests under way, of clicks,   *)
(* of item texts and of versions of the character, and any lifetime of a   *)
(* session.                                                                *)
(***************************************************************************)
EXTENDS WebApp, WellFoundedInduction, TLAPS

Ops == {"session", "login", "logout"} \cup Protected
Data == {"items", "refresh", "upgrades"}
Jars == 0..(MaxTime + TTL)
Pages ==
  [busy : BOOLEAN, error : BOOLEAN, items : 0..MaxVersion, rows : 0..MaxVersion,
   text : Texts \cup {None}, item : Texts \cup {None}, rating : Texts \cup {None},
   plan : Texts \cup {None}]

(* A request, with the answers it can have.                                *)
Formed(r) ==
  /\ r = [op |-> r.op, arg |-> r.arg, by |-> r.by, cookie |-> r.cookie, reply |-> r.reply,
          value |-> r.value]
  /\ r.op \in Ops /\ r.by \in {"app", "page", "reload", "gone"} /\ r.cookie \in Jars
  /\ r.reply \in {"waiting", "ok", "arriving", "failed", "refused", "expired"}
  /\ r.reply = "arriving" => r.op \in {"login", "logout"}
  /\ r.op \in {"parse", "advise"} => r.arg \in Texts \cup {None}

Replied(r) ==
  r.reply \in {"ok", "arriving"} =>
    /\ r.op = "session" => r.value \in BOOLEAN /\ (r.value => r.cookie # NoCookie)
    /\ r.op = "login" => r.value \in Jars \ {NoCookie}
    /\ r.op \in Data => r.value \in 1..live
    /\ r.op \in {"parse", "advise"} => r.value = r.arg

Types ==
  /\ now \in 1..MaxTime /\ live \in 1..MaxVersion /\ stored \in 0..live /\ asked \in 0..live
  /\ cookie \in Jars /\ until \in Jars /\ astray \in BOOLEAN /\ authed \in {"unknown", "in", "out"}
  /\ view \in Views /\ page \in Pages /\ net = [s \in Slots |-> net[s]]

(* The request that keeps the page busy, of which there is one, or the one *)
(* for the session, before which there is no other.                        *)
Main(r) == r.by \in {"page", "reload"} /\ ~(r.op = "items" /\ r.by = "page")
Sole(r) == Main(r) \/ r.op = "session"

(* After a refresh that was the only load when it was clicked, what is on  *)
(* its way to the page is not older than the click.                        *)
Fresh(r) ==
  \/ r.op = "refresh" /\ (r.reply = "ok" => asked <= stored)
  \/ r.op = "items" /\ r.by = "reload" /\ asked <= stored /\ (r.reply = "ok" => asked <= r.value)

(* What a request and the state of the tab have to do with each other.     *)
Belongs(r) ==
  /\ r.op = "session" => r.by = "app" /\ authed = "unknown"
  /\ r.op = "logout" => r.by = "app"
  /\ r.op = "login" => r.by = "page" /\ authed = "out"
  /\ r.op \in Protected => r.by # "app"
  /\ r.op \in Protected /\ r.by # "gone" => authed = "in"
  /\ r.by = "reload" => r.op = "items"
  /\ authed = "unknown" => r.op = "session"
  /\ r.op = "parse" /\ r.by = "page" => page.plan = None
  /\ asked # 0 /\ r.by \in {"page", "reload"} => Fresh(r)
  /\ Main(r) => page.busy

TabInv ==
  /\ PlanIsOfItem
  /\ asked # 0 => authed = "in" /\ view = "gear" /\ RefreshIsShown

NetInv == \A s \in Busy(net) : Formed(net[s]) /\ Replied(net[s]) /\ Belongs(net[s])
OneSole == \A s, u \in Busy(net) : Sole(net[s]) /\ Sole(net[u]) => s = u

IInv == Types /\ NetInv /\ OneSole /\ TabInv

----------------------------------------------------------------------------
(* A set of slots has a least one.                                         *)
LEMMA LeastSlot ==
  ASSUME NEW S \in SUBSET Slots, S # {}
  PROVE  Min(S) \in S
<1>1. S \subseteq Nat
  BY BoundsAssumption DEF Slots
<1>2. PICK d \in S : \A e \in S : <<e, d>> \notin OpToRel(<, Nat)
  BY <1>1, WFMin, NatLessThanWellFounded, Zenon
<1>3. \A e \in S : ~(e < d)
  BY <1>1, <1>2 DEF OpToRel
<1>4. \A e \in S : d <= e
  BY <1>1, <1>3
<1> QED
  BY <1>4 DEF Min

(* Requests come and go.                                                   *)
Net(n) == n = [s \in Slots |-> n[s]]

Record(op, arg, by, held, reply, value) ==
  [op |-> op, arg |-> arg, by |-> by, cookie |-> held, reply |-> reply, value |-> value]

(* k is n with one request more.                                           *)
Adds(k, n, r) ==
  \E m \in Slots : /\ m \notin Busy(n) /\ k[m] = r /\ Busy(k) = Busy(n) \cup {m}
                  /\ \A s \in Slots : s # m => k[s] = n[s]

LEMMA Sent ==
  ASSUME NEW n, Net(n), Room(n), NEW r, Formed(r)
  PROVE  Net(Send(n, r)) /\ Adds(Send(n, r), n, r)
<1> DEFINE m == Min(Slots \ Busy(n))
<1>1. Slots \ Busy(n) # {}
  BY DEF Busy, Room
<1>2. m \in Slots \ Busy(n)
  <2>1. Slots \ Busy(n) \in SUBSET Slots
    OBVIOUS
  <2> QED
    BY <1>1, <2>1, LeastSlot
<1>3. Send(n, r) = [s \in Slots |-> IF s = m THEN r ELSE n[s]]
  BY <1>2 DEF Send, Net
<1>4. r # Idle
  BY DEF Formed, Idle, Ops, Protected
<1> HIDE DEF m
<1>5. Busy(Send(n, r)) = Busy(n) \cup {m}
  BY <1>2, <1>3, <1>4 DEF Busy
<1> QED
  BY <1>2, <1>3, <1>5 DEF Net, Adds

LEMMA Answering ==
  ASSUME NEW s \in Busy(net), Net(net), Formed(net[s]),
         NEW reply \in {"ok", "failed", "refused", "expired"}, NEW value, Reply(s, reply, value)
  PROVE  /\ Net(net') /\ Formed(net'[s]) /\ Busy(net') = Busy(net)
         /\ net'[s].op = net[s].op /\ net'[s].arg = net[s].arg /\ net'[s].by = net[s].by
         /\ net'[s].cookie = net[s].cookie /\ net'[s].reply = reply /\ net'[s].value = value
         /\ \A u \in Slots : u # s => net'[u] = net[u]
<1> DEFINE r == Record(net[s].op, net[s].arg, net[s].by, net[s].cookie, reply, value)
<1>0. s \in Slots /\ net[s] # Idle
  BY DEF Busy
<1>1. net' = [net EXCEPT ![s] = [[net[s] EXCEPT !.reply = reply] EXCEPT !.value = value]]
  BY <1>0 DEF Reply, Net
<1>2. [[net[s] EXCEPT !.reply = reply] EXCEPT !.value = value] = r
  <2>1. [net[s] EXCEPT !.reply = reply]
          = Record(net[s].op, net[s].arg, net[s].by, net[s].cookie, reply, net[s].value)
    BY DEF Formed, Record
  <2>2. [Record(net[s].op, net[s].arg, net[s].by, net[s].cookie, reply, net[s].value)
           EXCEPT !.value = value] = r
    BY DEF Record
  <2> QED
    BY <2>1, <2>2
<1>3. net' = [u \in Slots |-> IF u = s THEN r ELSE net[u]]
  BY <1>0, <1>1, <1>2 DEF Net
<1>f. /\ r.op = net[s].op /\ r.arg = net[s].arg /\ r.by = net[s].by /\ r.cookie = net[s].cookie
      /\ r.reply = reply /\ r.value = value /\ r = Record(r.op, r.arg, r.by, r.cookie, r.reply, r.value)
  BY DEF Record
<1>4. r # Idle
  <2>1. net[s].op # "idle"
    BY DEF Formed, Ops, Protected
  <2> QED
    BY <1>f, <2>1 DEF Idle
<1>5. Formed(r)
  BY <1>f DEF Formed, Record
<1> HIDE DEF r
<1>6. Busy(net') = Busy(net)
  BY <1>0, <1>3, <1>4 DEF Busy
<1> QED
  BY <1>0, <1>3, <1>f, <1>5, <1>6 DEF Net

LEMMA Resting ==
  ASSUME NEW s \in Slots, Net(net)
  PROVE  /\ Net(Rest(s)) /\ Busy(Rest(s)) = Busy(net) \ {s} /\ Room(Rest(s))
         /\ \A u \in Slots : u # s => Rest(s)[u] = net[u]
<1>1. Rest(s) = [u \in Slots |-> IF u = s THEN Idle ELSE net[u]]
  BY DEF Rest, Net
<1> QED
  BY <1>1 DEF Net, Busy, Room

LEMMA Orphaned ==
  ASSUME NEW n, Net(n), \A s \in Busy(n) : Formed(n[s])
  PROVE  /\ Net(Orphan(n)) /\ Busy(Orphan(n)) = Busy(n) /\ (Room(n) => Room(Orphan(n)))
         /\ \A s \in Busy(n) :
              /\ Formed(Orphan(n)[s])
              /\ n[s].by = "app" => Orphan(n)[s] = n[s]
              /\ n[s].by # "app" => Orphan(n)[s].by = "gone"
              /\ Orphan(n)[s].op = n[s].op /\ Orphan(n)[s].arg = n[s].arg
              /\ Orphan(n)[s].cookie = n[s].cookie /\ Orphan(n)[s].reply = n[s].reply
              /\ Orphan(n)[s].value = n[s].value
<1>1. ASSUME NEW s \in Busy(n)
      PROVE  /\ Orphan(n)[s] # Idle
             /\ Formed(Orphan(n)[s])
             /\ n[s].by = "app" => Orphan(n)[s] = n[s]
             /\ n[s].by # "app" => Orphan(n)[s].by = "gone"
             /\ Orphan(n)[s].op = n[s].op /\ Orphan(n)[s].arg = n[s].arg
             /\ Orphan(n)[s].cookie = n[s].cookie /\ Orphan(n)[s].reply = n[s].reply
             /\ Orphan(n)[s].value = n[s].value
  <2>0. s \in Slots /\ n[s] # Idle
    BY DEF Busy
  <2>1. CASE n[s].by = "app"
    BY <2>0, <2>1 DEF Orphan
  <2>2. CASE n[s].by # "app"
    <3>1. Orphan(n)[s] = [n[s] EXCEPT !.by = "gone"]
      BY <2>0, <2>2 DEF Orphan
    <3> DEFINE r == Record(n[s].op, n[s].arg, "gone", n[s].cookie, n[s].reply, n[s].value)
    <3>2. Orphan(n)[s] = r
      BY <3>1 DEF Formed, Record
    <3>3. /\ r.op = n[s].op /\ r.arg = n[s].arg /\ r.by = "gone" /\ r.cookie = n[s].cookie
          /\ r.reply = n[s].reply /\ r.value = n[s].value
          /\ r = Record(r.op, r.arg, r.by, r.cookie, r.reply, r.value)
      BY DEF Record
    <3>4. Formed(r)
      BY <3>3 DEF Formed, Record
    <3>5. r # Idle
      <4>1. n[s].op # "idle"
        BY DEF Formed, Ops, Protected
      <4> QED
        BY <3>3, <4>1 DEF Idle
    <3> HIDE DEF r
    <3> QED
      BY <2>2, <3>2, <3>3, <3>4, <3>5
  <2> QED
    BY <2>1, <2>2
<1>2. Net(Orphan(n)) /\ \A s \in Slots : s \notin Busy(n) => Orphan(n)[s] = Idle
  BY DEF Net, Orphan, Busy
<1>3. Busy(Orphan(n)) = Busy(n)
  BY <1>1, <1>2 DEF Busy
<1> QED
  BY <1>1, <1>2, <1>3 DEF Room

----------------------------------------------------------------------------
(* The tab opens, for the first time or again.                             *)
OpenState ==
  /\ now \in 1..MaxTime /\ live \in 1..MaxVersion /\ stored \in 0..live
  /\ cookie \in Jars /\ until \in Jars /\ astray \in BOOLEAN
  /\ authed = "unknown" /\ view = "gear" /\ page = Blank /\ asked = 0 /\ net = Opening

LEMMA BlankIsPage == Blank \in Pages /\ ~Blank.busy /\ ~Blank.error /\ Blank.plan = None
  <1>1. 0 \in 0..MaxVersion
    BY BoundsAssumption
  <1> QED
    BY <1>1 DEF Blank, Pages

LEMMA Opened == OpenState => IInv
<1> SUFFICES ASSUME OpenState PROVE IInv
  OBVIOUS
<1> DEFINE r == Request("session", None, "app")
<1>1. 1 \in Slots
  BY BoundsAssumption DEF Slots
<1>2. Formed(r) /\ Replied(r) /\ r.op = "session" /\ r.by = "app" /\ r.cookie = cookie /\ r # Idle
  BY DEF OpenState, Request, Formed, Replied, Ops, Idle
<1> HIDE DEF r
<1>3. net = [s \in Slots |-> IF s = 1 THEN r ELSE Idle]
  BY DEF OpenState, Opening, r
<1>4. Busy(net) = {1} /\ net[1] = r /\ net = [s \in Slots |-> net[s]]
  BY <1>1, <1>2, <1>3 DEF Busy
<1>5. Belongs(r)
  BY <1>2 DEF OpenState, Belongs, Main, Protected
<1>6. Types
  BY <1>4, BlankIsPage, BoundsAssumption DEF Types, OpenState, Views
<1>7. NetInv /\ OneSole
  BY <1>2, <1>4, <1>5 DEF NetInv, OneSole
<1>8. TabInv
  BY BlankIsPage DEF TabInv, OpenState, PlanIsOfItem
<1> QED
  BY <1>6, <1>7, <1>8 DEF IInv

LEMMA OpenedAgain == OpenState' => IInv'
BY Opened, PTL

----------------------------------------------------------------------------
(* A response on its way.                                                  *)
LEMMA AnswerStep ==
  ASSUME IInv, NEW s \in Busy(net), NEW reply \in {"ok", "failed", "refused", "expired"}, NEW value,
         Reply(s, reply, value), UNCHANGED <<now, cookie, until, authed, view, page, asked, live>>,
         astray' \in BOOLEAN, stored' \in stored..live,
         reply = "ok" =>
           /\ net[s].op = "session" => value \in BOOLEAN /\ (value => net[s].cookie # NoCookie)
           /\ net[s].op = "login" => value \in Jars \ {NoCookie}
           /\ net[s].op \in Data => value \in 1..live /\ stored <= value
           /\ net[s].op \in {"parse", "advise"} => value = net[s].arg
           /\ net[s].op = "refresh" => stored' = live
  PROVE  IInv'
<1>0. /\ Types /\ Net(net) /\ Formed(net[s]) /\ Replied(net[s]) /\ Belongs(net[s]) /\ s \in Slots
      /\ UNCHANGED <<cookie, authed, view, page, asked>>
      /\ stored \in Nat /\ live \in Nat /\ stored' \in Nat /\ asked \in 0..live /\ stored <= stored'
  BY DEF IInv, NetInv, Types, Net, Busy
<1>1. /\ Net(net') /\ Formed(net'[s]) /\ Busy(net') = Busy(net)
      /\ net'[s].op = net[s].op /\ net'[s].arg = net[s].arg /\ net'[s].by = net[s].by
      /\ net'[s].cookie = net[s].cookie /\ net'[s].reply = reply /\ net'[s].value = value
      /\ \A u \in Slots : u # s => net'[u] = net[u]
  BY <1>0, Answering
<1>2. Types'
  BY <1>0, <1>1 DEF Types, Net
<1>3. TabInv'
  BY <1>0 DEF IInv, TabInv, PlanIsOfItem, RefreshIsShown
<1>4. OneSole'
  BY <1>0, <1>1 DEF IInv, OneSole, Sole, Main, Busy
<1>5. ASSUME NEW u \in Busy(net), u # s
      PROVE  Formed(net'[u]) /\ Replied(net[u])' /\ Belongs(net[u])'
  <2>1. net'[u] = net[u] /\ Formed(net[u]) /\ Replied(net[u]) /\ Belongs(net[u])
    BY <1>1, <1>5 DEF IInv, NetInv, Busy
  <2> QED
    BY <1>0, <2>1 DEF Replied, Belongs, Fresh, Main
<1>6. Replied(net[s])'
  BY <1>0, <1>1 DEF Replied
<1>7. Fresh(net[s]) /\ asked # 0 => Fresh(net[s])'
  <2> SUFFICES ASSUME Fresh(net[s]) PROVE Fresh(net[s])'
    OBVIOUS
  <2>1. CASE net[s].op = "refresh"
    BY <1>0, <1>1, <2>1 DEF Fresh
  <2>2. CASE net[s].op = "items" /\ net[s].by = "reload" /\ asked <= stored
    <3>1. reply = "ok" => value \in Nat /\ stored <= value
      BY <2>2 DEF Data
    <3> QED
      BY <1>0, <1>1, <2>2, <3>1 DEF Fresh
  <2> QED
    BY <2>1, <2>2 DEF Fresh
<1>8. Belongs(net[s])'
  BY <1>0, <1>1, <1>7 DEF Belongs, Main
<1>9. NetInv'
  BY <1>1, <1>5, <1>6, <1>8 DEF NetInv
<1> QED
  BY <1>2, <1>3, <1>4, <1>9 DEF IInv

LEMMA ServeStep ==
  ASSUME IInv, NEW s \in Slots, Serve(s)
  PROVE  IInv'
<1>0. /\ s \in Busy(net) /\ Types /\ Formed(net[s])
      /\ UNCHANGED <<now, cookie, until, authed, view, page, asked, live>> /\ astray' \in BOOLEAN
      /\ stored \in 0..live /\ live \in 1..MaxVersion /\ live \in Nat
  BY BoundsAssumption DEF IInv, NetInv, Types, Serve, Waiting, Busy, browser, jar
<1>1. CASE HandleSession(s)
  <2>1. /\ Verify(net[s].cookie) \in BOOLEAN /\ stored' \in stored..live
        /\ Verify(net[s].cookie) => net[s].cookie # NoCookie
    BY <1>0, <1>1 DEF Verify, HandleSession
  <2> QED
    BY <1>0, <1>1, <2>1, AnswerStep DEF HandleSession, Data, Protected
<1>2. CASE HandleLogin(s)
  <2>1. Issue \in Jars \ {NoCookie} /\ stored' \in stored..live
    BY <1>0, <1>2, TTLAssumption, BoundsAssumption DEF Types, Issue, Jars, NoCookie, HandleLogin
  <2> QED
    BY <1>0, <1>2, <2>1, AnswerStep DEF HandleLogin, Data, Protected
<1>3. CASE HandleLogout(s)
  <2>1. stored' \in stored..live
    BY <1>0, <1>3 DEF HandleLogout
  <2> QED
    BY <1>0, <1>3, <2>1, AnswerStep DEF HandleLogout, Data, Protected
<1>4. CASE HandleProtected(s)
  <2>1. ASSUME net[s].op \in Data, Fetch(s) PROVE IInv'
    <3>1. stored' \in stored..live /\ live \in 1..live /\ stored <= live
      BY <1>0, <2>1 DEF Fetch
    <3> QED
      BY <1>0, <2>1, <3>1, AnswerStep DEF Fetch, Data
  <2>2. ASSUME net[s].op \in {"items", "upgrades"}, stored # 0, Reply(s, "ok", stored), UNCHANGED stored
        PROVE  IInv'
    <3>1. stored' \in stored..live /\ stored \in 1..live /\ stored <= stored
      BY <1>0, <2>2
    <3> QED
      BY <1>0, <2>2, <3>1, AnswerStep
  <2>3. ASSUME net[s].op \in {"parse", "advise"}, Reply(s, "ok", net[s].arg), UNCHANGED stored
        PROVE  IInv'
    <3>1. stored' \in stored..live
      BY <1>0, <2>3
    <3> QED
      BY <1>0, <2>3, <3>1, AnswerStep DEF Data
  <2> QED
    BY <1>4, <2>1, <2>2, <2>3 DEF HandleProtected, LatestOrFetch, Data
<1>5. CASE TradeExpired(s)
  <2>1. stored' \in stored..live /\ Reply(s, "expired", None)
    BY <1>0, <1>5 DEF TradeExpired
  <2> QED
    BY <1>0, <2>1, AnswerStep
<1>6. CASE Refuse(s)
  <2>1. stored' \in stored..live
    BY <1>0, <1>6 DEF Refuse
  <2> QED
    BY <1>0, <1>6, <2>1, AnswerStep DEF Refuse
<1> QED
  BY <1>1, <1>2, <1>3, <1>4, <1>5, <1>6 DEF Serve

LEMMA LoseStep ==
  ASSUME IInv, NEW s \in Slots, Lose(s)
  PROVE  IInv'
<1>1. /\ s \in Busy(net) /\ stored' \in stored..live /\ Reply(s, "failed", None)
      /\ UNCHANGED <<now, cookie, until, authed, view, page, asked, live>> /\ astray' \in BOOLEAN
  BY BoundsAssumption DEF IInv, Types, Lose, Busy
<1> QED
  BY <1>1, AnswerStep

(* The headers of a login or a logout.                                     *)
LEMMA Announcing ==
  ASSUME NEW s \in Slots, Net(net), Formed(net[s]), Headers(s)
  PROVE  /\ Net(net') /\ Formed(net'[s]) /\ Busy(net') = Busy(net) /\ s \in Busy(net)
         /\ net'[s].op = net[s].op /\ net'[s].arg = net[s].arg /\ net'[s].by = net[s].by
         /\ net'[s].cookie = net[s].cookie /\ net'[s].reply = "arriving"
         /\ net'[s].value = net[s].value /\ net[s].reply = "ok" /\ net[s].op \in {"login", "logout"}
         /\ \A u \in Slots : u # s => net'[u] = net[u]
<1> DEFINE r == Record(net[s].op, net[s].arg, net[s].by, net[s].cookie, "arriving", net[s].value)
<1>1. /\ net' = [net EXCEPT ![s].reply = "arriving"] /\ s \in Busy(net) /\ net[s].reply = "ok"
      /\ net[s].op \in {"login", "logout"}
  BY DEF Headers, SetsCookie, Busy
<1>2. [net[s] EXCEPT !.reply = "arriving"] = r
  BY DEF Formed, Record
<1>3. net' = [u \in Slots |-> IF u = s THEN r ELSE net[u]]
  BY <1>1, <1>2 DEF Net
<1>f. /\ r.op = net[s].op /\ r.arg = net[s].arg /\ r.by = net[s].by /\ r.cookie = net[s].cookie
      /\ r.reply = "arriving" /\ r.value = net[s].value
      /\ r = Record(r.op, r.arg, r.by, r.cookie, r.reply, r.value)
  BY DEF Record
<1>4. r # Idle
  <2>1. net[s].op # "idle"
    BY <1>1
  <2> QED
    BY <1>f, <2>1 DEF Idle
<1>5. Formed(r)
  BY <1>1, <1>f DEF Formed, Record
<1> HIDE DEF r
<1>6. Busy(net') = Busy(net)
  BY <1>1, <1>3, <1>4 DEF Busy
<1> QED
  BY <1>1, <1>3, <1>f, <1>5, <1>6 DEF Net

LEMMA HeadersStep ==
  ASSUME IInv, NEW s \in Slots, Headers(s)
  PROVE  IInv'
<1>0. /\ Types /\ Net(net) /\ OneSole /\ TabInv /\ s \in Busy(net)
      /\ Formed(net[s]) /\ Replied(net[s]) /\ Belongs(net[s])
      /\ \A u \in Busy(net) : Formed(net[u]) /\ Replied(net[u]) /\ Belongs(net[u])
      /\ UNCHANGED <<now, authed, view, page, asked, live, stored, clicks>>
  BY DEF IInv, NetInv, Types, Net, Busy, Headers, SetsCookie
<1>1. /\ Net(net') /\ Formed(net'[s]) /\ Busy(net') = Busy(net)
      /\ net'[s].op = net[s].op /\ net'[s].arg = net[s].arg /\ net'[s].by = net[s].by
      /\ net'[s].cookie = net[s].cookie /\ net'[s].reply = "arriving"
      /\ net'[s].value = net[s].value /\ net[s].reply = "ok" /\ net[s].op \in {"login", "logout"}
      /\ \A u \in Slots : u # s => net'[u] = net[u]
  BY <1>0, Announcing
<1>2. NoCookie \in Jars /\ (net[s].op = "login" => net[s].value \in Jars)
  BY <1>0, <1>1, TTLAssumption, BoundsAssumption DEF Replied, NoCookie, Jars
<1>3. cookie' \in Jars /\ until' \in Jars /\ astray' \in BOOLEAN
  <2>1. CASE net[s].op = "login"
    BY <1>2, <2>1 DEF Headers, Kept, Clearing
  <2>2. CASE net[s].op # "login"
    BY <1>0, <1>2, <2>2 DEF Headers, Types
  <2> QED
    BY <2>1, <2>2
<1>4. Types'
  BY <1>0, <1>1, <1>3 DEF Types, Net
<1>5. TabInv'
  BY <1>0 DEF TabInv, PlanIsOfItem, RefreshIsShown
<1>6. OneSole'
  BY <1>0, <1>1 DEF OneSole, Sole, Main, Busy
<1>7. ASSUME NEW u \in Busy(net)
      PROVE  Formed(net'[u]) /\ Replied(net[u])' /\ Belongs(net[u])'
  <2>1. CASE u = s
    BY <1>0, <1>1, <2>1 DEF Replied, Belongs, Fresh, Main, Protected
  <2>2. CASE u # s
    <3>1. net'[u] = net[u] /\ Formed(net[u]) /\ Replied(net[u]) /\ Belongs(net[u])
      BY <1>0, <1>1, <1>7, <2>2 DEF Busy
    <3> QED
      BY <1>0, <3>1 DEF Replied, Belongs, Fresh, Main
  <2> QED
    BY <2>1, <2>2
<1> QED
  BY <1>1, <1>4, <1>5, <1>6, <1>7 DEF IInv, NetInv

----------------------------------------------------------------------------
(* A page mounts: what the one before it waited for is nobody's any more.  *)
Outlives(r) == (r.op = "logout" /\ r.by = "app") \/ (r.op \in Protected /\ r.by # "app")

LEMMA OrphansBelong ==
  ASSUME NEW n, Net(n), \A u \in Busy(n) : Formed(n[u]) /\ Replied(n[u]) /\ Outlives(n[u])
  PROVE  \A u \in Busy(Orphan(n)) :
           /\ Formed(Orphan(n)[u]) /\ Replied(Orphan(n)[u]) /\ Outlives(Orphan(n)[u])
           /\ Orphan(n)[u].by \in {"app", "gone"}
BY Orphaned DEF Replied, Outlives

LEMMA MountStep ==
  ASSUME Types, NEW n, Net(n), Room(n), NEW v \in Views,
         \A u \in Busy(n) : Formed(n[u]) /\ Replied(n[u]) /\ Outlives(n[u]),
         Mount(v, n), authed' = "in", view' = v, UNCHANGED <<now, jar, live, stored>>
  PROVE  IInv'
<1> DEFINE o == Orphan(n)
           r == Request("items", None, "page")
<1>0. /\ Net(o) /\ Room(o)
      /\ \A u \in Busy(o) : /\ Formed(o[u]) /\ Replied(o[u]) /\ Outlives(o[u])
                            /\ o[u].by \in {"app", "gone"}
  BY Orphaned, OrphansBelong
<1>1. page' = Blank /\ asked' = 0 /\ net' = IF v = "gear" THEN Send(o, r) ELSE o
  BY DEF Mount
<1>2. /\ Formed(r) /\ r.op = "items" /\ r.by = "page" /\ r.reply = "waiting"
  BY DEF Types, Request, Formed, Ops, Protected
<1>3. ~Sole(r)
  BY <1>2 DEF Sole, Main
<1> HIDE DEF o, r
<1>5. Net(Send(o, r)) /\ Adds(Send(o, r), o, r)
  BY <1>0, <1>2, Sent
<1>6. /\ Net(net')
      /\ \A u \in Busy(net') :
           \/ u \in Busy(o) /\ net'[u] = o[u]
           \/ net'[u] = r
  BY <1>0, <1>1, <1>5 DEF Busy, Adds
<1>7. ASSUME NEW u \in Busy(net')
      PROVE  Formed(net'[u]) /\ Replied(net[u])' /\ Belongs(net[u])' /\ ~Sole(net'[u])
  <2>1. CASE net'[u] = r
    <3>1. Belongs(net[u])'
      BY <1>1, <1>2, <2>1 DEF Belongs, Main, Protected
    <3> QED
      BY <1>2, <1>3, <2>1, <3>1 DEF Replied
  <2>2. CASE u \in Busy(o) /\ net'[u] = o[u]
    <3>1. Belongs(net[u])' /\ ~Sole(net'[u])
      BY <1>0, <2>2 DEF Outlives, Belongs, Sole, Main, Protected
    <3> QED
      BY <1>0, <2>2, <3>1 DEF Replied
  <2> QED
    BY <1>6, <1>7, <2>1, <2>2
<1>8. NetInv' /\ OneSole'
  BY <1>7 DEF NetInv, OneSole
<1>9. Types'
  BY <1>1, <1>6, BlankIsPage, BoundsAssumption DEF Types, Net, jar
<1>10. TabInv'
  BY <1>1, BlankIsPage DEF TabInv, PlanIsOfItem
<1> QED
  BY <1>8, <1>9, <1>10 DEF IInv

----------------------------------------------------------------------------
(* A response that mounts no page: the page changes for its own request.   *)
LEMMA RestStep ==
  ASSUME IInv, NEW s \in Busy(net), net' = Rest(s), page' \in Pages,
         Main(net[s]) \/ (page'.busy = page.busy /\ page'.plan = page.plan),
         UNCHANGED <<now, jar, authed, view, asked, live, stored>>, TabInv'
  PROVE  IInv'
<1>0. /\ Types /\ Net(net) /\ s \in Slots /\ OneSole
      /\ \A u \in Busy(net) : Formed(net[u]) /\ Replied(net[u]) /\ Belongs(net[u])
  BY DEF IInv, NetInv, Types, Net, Busy
<1>1. /\ Net(net') /\ Busy(net') = Busy(net) \ {s}
      /\ \A u \in Slots : u # s => net'[u] = net[u]
  BY <1>0, Resting
<1>2. \A u \in Busy(net') : u \in Busy(net) /\ u # s /\ net'[u] = net[u]
  BY <1>1 DEF Busy
<1>3. ASSUME NEW u \in Busy(net')
      PROVE  Formed(net'[u]) /\ Replied(net[u])' /\ Belongs(net[u])'
  <2>1. net'[u] = net[u] /\ Formed(net[u]) /\ Replied(net[u]) /\ Belongs(net[u]) /\ u # s /\ u \in Busy(net)
    BY <1>0, <1>2, <1>3
  <2>2. Main(net[s]) => ~Main(net[u])
    BY <1>0, <2>1 DEF OneSole, Sole
  <2>3. net[u].op = "parse" /\ net[u].by = "page" => Main(net[u])
    BY DEF Main
  <2> QED
    BY <2>1, <2>2, <2>3 DEF Replied, Belongs, Fresh, Main
<1>4. OneSole'
  BY <1>0, <1>2 DEF OneSole, Sole, Main
<1>5. Types'
  BY <1>0, <1>1 DEF Types, Net, jar
<1> QED
  BY <1>3, <1>4, <1>5 DEF IInv, NetInv

(* A request of the page.                                                  *)
LEMMA AskStep ==
  ASSUME IInv, NEW op \in {"login"} \cup (Protected \ {"items"}), NEW arg, NEW p \in Pages,
         op \in {"parse", "advise"} => arg \in Texts \cup {None},
         Ask(op, arg, p), UNCHANGED <<now, live, stored>>,
         authed = IF op = "login" THEN "out" ELSE "in",
         p.plan # None => p.plan = p.item, op = "parse" => p.plan = None,
         asked' = 0 \/ (op = "refresh" /\ asked' = live /\ Alone /\ view = "gear")
  PROVE  IInv'
<1> DEFINE r == Request(op, arg, "page")
<1>0. /\ Types /\ Net(net) /\ OneSole /\ TabInv /\ cookie \in Jars /\ ~page.busy /\ Room(net)
      /\ \A u \in Busy(net) : Formed(net[u]) /\ Replied(net[u]) /\ Belongs(net[u])
  BY DEF IInv, NetInv, Types, Net, Ask, Enabled
<1>1. /\ page' \in Pages /\ page'.busy /\ page'.plan = p.plan /\ page'.item = p.item
      /\ net' = Send(net, r) /\ UNCHANGED <<jar, authed, view>>
  BY DEF Ask, Pages
<1>2. /\ Formed(r) /\ r.op = op /\ r.by = "page" /\ r.reply = "waiting"
  BY <1>0 DEF Request, Formed, Ops, Protected
<1> HIDE DEF r
<1>3. Net(net') /\ Adds(net', net, r)
  BY <1>0, <1>1, <1>2, Sent
<1>4. PICK m \in Slots : /\ m \notin Busy(net) /\ net'[m] = r /\ Busy(net') = Busy(net) \cup {m}
                        /\ \A s \in Slots : s # m => net'[s] = net[s]
  BY <1>3 DEF Adds
<1>5. ASSUME NEW u \in Busy(net)
      PROVE  /\ Formed(net'[u]) /\ Replied(net[u])' /\ Belongs(net[u])'
             /\ ~Sole(net[u]) /\ net'[u] = net[u]
  <2>1. net'[u] = net[u] /\ Formed(net[u]) /\ Replied(net[u]) /\ Belongs(net[u])
    BY <1>0, <1>4, <1>5 DEF Busy
  <2>2. ~Main(net[u]) /\ net[u].op # "session"
    BY <1>0, <2>1 DEF Belongs
  <2>3. net[u].by # "reload" /\ (net[u].by = "page" => net[u].op = "items")
    BY <2>2 DEF Main
  <2>4. asked' # 0 => net[u].by # "page"
    BY <2>3, <1>5 DEF Alone
  <2>5. Belongs(net[u])'
    BY <1>1, <2>1, <2>2, <2>3, <2>4 DEF Belongs, Main
  <2> QED
    BY <2>1, <2>2, <2>5 DEF Sole, Replied
<1>6. r.op # "session" /\ Replied(net[m])' /\ Belongs(net[m])'
  BY <1>0, <1>1, <1>2, <1>4 DEF Replied, Belongs, Main, Fresh, Protected, TabInv
<1>7. NetInv'
  BY <1>2, <1>4, <1>5, <1>6 DEF NetInv
<1>8. OneSole'
  BY <1>4, <1>5 DEF OneSole
<1>9. Types'
  BY <1>0, <1>1, <1>3 DEF Types, Net, jar
<1>10. TabInv'
  <2>1. asked' # 0 => authed' = "in" /\ view' = "gear"
    BY <1>1
  <2> QED
    BY <1>0, <1>1, <2>1 DEF TabInv, PlanIsOfItem, RefreshIsShown
<1> QED
  BY <1>7, <1>8, <1>9, <1>10 DEF IInv

----------------------------------------------------------------------------
(* What each response does.                                                *)
LEMMA SessionStep ==
  ASSUME IInv, NEW s \in Busy(net), SessionKnown(s), UNCHANGED <<now, jar, view, live, stored, clicks>>
  PROVE  IInv'
<1>0. /\ Types /\ Net(net) /\ s \in Slots /\ OneSole /\ TabInv /\ cookie \in Jars
      /\ \A u \in Busy(net) : Formed(net[u]) /\ Replied(net[u]) /\ Belongs(net[u])
  BY DEF IInv, NetInv, Types, Net, Busy
<1>1. net[s].op = "session" /\ authed = "unknown"
  BY <1>0 DEF SessionKnown, Belongs
<1>2. \A u \in Busy(net) : u = s
  BY <1>0, <1>1 DEF OneSole, Sole, Belongs
<1>3. Net(Rest(s)) /\ Busy(Rest(s)) = {} /\ Room(Rest(s))
  BY <1>0, <1>2, Resting
<1>4. CASE Ok(s) /\ net[s].value
  <2>1. authed' = "in" /\ Mount(view, Rest(s))
    BY <1>4 DEF SessionKnown
  <2> QED
    BY <1>0, <1>3, <2>1, MountStep DEF Types
<1>5. CASE ~(Ok(s) /\ net[s].value)
  <2>1. authed' = "out" /\ net' = Rest(s) /\ UNCHANGED <<page, asked>>
    BY <1>5 DEF SessionKnown
  <2>2. NetInv' /\ OneSole'
    BY <1>3, <2>1 DEF NetInv, OneSole
  <2>3. Types' /\ TabInv'
    BY <1>0, <1>1, <1>3, <2>1 DEF Types, Net, TabInv, PlanIsOfItem, jar
  <2> QED
    BY <2>2, <2>3 DEF IInv
<1> QED
  BY <1>4, <1>5

LEMMA LoginStep ==
  ASSUME IInv, NEW s \in Busy(net), LoggedIn(s), UNCHANGED <<now, jar, view, live, stored, clicks>>
  PROVE  IInv'
<1>0. /\ Types /\ Net(net) /\ s \in Slots /\ OneSole /\ TabInv /\ page \in Pages
      /\ \A u \in Busy(net) : Formed(net[u]) /\ Replied(net[u]) /\ Belongs(net[u])
  BY DEF IInv, NetInv, Types, Net, Busy
<1>1. net[s].op = "login" /\ authed = "out" /\ net[s].by = "page" /\ Main(net[s])
  BY <1>0 DEF LoggedIn, Belongs, Main
<1>2. CASE Ok(s)
  <2>1. authed' = "in" /\ Mount(view, Rest(s))
    BY <1>2 DEF LoggedIn
  <2>3. Net(Rest(s)) /\ Room(Rest(s)) /\ Busy(Rest(s)) = Busy(net) \ {s}
        /\ \A u \in Slots : u # s => Rest(s)[u] = net[u]
    BY <1>0, Resting
  <2>4. ASSUME NEW u \in Busy(Rest(s))
        PROVE  Formed(Rest(s)[u]) /\ Replied(Rest(s)[u]) /\ Outlives(Rest(s)[u])
    <3>1. u \in Busy(net) /\ u # s /\ Rest(s)[u] = net[u]
      BY <2>3, <2>4 DEF Busy
    <3>2. net[u].op \notin {"session", "login"}
      BY <1>0, <1>1, <3>1 DEF Belongs, OneSole, Sole, Main
    <3> QED
      BY <1>0, <3>1, <3>2 DEF Formed, Ops, Belongs, Outlives
  <2> QED
    BY <1>0, <2>1, <2>3, <2>4, MountStep DEF Types
<1>3. CASE ~Ok(s)
  <2>1. page' = Failed(page) /\ net' = Rest(s) /\ UNCHANGED <<authed, asked>>
    BY <1>3 DEF LoggedIn
  <2>2. page' \in Pages /\ page'.plan = page.plan /\ page'.item = page.item
    BY <1>0, <2>1 DEF Failed, Pages
  <2>3. TabInv'
    BY <1>0, <1>1, <2>1, <2>2 DEF TabInv, PlanIsOfItem
  <2> QED
    BY <1>1, <2>1, <2>2, <2>3, RestStep
<1> QED
  BY <1>2, <1>3

LEMMA LogoutStep ==
  ASSUME IInv, NEW s \in Busy(net), LoggedOut(s), UNCHANGED <<now, jar, view, live, stored, clicks>>
  PROVE  IInv'
<1>0. /\ Types /\ Net(net) /\ s \in Slots /\ OneSole /\ TabInv /\ page \in Pages
      /\ \A u \in Busy(net) : Formed(net[u]) /\ Replied(net[u]) /\ Belongs(net[u])
  BY DEF IInv, NetInv, Types, Net, Busy
<1>1. net[s].op = "logout" /\ authed # "unknown"
  BY <1>0 DEF LoggedOut, Belongs
<1>2. /\ Net(Rest(s)) /\ Busy(Rest(s)) = Busy(net) \ {s}
      /\ \A u \in Slots : u # s => Rest(s)[u] = net[u]
  BY <1>0, Resting
<1>3. \A u \in Busy(Rest(s)) : u \in Busy(net) /\ u # s /\ Rest(s)[u] = net[u]
  BY <1>2 DEF Busy
<1>5. CASE Ok(s) /\ authed = "in"
  <2> DEFINE o == Orphan(Rest(s))
  <2>1. authed' = "out" /\ page' = Blank /\ asked' = 0 /\ net' = o
    BY <1>5 DEF LoggedOut, AfterLogout
  <2>2. ASSUME NEW u \in Busy(Rest(s))
        PROVE  Formed(Rest(s)[u]) /\ Replied(Rest(s)[u]) /\ Outlives(Rest(s)[u])
    <3>1. net[u].op \notin {"session", "login"}
      BY <1>0, <1>3, <1>5, <2>2 DEF Belongs
    <3> QED
      BY <1>0, <1>3, <2>2, <3>1 DEF Formed, Ops, Belongs, Outlives
  <2>3. /\ Net(o)
        /\ \A u \in Busy(o) : /\ Formed(o[u]) /\ Replied(o[u]) /\ Outlives(o[u])
                              /\ o[u].by \in {"app", "gone"}
    BY <1>2, <2>2, Orphaned, OrphansBelong
  <2> HIDE DEF o
  <2>4. ASSUME NEW u \in Busy(net')
        PROVE  Formed(net'[u]) /\ Replied(net[u])' /\ Belongs(net[u])' /\ ~Sole(net'[u])
    <3>1. Formed(o[u]) /\ Replied(o[u]) /\ Outlives(o[u]) /\ o[u].by \in {"app", "gone"} /\ net'[u] = o[u]
      BY <2>1, <2>3, <2>4
    <3>2. Replied(net[u])'
      BY <3>1 DEF Replied
    <3>3. Belongs(net[u])' /\ ~Sole(net'[u])
      BY <2>1, <3>1 DEF Outlives, Belongs, Sole, Main, Protected
    <3> QED
      BY <3>1, <3>2, <3>3
  <2>5. NetInv' /\ OneSole'
    BY <2>4 DEF NetInv, OneSole
  <2>6. Types' /\ TabInv'
    BY <1>0, <2>1, <2>3, BlankIsPage, BoundsAssumption DEF Types, Net, TabInv, PlanIsOfItem, jar
  <2> QED
    BY <2>5, <2>6 DEF IInv
<1>6. CASE Ok(s) /\ authed = "out"
  <2>1. authed' = "out" /\ net' = Rest(s) /\ UNCHANGED <<page, asked>>
    BY <1>6 DEF LoggedOut, AfterLogout
  <2>2. ASSUME NEW u \in Busy(net')
        PROVE  /\ Formed(net'[u]) /\ Replied(net[u])' /\ Belongs(net[u])'
               /\ u \in Busy(net) /\ net'[u] = net[u]
    <3>1. /\ u \in Busy(net) /\ net'[u] = net[u]
          /\ Formed(net[u]) /\ Replied(net[u]) /\ Belongs(net[u])
      BY <1>0, <1>3, <2>1, <2>2
    <3> QED
      BY <1>6, <2>1, <3>1 DEF Replied, Belongs, Fresh, Main
  <2>3. NetInv' /\ OneSole'
    BY <1>0, <2>2 DEF NetInv, OneSole, Sole, Main
  <2>4. Types' /\ TabInv'
    BY <1>0, <1>2, <1>6, <2>1 DEF Types, Net, TabInv, PlanIsOfItem, jar
  <2> QED
    BY <2>3, <2>4 DEF IInv
<1>7. CASE ~Ok(s)
  <2>1. net' = Rest(s) /\ UNCHANGED <<authed, page, asked>>
    BY <1>7 DEF LoggedOut
  <2>2. TabInv'
    BY <1>0, <2>1 DEF TabInv, PlanIsOfItem, RefreshIsShown
  <2> QED
    BY <1>0, <2>1, <2>2, RestStep
<1> QED
  BY <1>0, <1>1, <1>5, <1>6, <1>7 DEF Types

LEMMA RefreshedStep ==
  ASSUME IInv, NEW s \in Busy(net), Refreshed(s),
         UNCHANGED <<now, jar, authed, view, asked, live, stored, clicks>>
  PROVE  IInv'
<1> DEFINE by == IF net[s].by = "gone" THEN "gone" ELSE "reload"
           r == Request("items", None, by)
<1>0. /\ Types /\ Net(net) /\ s \in Slots /\ OneSole /\ TabInv /\ page \in Pages /\ cookie \in Jars
      /\ \A u \in Busy(net) : Formed(net[u]) /\ Replied(net[u]) /\ Belongs(net[u])
  BY DEF IInv, NetInv, Types, Net, Busy
<1>1. /\ net[s].op = "refresh" /\ net[s].reply = "ok" /\ net[s].by \in {"page", "gone"}
      /\ authed # "unknown"
  BY <1>0 DEF Refreshed, Ok, Belongs, Formed, Protected
<1>2. /\ Formed(r) /\ r.op = "items" /\ r.by = by /\ r.reply = "waiting" /\ r # Idle
  BY <1>0, <1>1 DEF Request, Formed, Ops, Protected, Idle
<1>3. /\ net' = [u \in Slots |-> IF u = s THEN r ELSE net[u]]
      /\ page' = IF net[s].by = "gone" THEN page ELSE [page EXCEPT !.error = FALSE]
  BY <1>0 DEF Refreshed, LoadAgain, Net
<1> HIDE DEF r
<1>4. Net(net') /\ Busy(net') = Busy(net) /\ net'[s] = r /\ \A u \in Slots : u # s => net'[u] = net[u]
  BY <1>0, <1>2, <1>3 DEF Net, Busy
<1>5. /\ page' \in Pages /\ page'.busy = page.busy /\ page'.plan = page.plan /\ page'.item = page.item
      /\ page'.items = page.items
  BY <1>0, <1>3 DEF Pages
<1>6. Main(net[s]) <=> net[s].by = "page"
  BY <1>1 DEF Main
<1>7. Main(r) <=> net[s].by = "page"
  BY <1>1, <1>2 DEF Main
<1>8. ASSUME NEW u \in Busy(net), u # s
      PROVE  /\ Formed(net'[u]) /\ Replied(net[u])' /\ Belongs(net[u])' /\ net'[u] = net[u]
  <2>1. net'[u] = net[u] /\ Formed(net[u]) /\ Replied(net[u]) /\ Belongs(net[u])
    BY <1>0, <1>4, <1>8 DEF Busy
  <2> QED
    BY <1>5, <2>1 DEF Replied, Belongs, Fresh, Main
<1>9. Replied(net[s])'
  BY <1>2, <1>4 DEF Replied
<1>10. Belongs(net[s])'
  <2>1. asked # 0 /\ net[s].by = "page" => asked <= stored
    BY <1>0, <1>1 DEF Belongs, Fresh
  <2>2. net[s].by = "page" => authed = "in" /\ page.busy
    BY <1>0, <1>1, <1>6 DEF Belongs, Protected, TabInv
  <2> QED
    BY <1>1, <1>2, <1>4, <1>5, <1>7, <2>1, <2>2 DEF Belongs, Fresh, Main, Protected
<1>11. NetInv'
  BY <1>2, <1>4, <1>8, <1>9, <1>10 DEF NetInv
<1>12. OneSole'
  BY <1>0, <1>1, <1>2, <1>4, <1>6, <1>7, <1>8 DEF OneSole, Sole, Main
<1>13. Types'
  BY <1>0, <1>4, <1>5 DEF Types, Net, jar
<1>14. TabInv'
  <2>1. page'.error = page.error \/ page.busy
    BY <1>0, <1>3, <1>6, <1>1 DEF Belongs
  <2> QED
    BY <1>0, <1>5, <2>1 DEF TabInv, PlanIsOfItem, RefreshIsShown
<1> QED
  BY <1>11, <1>12, <1>13, <1>14 DEF IInv

LEMMA ShownStep ==
  ASSUME IInv, NEW s \in Busy(net), Gone(s) \/ Shown(s),
         UNCHANGED <<now, jar, authed, view, asked, live, stored, clicks>>
  PROVE  IInv'
<1>0. /\ Types /\ TabInv /\ page \in Pages /\ live \in 1..MaxVersion /\ asked \in 0..live
      /\ Formed(net[s]) /\ Replied(net[s]) /\ Belongs(net[s]) /\ MaxVersion \in Nat /\ MaxTime \in Nat
  BY BoundsAssumption DEF IInv, NetInv, Types
<1>1. CASE Gone(s)
  <2>1. net' = Rest(s) /\ page' = page
    BY <1>1 DEF Gone
  <2>2. TabInv'
    BY <1>0, <2>1 DEF TabInv, PlanIsOfItem, RefreshIsShown
  <2> QED
    BY <1>0, <2>1, <2>2, RestStep
<1>2. CASE Shown(s) /\ Ok(s)
  <2>1. /\ net[s].by \in {"page", "reload"} /\ net' = Rest(s) /\ page' = Result(s)
        /\ net[s].op \in {"items", "upgrades", "parse", "advise"} /\ net[s].reply = "ok"
    BY <1>0, <1>2 DEF Shown, Ok, Protected, Formed
  <2>2. /\ asked # 0 => net[s].op = "items" /\ net[s].by = "reload" /\ asked <= net[s].value
    BY <1>0, <2>1 DEF Belongs, Fresh
  <2>3. CASE net[s].op = "items"
    <3>1. net[s].value \in 0..MaxVersion
      BY <1>0, <2>1, <2>3 DEF Replied, Data
    <3>2. page' = [page EXCEPT !.items = net[s].value, !.busy = page.busy /\ net[s].by # "reload"]
      BY <2>1, <2>3 DEF Result
    <3>3. /\ page' \in Pages /\ page'.plan = page.plan /\ page'.item = page.item
          /\ page'.items = net[s].value /\ (page'.busy <=> page.busy /\ net[s].by # "reload")
      BY <1>0, <3>1, <3>2 DEF Pages
    <3>4. Main(net[s]) \/ (page'.busy = page.busy /\ page'.plan = page.plan)
      BY <1>0, <2>1, <3>3 DEF Main, Pages
    <3>5. TabInv'
      BY <1>0, <2>2, <3>3 DEF TabInv, PlanIsOfItem, RefreshIsShown
    <3> QED
      BY <2>1, <3>3, <3>4, <3>5, RestStep
  <2>4. CASE net[s].op # "items"
    <3>1. Main(net[s]) /\ asked = 0 /\ net[s].by = "page"
      BY <1>0, <2>1, <2>2, <2>4 DEF Main, Belongs
    <3>2. page' \in Pages /\ (page'.plan # None => page'.plan = page'.item)
      <4>1. CASE net[s].op = "upgrades"
        <5>1. net[s].value \in 0..MaxVersion
          BY <1>0, <2>1, <4>1 DEF Replied, Data
        <5>2. page' = [page EXCEPT !.rows = net[s].value, !.busy = FALSE]
          BY <2>1, <4>1 DEF Result
        <5> QED
          BY <1>0, <5>1, <5>2 DEF Pages, TabInv, PlanIsOfItem
      <4>2. CASE net[s].op = "parse"
        <5>1. net[s].value \in Texts \cup {None} /\ page.plan = None
          BY <1>0, <2>1, <3>1, <4>2 DEF Replied, Formed, Belongs
        <5>2. page' = [page EXCEPT !.item = net[s].value, !.rating = net[s].value, !.busy = FALSE]
          BY <2>1, <4>2 DEF Result
        <5> QED
          BY <1>0, <5>1, <5>2 DEF Pages
      <4>3. CASE net[s].op = "advise"
        <5>1. net[s].value \in Texts \cup {None}
          BY <1>0, <2>1, <4>3 DEF Replied, Formed
        <5>2. page' = [page EXCEPT !.item = net[s].value, !.plan = net[s].value, !.busy = FALSE]
          BY <2>1, <4>3 DEF Result
        <5> QED
          BY <1>0, <5>1, <5>2 DEF Pages
      <4> QED
        BY <2>1, <2>4, <4>1, <4>2, <4>3
    <3>3. TabInv'
      BY <1>0, <3>1, <3>2 DEF TabInv, PlanIsOfItem
    <3> QED
      BY <2>1, <3>1, <3>2, <3>3, RestStep
  <2> QED
    BY <2>3, <2>4
<1>3. CASE Shown(s) /\ ~Ok(s)
  <2>1. net[s].by \in {"page", "reload"} /\ net' = Rest(s) /\ page' = Failure(s)
    BY <1>3 DEF Shown
  <2>2. /\ page' \in Pages /\ page'.plan = page.plan /\ page'.item = page.item /\ page'.error
        /\ Main(net[s]) \/ page'.busy = page.busy
    BY <1>0, <2>1 DEF Failure, Failed, Main, Pages
  <2>3. TabInv'
    BY <1>0, <2>2 DEF TabInv, PlanIsOfItem, RefreshIsShown
  <2> QED
    BY <2>1, <2>2, <2>3, RestStep
<1> QED
  BY <1>1, <1>2, <1>3

LEMMA DeliverStep ==
  ASSUME IInv, NEW s \in Slots, Deliver(s)
  PROVE  IInv'
<1>1. s \in Busy(net)
  BY DEF Deliver, Answered, Busy
<1>2. UNCHANGED <<now, jar, view, live, stored, clicks>>
  BY DEF Deliver
<1>3. CASE SessionKnown(s)
  BY <1>1, <1>2, <1>3, SessionStep
<1>4. CASE LoggedIn(s)
  BY <1>1, <1>2, <1>4, LoginStep
<1>5. CASE LoggedOut(s)
  BY <1>1, <1>2, <1>5, LogoutStep
<1>6. CASE (Refreshed(s) \/ Gone(s) \/ Shown(s)) /\ UNCHANGED <<authed, asked>>
  BY <1>1, <1>2, <1>6, RefreshedStep, ShownStep
<1> QED
  BY <1>3, <1>4, <1>5, <1>6 DEF Deliver

----------------------------------------------------------------------------
(* The user.                                                               *)
LEMMA ButtonStep ==
  ASSUME IInv, Submit \/ ClickRefresh \/ ClickPrices \/ ClickParse \/ ClickAdvise
  PROVE  IInv'
<1>0. /\ Types /\ TabInv /\ page \in Pages /\ live \in 1..MaxVersion
      /\ page.plan # None => page.plan = page.item
  BY DEF IInv, Types, TabInv, PlanIsOfItem
<1>1. UNCHANGED <<now, live, stored>>
  BY DEF Submit, ClickRefresh, ClickPrices, ClickParse, ClickAdvise, Click
<1>2. CASE Submit
  <2>1. PICK password \in {"right", "wrong"} : Ask("login", password, page)
    BY <1>2 DEF Submit
  <2>2. asked' = 0 /\ authed = "out"
    BY <1>0, <1>2 DEF Submit, TabInv
  <2> QED
    BY <1>0, <1>1, <2>1, <2>2, AskStep
<1>3. CASE ClickRefresh
  <2>1. authed = "in" /\ view = "gear" /\ Ask("refresh", None, page)
        /\ (asked' = 0 \/ (asked' = live /\ Alone))
    BY <1>3 DEF ClickRefresh, On
  <2>2. "refresh" \in Protected \ {"items"}
    BY DEF Protected
  <2> QED
    BY <1>0, <1>1, <2>1, <2>2, AskStep
<1>4. CASE ClickPrices
  <2>1. authed = "in" /\ Ask("upgrades", None, page) /\ asked' = 0
    BY <1>0, <1>4 DEF ClickPrices, On, TabInv
  <2>2. "upgrades" \in Protected \ {"items"}
    BY DEF Protected
  <2> QED
    BY <1>0, <1>1, <2>1, <2>2, AskStep
<1>5. CASE ClickParse
  <2>1. authed = "in" /\ Ask("parse", page.text, ClearPlan(page)) /\ asked' = 0
    BY <1>0, <1>5 DEF ClickParse, On, TabInv
  <2>2. "parse" \in Protected \ {"items"} /\ page.text \in Texts \cup {None}
    BY <1>0 DEF Protected, Pages
  <2>3. ClearPlan(page) \in Pages /\ ClearPlan(page).plan = None
    BY <1>0 DEF ClearPlan, Pages
  <2> QED
    BY <1>1, <2>1, <2>2, <2>3, AskStep
<1>6. CASE ClickAdvise
  <2>1. authed = "in" /\ Ask("advise", page.text, page) /\ asked' = 0
    BY <1>0, <1>6 DEF ClickAdvise, On, TabInv
  <2>2. "advise" \in Protected \ {"items"} /\ page.text \in Texts \cup {None}
    BY <1>0 DEF Protected, Pages
  <2> QED
    BY <1>0, <1>1, <2>1, <2>2, AskStep
<1> QED
  BY <1>2, <1>3, <1>4, <1>5, <1>6

(* The requests stay.                                                      *)
LEMMA StayStep ==
  ASSUME IInv, UNCHANGED <<until, astray, authed, view, asked, net, stored>>, cookie' \in Jars,
         now' \in 1..MaxTime, now <= now', live' \in 1..MaxVersion, live <= live',
         page' \in Pages, page'.busy = page.busy, page'.error = page.error,
         page'.items = page.items, page'.item = page.item, page'.plan = page.plan
  PROVE  IInv'
<1>0. /\ Types /\ TabInv /\ OneSole /\ now \in Nat /\ now' \in Nat /\ live \in Nat /\ live' \in Nat
      /\ stored \in 0..live /\ asked \in 0..live
      /\ \A u \in Busy(net) : Formed(net[u]) /\ Replied(net[u]) /\ Belongs(net[u])
  BY BoundsAssumption DEF IInv, NetInv, Types
<1>1. ASSUME NEW u \in Busy(net) PROVE Replied(net[u])' /\ Belongs(net[u])'
  <2>1. Formed(net[u]) /\ Replied(net[u]) /\ Belongs(net[u])
    BY <1>0, <1>1
  <2>2. Replied(net[u])'
    BY <1>0, <2>1 DEF Replied
  <2>4. Belongs(net[u])'
    BY <2>1 DEF Belongs, Fresh, Main
  <2> QED
    BY <2>2, <2>4
<1>2. Busy(net') = Busy(net) /\ NetInv' /\ OneSole'
  BY <1>0, <1>1 DEF NetInv, OneSole, Sole, Main, Busy
<1>3. Types' /\ TabInv'
  BY <1>0 DEF Types, TabInv, PlanIsOfItem, RefreshIsShown
<1> QED
  BY <1>2, <1>3 DEF IInv

LEMMA NavigateStep ==
  ASSUME IInv, Navigate
  PROVE  IInv'
<1>0. /\ Types /\ TabInv /\ Net(net) /\ cookie \in Jars /\ authed = "in" /\ Room(net)
      /\ \A u \in Busy(net) : Formed(net[u]) /\ Replied(net[u]) /\ Belongs(net[u])
      /\ UNCHANGED <<now, live, stored>>
  BY DEF IInv, NetInv, Types, Net, Navigate, Click
<1>1. PICK v \in Views : view' = v /\ Mount(v, net)
  BY DEF Navigate
<1>2. \A u \in Busy(net) : Outlives(net[u])
  BY <1>0 DEF Belongs, Outlives, Formed, Ops
<1>3. authed' = "in" /\ UNCHANGED jar
  BY <1>0 DEF Navigate
<1> QED
  BY <1>0, <1>1, <1>2, <1>3, MountStep

LEMMA ClickLogoutStep ==
  ASSUME IInv, ClickLogout
  PROVE  IInv'
<1> DEFINE r == Request("logout", None, "app")
<1>0. /\ Types /\ TabInv /\ Net(net) /\ cookie \in Jars /\ authed = "in" /\ Room(net) /\ OneSole
      /\ \A u \in Busy(net) : Formed(net[u]) /\ Replied(net[u]) /\ Belongs(net[u])
      /\ UNCHANGED <<now, live, stored, jar, authed, view, page, asked>> /\ net' = Send(net, r)
  BY DEF IInv, NetInv, Types, Net, ClickLogout, Click, browser
<1>1. Formed(r) /\ r.op = "logout" /\ r.by = "app" /\ r.reply = "waiting"
  BY <1>0 DEF Request, Formed, Ops
<1> HIDE DEF r
<1>2. Net(net') /\ Adds(net', net, r)
  BY <1>0, <1>1, Sent
<1>3. PICK m \in Slots : /\ m \notin Busy(net) /\ net'[m] = r /\ Busy(net') = Busy(net) \cup {m}
                        /\ \A s \in Slots : s # m => net'[s] = net[s]
  BY <1>2 DEF Adds
<1>4. ASSUME NEW u \in Busy(net)
      PROVE  Formed(net'[u]) /\ Replied(net[u])' /\ Belongs(net[u])' /\ net'[u] = net[u]
  <2>1. net'[u] = net[u] /\ Formed(net[u]) /\ Replied(net[u]) /\ Belongs(net[u])
    BY <1>0, <1>3, <1>4 DEF Busy
  <2> QED
    BY <1>0, <2>1 DEF Replied, Belongs, Fresh, Main
<1>5. Replied(net[m])' /\ Belongs(net[m])' /\ ~Sole(net'[m])
  BY <1>0, <1>1, <1>3 DEF Replied, Belongs, Main, Sole, Protected
<1>6. NetInv'
  BY <1>1, <1>3, <1>4, <1>5 DEF NetInv
<1>7. OneSole'
  BY <1>0, <1>3, <1>4, <1>5 DEF OneSole, Sole, Main
<1>8. Types' /\ TabInv'
  BY <1>0, <1>2 DEF Types, Net, TabInv, PlanIsOfItem, RefreshIsShown, jar
<1> QED
  BY <1>6, <1>7, <1>8 DEF IInv

LEMMA FirstJars == NoCookie \in Jars /\ 1 + TTL \in Jars
  BY TTLAssumption, BoundsAssumption DEF Jars, NoCookie

LEMMA IInvInductive ==
  /\ Init => IInv
  /\ IInv /\ [Next]_vars => IInv'
<1>1. Init => IInv
  <2> SUFFICES ASSUME Init PROVE OpenState
    BY Opened
  <2>1. cookie \in Jars /\ until \in Jars /\ astray \in BOOLEAN
    <3>1. cookie \in {NoCookie, 1 + TTL} /\ until = cookie /\ astray = FALSE
      BY DEF Init, Issue
    <3> QED
      BY <3>1, FirstJars
  <2> QED
    BY <2>1, BoundsAssumption DEF Init, OpenState
<1>2. IInv /\ [Next]_vars => IInv'
  <2> SUFFICES ASSUME IInv, [Next]_vars PROVE IInv'
    OBVIOUS
  <2>0. /\ Types /\ now \in 1..MaxTime /\ live \in 1..MaxVersion /\ page \in Pages
        /\ MaxTime \in Nat /\ MaxVersion \in Nat /\ cookie \in Jars /\ NoCookie \in Jars
    BY BoundsAssumption, TTLAssumption DEF IInv, Types, Jars, NoCookie
  <2>1. CASE Paste
    <3>1. PICK t \in Texts : page' = [page EXCEPT !.text = t]
      BY <2>1 DEF Paste
    <3>2. /\ page' \in Pages /\ page'.busy = page.busy /\ page'.error = page.error
          /\ page'.items = page.items /\ page'.item = page.item /\ page'.plan = page.plan
      BY <2>0, <3>1 DEF Pages
    <3> QED
      BY <2>0, <2>1, <3>2, StayStep DEF Paste, jar
  <2>2. CASE ReloadTab
    <3>1. OpenState'
      BY <2>0, <2>2 DEF ReloadTab, Click, OpenState, Types, Opening, Request
    <3> QED
      BY <3>1, OpenedAgain
  <2>3. CASE Submit \/ ClickRefresh \/ ClickPrices \/ ClickParse \/ ClickAdvise
    BY <2>3, ButtonStep
  <2>4. CASE Navigate
    BY <2>4, NavigateStep
  <2>5. CASE ClickLogout
    BY <2>5, ClickLogoutStep
  <2>6. CASE Play
    <3>1. live' \in 1..MaxVersion /\ live <= live' /\ now <= now
      BY <2>0, <2>6 DEF Play
    <3> QED
      BY <2>0, <2>6, <3>1, StayStep DEF Play, browser, jar
  <2>7. CASE Tick
    <3>1. now' \in 1..MaxTime /\ now <= now' /\ live <= live /\ cookie' \in Jars
      BY <2>0, <2>7 DEF Tick, Kept
    <3> QED
      BY <2>0, <2>7, <3>1, StayStep DEF Tick
  <2>8. ASSUME NEW s \in Slots, Serve(s) \/ Headers(s) \/ Lose(s) \/ Deliver(s) PROVE IInv'
    BY <2>8, ServeStep, HeadersStep, LoseStep, DeliverStep
  <2>9. CASE UNCHANGED vars
    <3>1. now <= now /\ live <= live
      BY <2>0
    <3> QED
      BY <2>0, <2>9, <3>1, StayStep DEF vars, browser, jar
  <2> QED
    BY <2>1, <2>2, <2>3, <2>4, <2>5, <2>6, <2>7, <2>8, <2>9 DEF Next, User
<1> QED
  BY <1>1, <1>2

----------------------------------------------------------------------------
(* What the tab holds, and what the server answers about the character,    *)
(* keeps its type (latestOrFetch, server.go:150-158).                      *)
THEOREM WebTypes == Spec => []TypeOK
<1>1. IInv => TypeOK
  <2> SUFFICES ASSUME IInv PROVE TypeOK
    OBVIOUS
  <2>1. Types /\ \A u \in Busy(net) : Replied(net[u])
    BY DEF IInv, NetInv
  <2>2. /\ page.busy \in BOOLEAN /\ page.error \in BOOLEAN
        /\ {page.text, page.item, page.rating, page.plan} \subseteq Texts \cup {None}
    BY <2>1 DEF Types, Pages
  <2> QED
    BY <2>1, <2>2 DEF Types, TypeOK, Replied, Data, Ok, Jars
<1> QED
  BY <1>1, IInvInductive, PTL DEF Spec

(* Whatever is in flight, lost, late or out of order: a plan on the screen *)
(* is one for the item on the screen (Craft.tsx:21-49).                    *)
THEOREM PlanFits == Spec => []PlanIsOfItem
<1>1. IInv => PlanIsOfItem
  BY DEF IInv, TabInv
<1> QED
  BY <1>1, IInvInductive, PTL DEF Spec

(* A refresh that was the only load when it was clicked shows items that   *)
(* are not older than the click, or an error (refresh, Gear.tsx:22-33).    *)
THEOREM RefreshShows == Spec => []RefreshIsShown
<1>1. IInv => RefreshIsShown
  <2> SUFFICES ASSUME IInv PROVE RefreshIsShown
    OBVIOUS
  <2>1. page.items \in 0..MaxVersion
    BY DEF IInv, Types, Pages
  <2> QED
    BY <2>1, BoundsAssumption DEF IInv, TabInv, RefreshIsShown
<1> QED
  BY <1>1, IInvInductive, PTL DEF Spec

----------------------------------------------------------------------------
(* The cookie.  What a request took with it, and what was heard of it.     *)
Lawful(r) ==
  /\ r.op = "session" /\ r.cookie # NoCookie => r.cookie = until /\ (cookie = until \/ now >= until)
  /\ r.op = "login" /\ r.reply = "arriving" =>
       (cookie = NoCookie => now >= until \/ astray) /\ (Clearing => astray)
  /\ r.op \in Protected /\ r.by # "gone" =>
       /\ r.cookie = NoCookie => MayLackCookie
       /\ r.cookie # NoCookie /\ r.reply = "refused" => now > r.cookie

(* What the browser holds is the last it was given, or nothing.            *)
JarInv ==
  /\ cookie \in {until, NoCookie} /\ AgreesWithCookie
  /\ \A s \in Busy(net) : Lawful(net[s])

(* A request that was there before, whoever waits for it now; a new one.   *)
Older(q, r) ==
  /\ q.op = r.op /\ q.cookie = r.cookie /\ (q.by # "gone" => r.by # "gone")
  /\ q.op = "login" /\ q.reply = "arriving" => r.reply = "arriving"
  /\ q.op \in Protected /\ q.reply = "refused" =>
       r.reply = "refused" \/ q.cookie = NoCookie \/ now > q.cookie
  /\ q.op = "logout" /\ q.reply \in {"waiting", "ok"} => r.reply \in {"waiting", "ok"}
Newer(q) ==
  q.cookie = cookie /\ q.reply = "waiting" /\ q.op # "session" /\ (q.op = "logout" => authed = "in")
Follows(q) == Newer(q) \/ \E w \in Busy(net) : Older(q, net[w])

LEMMA Times ==
  ASSUME IInv
  PROVE  /\ now \in Nat /\ until \in Nat /\ (astray \in BOOLEAN)
         /\ \A u \in Busy(net) : net[u].cookie \in Nat
<1>1. Jars \subseteq Nat
  BY TTLAssumption, BoundsAssumption DEF Jars
<1>2. now \in Nat
  BY BoundsAssumption DEF IInv, Types
<1>3. until \in Jars /\ (astray \in BOOLEAN)
  BY DEF IInv, Types
<1>4. \A u \in Busy(net) : net[u].cookie \in Jars
  BY DEF IInv, NetInv, Formed
<1> QED
  BY <1>1, <1>2, <1>3, <1>4

(* A step in which nobody enters.                                          *)
LEMMA JarKept ==
  ASSUME IInv, IInv', JarInv, now' \in Nat, now <= now', UNCHANGED until, astray => astray',
         authed' = "in" => authed = "in",
         Leaving /\ authed' = "in" => Leaving' \/ astray',
         \/ cookie' = cookie
         \/ cookie' = NoCookie /\ now' >= until
         \/ cookie' = NoCookie /\ Leaving' /\ Clearing /\ authed # "unknown",
         \A u \in Busy(net') : Follows(net'[u])
  PROVE  JarInv'
<1>b. \A u \in Busy(net') : net'[u].op \in Protected /\ net'[u].by # "gone" => authed' = "in"
  BY DEF IInv, NetInv, Belongs
<1>c. Clearing' => Clearing \/ authed = "in"
  <2>1. SUFFICES ASSUME NEW u \in Busy(net'), net'[u].op = "logout", net'[u].reply \in {"waiting", "ok"},
                        authed # "in"
                 PROVE  Clearing
    BY DEF Clearing
  <2>2. PICK w \in Busy(net) : Older(net'[u], net[w])
    BY <2>1 DEF Follows, Newer
  <2> QED
    BY <2>1, <2>2 DEF Clearing, Older
<1>0. /\ now \in Nat /\ until \in Nat /\ (astray \in BOOLEAN)
      /\ \A u \in Busy(net) : net[u].cookie \in Nat
  BY Times
<1>1. cookie' \in {until', NoCookie}
  BY DEF JarInv, NoCookie
<1>m. MayLackCookie /\ authed' = "in" => MayLackCookie'
  BY <1>0 DEF MayLackCookie
<1>2. AgreesWithCookie'
  <2> SUFFICES ASSUME authed' = "in", cookie' = NoCookie PROVE MayLackCookie'
    BY DEF AgreesWithCookie
  <2>1. CASE cookie' = cookie
    BY <1>m, <2>1 DEF JarInv, AgreesWithCookie, NoCookie
  <2>2. CASE now' >= until \/ Leaving'
    BY <2>2 DEF MayLackCookie
  <2> QED
    BY <2>1, <2>2
<1>3. ASSUME NEW u \in Busy(net') PROVE Lawful(net[u])'
  <2>1. CASE Newer(net'[u])
    <3>1. net'[u].op \in Protected /\ net'[u].by # "gone" /\ net'[u].cookie = NoCookie => MayLackCookie'
      BY <1>b, <1>m, <1>3, <2>1 DEF Newer, JarInv, AgreesWithCookie, NoCookie
    <3> QED
      BY <2>1, <3>1 DEF Lawful, Newer, NoCookie
  <2>2. ASSUME NEW w \in Busy(net), Older(net'[u], net[w]) PROVE Lawful(net[u])'
    <3>1. Lawful(net[w]) /\ net[w].cookie \in Nat /\ Belongs(net[w])
      BY <1>0 DEF JarInv, IInv, NetInv
    <3>2. net'[u].op = "session" /\ net'[u].cookie # NoCookie =>
            net'[u].cookie = until' /\ (cookie' = until' \/ now' >= until')
      <4> SUFFICES ASSUME net'[u].op = "session", net'[u].cookie # NoCookie
                   PROVE  net'[u].cookie = until' /\ (cookie' = until' \/ now' >= until')
        OBVIOUS
      <4>1. authed = "unknown" /\ net[w].cookie = until /\ (cookie = until \/ now >= until)
        BY <2>2, <3>1 DEF Older, Lawful, Belongs, NoCookie
      <4> QED
        BY <1>0, <2>2, <4>1 DEF Older
    <3>3. net'[u].op = "login" /\ net'[u].reply = "arriving" =>
            (cookie' = NoCookie => now' >= until' \/ astray') /\ (Clearing' => astray')
      <4> SUFFICES ASSUME net'[u].op = "login", net'[u].reply = "arriving"
                   PROVE  (cookie' = NoCookie => now' >= until' \/ astray') /\ (Clearing' => astray')
        OBVIOUS
      <4>1. authed = "out" /\ (cookie = NoCookie => now >= until \/ astray) /\ (Clearing => astray)
        BY <2>2, <3>1 DEF Older, Lawful, Belongs, NoCookie
      <4> QED
        BY <1>0, <1>c, <4>1
    <3>4. net'[u].op \in Protected /\ net'[u].by # "gone" =>
            /\ net'[u].cookie = NoCookie => MayLackCookie'
            /\ net'[u].cookie # NoCookie /\ net'[u].reply = "refused" => now' > net'[u].cookie
      <4> SUFFICES ASSUME net'[u].op \in Protected, net'[u].by # "gone"
                   PROVE  /\ net'[u].cookie = NoCookie => MayLackCookie'
                          /\ net'[u].cookie # NoCookie /\ net'[u].reply = "refused"
                               => now' > net'[u].cookie
        OBVIOUS
      <4>1. /\ net[w].cookie = NoCookie => MayLackCookie
            /\ net[w].cookie # NoCookie /\ net[w].reply = "refused" => now > net[w].cookie
        BY <2>2, <3>1 DEF Older, Lawful, NoCookie
      <4>2. authed' = "in"
        BY <1>b, <1>3
      <4>3. net'[u].cookie = NoCookie => MayLackCookie'
        BY <1>m, <2>2, <4>1, <4>2 DEF Older
      <4>4. net'[u].cookie # NoCookie /\ net'[u].reply = "refused" => now > net[w].cookie
        BY <2>2, <4>1 DEF Older
      <4> QED
        BY <1>0, <2>2, <3>1, <4>3, <4>4 DEF Older
    <3> QED
      BY <3>2, <3>3, <3>4 DEF Lawful, NoCookie
  <2> QED
    BY <1>3, <2>1, <2>2 DEF Follows
<1> QED
  BY <1>1, <1>2, <1>3 DEF JarInv, NoCookie

(* The page is entered, and sends what it opens with.                      *)
LEMMA Entered ==
  ASSUME IInv, JarInv, UNCHANGED <<now, cookie, until, astray>>,
         cookie = NoCookie => now >= until \/ astray,
         \A u \in Busy(net') : net'[u].by = "gone" \/ net'[u].op = "logout" \/ Newer(net'[u]),
         \A u \in Busy(net') : net'[u].op = "session" => FALSE,
         \A u \in Busy(net') : net'[u].op = "login" => FALSE
  PROVE  JarInv'
<1>1. cookie' \in {until', NoCookie}
  BY DEF JarInv, NoCookie
<1>2. cookie' = NoCookie => MayLackCookie'
  BY DEF MayLackCookie, NoCookie
<1>3. AgreesWithCookie'
  BY <1>2 DEF AgreesWithCookie
<1>4. ASSUME NEW u \in Busy(net') PROVE Lawful(net[u])'
  <2>1. net'[u].op \notin {"session", "login"}
    BY <1>4
  <2>2. net'[u].op \in Protected /\ net'[u].by # "gone" => Newer(net'[u])
    BY <1>4 DEF Protected
  <2> QED
    BY <1>2, <2>1, <2>2 DEF Lawful, Newer, NoCookie
<1> QED
  BY <1>1, <1>3, <1>4 DEF JarInv, NoCookie

(* Requests that a step leaves alone.                                      *)
LEMMA SameFollows ==
  ASSUME NEW q, NEW w \in Busy(net), q = net[w]
  PROVE  Follows(q)
BY DEF Follows, Older

(* A page mounts: what is under way then is nobody's, but its own load.    *)
LEMMA MountNewer ==
  ASSUME NEW n, Net(n), Room(n), \A u \in Busy(n) : Formed(n[u]), NEW v, Mount(v, n),
         cookie \in Jars
  PROVE  /\ \A u \in Busy(net') :
              \/ Newer(net'[u]) /\ net'[u].op = "items"
              \/ /\ u \in Busy(n) /\ net'[u].op = n[u].op /\ net'[u].cookie = n[u].cookie
                 /\ net'[u].reply = n[u].reply /\ net'[u].by \in {n[u].by, "gone"}
                 /\ net'[u].by \in {"app", "gone"}
         /\ \A u \in Busy(n) :
              u \in Busy(net') /\ net'[u].op = n[u].op /\ net'[u].reply = n[u].reply
<1> DEFINE o == Orphan(n)
           r == Request("items", None, "page")
<1>1. net' = IF v = "gear" THEN Send(o, r) ELSE o
  BY DEF Mount
<1>2. Formed(r) /\ Newer(r) /\ r.op = "items"
  BY DEF Request, Formed, Newer, Ops, Protected
<1>3. /\ Net(o) /\ Room(o) /\ Busy(o) = Busy(n)
      /\ \A u \in Busy(n) : /\ o[u].op = n[u].op /\ o[u].cookie = n[u].cookie
                            /\ o[u].reply = n[u].reply /\ o[u].by \in {"app", "gone"}
                            /\ o[u].by \in {n[u].by, "gone"}
  BY Orphaned
<1> HIDE DEF o, r
<1>4. Adds(Send(o, r), o, r)
  BY <1>2, <1>3, Sent
<1>5. ASSUME NEW u \in Busy(net') PROVE net'[u] = r \/ (u \in Busy(n) /\ net'[u] = o[u])
  BY <1>1, <1>3, <1>4, <1>5 DEF Adds, Busy
<1>6. ASSUME NEW u \in Busy(n) PROVE u \in Busy(net') /\ net'[u] = o[u]
  BY <1>1, <1>3, <1>4, <1>6 DEF Adds, Busy
<1> QED
  BY <1>2, <1>3, <1>5, <1>6

LEMMA JarServed ==
  ASSUME IInv, IInv', JarInv, NEW s \in Slots, Serve(s)
  PROVE  JarInv'
<1>0. /\ Net(net) /\ s \in Busy(net) /\ Formed(net[s]) /\ net[s].reply = "waiting"
      /\ UNCHANGED <<now, jar, authed>>
  BY DEF IInv, NetInv, Types, Net, Serve, Waiting, Busy, browser
<1>1. now \in Nat
  BY Times
<1>2. PICK reply \in {"ok", "refused", "expired"} : \E value :
        Reply(s, reply, value) /\ (reply = "refused" /\ net[s].op \in Protected => ~Verify(net[s].cookie))
  BY DEF Serve, HandleSession, HandleLogin, HandleLogout, HandleProtected, TradeExpired, Refuse,
         LatestOrFetch, Fetch, Protected
<1>3. PICK value : Reply(s, reply, value)
  BY <1>2
<1>4. /\ Busy(net') = Busy(net) /\ net'[s].op = net[s].op /\ net'[s].by = net[s].by
      /\ net'[s].cookie = net[s].cookie /\ net'[s].reply = reply
      /\ \A u \in Slots : u # s => net'[u] = net[u]
  BY <1>0, <1>3, Answering
<1>5. ASSUME NEW u \in Busy(net') PROVE Follows(net'[u])
  <2>1. CASE u = s
    <3>1. reply = "refused" /\ net[s].op \in Protected => net[s].cookie = NoCookie \/ now > net[s].cookie
      <4>1. net[s].cookie \in Nat
        BY <1>0, Times
      <4> QED
        BY <1>1, <1>2, <4>1 DEF Verify
    <3>2. Older(net'[s], net[s])
      BY <1>0, <1>2, <1>4, <3>1 DEF Older, NoCookie
    <3> QED
      BY <1>0, <2>1, <3>2 DEF Follows
  <2>2. CASE u # s
    BY <1>4, <1>5, <2>2, SameFollows DEF Busy
  <2> QED
    BY <2>1, <2>2
<1>6. Leaving => Leaving'
  BY <1>0, <1>4 DEF Leaving, Busy
<1> QED
  BY <1>0, <1>1, <1>5, <1>6, JarKept DEF jar

LEMMA JarLost ==
  ASSUME IInv, IInv', JarInv, NEW s \in Slots, Lose(s)
  PROVE  JarInv'
<1>0. /\ Net(net) /\ s \in Busy(net) /\ Formed(net[s]) /\ Reply(s, "failed", None)
      /\ UNCHANGED <<now, cookie, until, authed>>
      /\ astray' = (astray \/ (net[s].op = "logout" /\ net[s].reply = "arriving"))
  BY DEF IInv, NetInv, Types, Net, Lose, Busy
<1>1. now \in Nat
  BY Times
<1>2. /\ Busy(net') = Busy(net) /\ net'[s].op = net[s].op /\ net'[s].by = net[s].by
      /\ net'[s].cookie = net[s].cookie /\ net'[s].reply = "failed"
      /\ \A u \in Slots : u # s => net'[u] = net[u]
  BY <1>0, Answering
<1>3. ASSUME NEW u \in Busy(net') PROVE Follows(net'[u])
  <2>1. CASE u = s
    <3>1. Older(net'[s], net[s])
      BY <1>2 DEF Older
    <3> QED
      BY <1>0, <2>1, <3>1 DEF Follows
  <2>2. CASE u # s
    BY <1>2, <1>3, <2>2, SameFollows DEF Busy
  <2> QED
    BY <2>1, <2>2
<1>4. Leaving => Leaving' \/ astray'
  BY <1>0, <1>2 DEF Leaving, Busy
<1>5. astray => astray'
  BY <1>0
<1>6. authed' = authed /\ cookie' = cookie /\ until' = until /\ now' = now
  BY <1>0
<1>7. now' \in Nat /\ now <= now'
  BY <1>1, <1>6
<1> QED
  BY <1>3, <1>4, <1>5, <1>6, <1>7, JarKept

LEMMA JarAnnounced ==
  ASSUME IInv, IInv', JarInv, NEW s \in Slots, Headers(s)
  PROVE  JarInv'
<1>0. /\ Net(net) /\ s \in Busy(net) /\ Formed(net[s]) /\ Replied(net[s]) /\ Belongs(net[s])
      /\ UNCHANGED <<now, authed>>
      /\ \A u \in Busy(net) : Belongs(net[u])
  BY DEF IInv, NetInv, Types, Net, Headers, SetsCookie, Busy
<1>1. now \in Nat
  BY Times
<1>2. /\ Busy(net') = Busy(net)
      /\ net'[s].op = net[s].op /\ net'[s].by = net[s].by /\ net'[s].cookie = net[s].cookie
      /\ net'[s].reply = "arriving" /\ net[s].reply = "ok" /\ net[s].op \in {"login", "logout"}
      /\ \A u \in Slots : u # s => net'[u] = net[u]
  BY <1>0, Announcing
<1>3. CASE net[s].op = "logout"
  <2>1. cookie' = NoCookie /\ UNCHANGED <<until, astray>>
    BY <1>3 DEF Headers
  <2>2. Leaving' /\ Clearing
    BY <1>0, <1>2, <1>3 DEF Leaving, Clearing
  <2>3. authed # "unknown"
    BY <1>0, <1>3 DEF Belongs
  <2>4. ASSUME NEW u \in Busy(net') PROVE Follows(net'[u])
    <3>1. CASE u = s
      <4>1. Older(net'[s], net[s])
        BY <1>2, <1>3 DEF Older, Protected
      <4> QED
        BY <1>0, <3>1, <4>1 DEF Follows
    <3>2. CASE u # s
      BY <1>2, <2>4, <3>2, SameFollows DEF Busy
    <3> QED
      BY <3>1, <3>2
  <2>5. now' = now /\ authed' = authed /\ until' = until /\ astray' = astray
    BY <1>0, <2>1
  <2> QED
    BY <1>1, <2>1, <2>2, <2>3, <2>4, <2>5, JarKept
<1>4. CASE net[s].op = "login"
  <2>1. until' = net[s].value /\ cookie' \in Kept(net[s].value, now) /\ astray' = Clearing
    BY <1>4 DEF Headers
  <2>2. net[s].value \in Nat
    <3>1. Jars \subseteq Nat
      BY TTLAssumption, BoundsAssumption DEF Jars
    <3> QED
      BY <1>0, <1>2, <1>4, <3>1 DEF Replied
  <2>3. cookie' \in {until', NoCookie} /\ (cookie' = NoCookie => now >= until')
    BY <1>1, <2>1, <2>2 DEF Kept, NoCookie
  <2>4. authed = "out" /\ authed' = "out"
    BY <1>0, <1>4 DEF Belongs
  <2>5. Clearing' => Clearing
    BY <1>2, <1>4 DEF Clearing, Busy
  <2>6. ASSUME NEW u \in Busy(net') PROVE Lawful(net[u])'
    <3>1. Belongs(net[u]) /\ net'[u].op = net[u].op /\ net'[u].by = net[u].by
      BY <1>0, <1>2, <2>6 DEF Busy
    <3>2. net'[u].op # "session" /\ ~(net'[u].op \in Protected /\ net'[u].by # "gone")
      BY <2>4, <3>1 DEF Belongs
    <3>3. cookie' = NoCookie => now' >= until' \/ astray'
      BY <1>0, <2>3
    <3>4. Clearing' => astray'
      BY <2>1, <2>5
    <3> QED
      BY <3>2, <3>3, <3>4 DEF Lawful, NoCookie
  <2>7. AgreesWithCookie'
    BY <2>4 DEF AgreesWithCookie
  <2> QED
    BY <2>3, <2>6, <2>7 DEF JarInv, NoCookie
<1> QED
  BY <1>2, <1>3, <1>4

(* The other responses.                                                    *)
LEMMA JarSession ==
  ASSUME IInv, IInv', JarInv, NEW s \in Busy(net), SessionKnown(s), UNCHANGED <<now, jar, view>>
  PROVE  JarInv'
<1>0. /\ Types /\ Net(net) /\ s \in Slots /\ OneSole
      /\ \A u \in Busy(net) : Formed(net[u]) /\ Replied(net[u]) /\ Belongs(net[u])
      /\ \A u \in Busy(net') : Belongs(net[u])'
  BY DEF IInv, NetInv, Types, Net, Busy
<1>1. net[s].op = "session" /\ authed = "unknown"
  BY <1>0 DEF SessionKnown, Belongs
<1>2. \A u \in Busy(net) : u = s
  BY <1>0, <1>1 DEF OneSole, Sole, Belongs
<1>3. Net(Rest(s)) /\ Busy(Rest(s)) = {} /\ Room(Rest(s))
  BY <1>0, <1>2, Resting
<1>4. CASE Ok(s) /\ net[s].value
  <2>1. authed' = "in" /\ Mount(view, Rest(s))
    BY <1>4 DEF SessionKnown
  <2>2. cookie = NoCookie => now >= until
    BY <1>0, <1>1, <1>4 DEF JarInv, Lawful, Replied, Ok
  <2>3. \A u \in Busy(net') : net'[u].by = "gone" \/ net'[u].op = "logout" \/ Newer(net'[u])
    BY <1>0, <1>3, <2>1, MountNewer DEF Types
  <2> QED
    BY <1>0, <2>1, <2>2, <2>3, Entered DEF jar, Belongs
<1>5. CASE ~(Ok(s) /\ net[s].value)
  <2>1. authed' = "out" /\ net' = Rest(s)
    BY <1>5 DEF SessionKnown
  <2> QED
    BY <1>0, <1>3, <2>1, JarKept, Times DEF jar
<1> QED
  BY <1>4, <1>5

LEMMA JarLogin ==
  ASSUME IInv, IInv', JarInv, NEW s \in Busy(net), net[s].reply # "ok", LoggedIn(s),
         UNCHANGED <<now, jar, view>>
  PROVE  JarInv'
<1>0. /\ Types /\ Net(net) /\ s \in Slots /\ OneSole
      /\ \A u \in Busy(net) : Formed(net[u]) /\ Belongs(net[u]) /\ Lawful(net[u])
  BY DEF IInv, JarInv, NetInv, Types, Net, Busy
<1>1. net[s].op = "login" /\ authed = "out" /\ Main(net[s])
  BY <1>0 DEF LoggedIn, Belongs, Main
<1>2. /\ Net(Rest(s)) /\ Busy(Rest(s)) = Busy(net) \ {s} /\ Room(Rest(s))
      /\ \A u \in Slots : u # s => Rest(s)[u] = net[u]
  BY <1>0, Resting
<1>3. ASSUME NEW u \in Busy(Rest(s))
      PROVE  u \in Busy(net) /\ u # s /\ Rest(s)[u] = net[u] /\ net[u].op \notin {"session", "login"}
  <2>1. u \in Busy(net) /\ u # s /\ Rest(s)[u] = net[u]
    BY <1>2, <1>3 DEF Busy
  <2> QED
    BY <1>0, <1>1, <2>1 DEF Belongs, OneSole, Sole, Main
<1>4. CASE Ok(s)
  <2>1. authed' = "in" /\ Mount(view, Rest(s))
    BY <1>4 DEF LoggedIn
  <2>2. cookie = NoCookie => now >= until \/ astray
    BY <1>0, <1>1, <1>4 DEF Lawful, Ok
  <2>3. \A u \in Busy(net') :
           \/ Newer(net'[u]) /\ net'[u].op = "items"
           \/ /\ u \in Busy(Rest(s)) /\ net'[u].op = Rest(s)[u].op /\ net'[u].cookie = Rest(s)[u].cookie
              /\ net'[u].reply = Rest(s)[u].reply /\ net'[u].by \in {"app", "gone"}
    BY <1>0, <1>2, <1>3, <2>1, MountNewer DEF Types
  <2>4. \A u \in Busy(net') : net'[u].op \notin {"session", "login"}
    BY <1>3, <2>3
  <2>5. \A u \in Busy(net') : Formed(net'[u]) /\ Belongs(net[u])'
    BY DEF IInv, NetInv
  <2>6. \A u \in Busy(net') : net'[u].by = "gone" \/ net'[u].op = "logout" \/ Newer(net'[u])
    BY <2>3, <2>4, <2>5 DEF Formed, Belongs, Ops
  <2>7. now' = now /\ cookie' = cookie /\ until' = until /\ astray' = astray
    BY DEF jar
  <2> QED
    BY <2>2, <2>4, <2>6, <2>7, Entered
<1>5. CASE ~Ok(s)
  <2>1. net' = Rest(s) /\ authed' = authed
    BY <1>5 DEF LoggedIn
  <2>2. \A u \in Busy(net') : Follows(net'[u])
    BY <1>3, <2>1, SameFollows
  <2>3. now' = now /\ cookie' = cookie /\ until' = until /\ astray' = astray /\ authed' # "in"
    BY <1>1, <2>1 DEF jar
  <2>4. now \in Nat
    BY Times
  <2> QED
    BY <2>2, <2>3, <2>4, JarKept
<1> QED
  BY <1>4, <1>5

(* A response after which what is left of the requests goes on.            *)
LEMMA JarDelivered ==
  ASSUME IInv, IInv', JarInv, NEW s \in Busy(net), Answered(s), UNCHANGED <<now, jar, view>>,
         \/ LoggedOut(s)
         \/ (Refreshed(s) \/ Gone(s) \/ Shown(s)) /\ UNCHANGED <<authed, asked>>
  PROVE  JarInv'
<1>0. /\ Types /\ Net(net) /\ s \in Slots
      /\ \A u \in Busy(net) : Formed(net[u]) /\ Belongs(net[u])
  BY DEF IInv, NetInv, Types, Net, Busy
<1>1. /\ Net(Rest(s)) /\ Busy(Rest(s)) = Busy(net) \ {s}
      /\ \A u \in Slots : u # s => Rest(s)[u] = net[u]
  BY <1>0, Resting
<1>2. \A u \in Busy(Rest(s)) : u \in Busy(net) /\ u # s /\ Rest(s)[u] = net[u]
  BY <1>1 DEF Busy
<1>3. now' = now /\ cookie' = cookie /\ until' = until /\ astray' = astray /\ now \in Nat
  BY Times DEF jar
<1>4. CASE LoggedOut(s) /\ Ok(s)
  <2>1. authed' = "out"
    BY <1>4 DEF LoggedOut, AfterLogout
  <2>2. \A u \in Busy(Rest(s)) : Formed(Rest(s)[u])
    BY <1>0, <1>2
  <2>3. ASSUME NEW u \in Busy(net')
        PROVE  \E w \in Busy(net) : Older(net'[u], net[w])
    <3>1. CASE net' = Rest(s)
      BY <1>2, <2>3, <3>1 DEF Older
    <3>2. CASE net' = Orphan(Rest(s))
      <4>1. u \in Busy(Rest(s))
        BY <1>1, <2>2, <2>3, <3>2, Orphaned
      <4>2. /\ net'[u].op = Rest(s)[u].op /\ net'[u].cookie = Rest(s)[u].cookie
            /\ net'[u].reply = Rest(s)[u].reply
            /\ (Rest(s)[u].by # "app" => net'[u].by = "gone")
            /\ (Rest(s)[u].by = "app" => net'[u] = Rest(s)[u])
        BY <1>1, <2>2, <3>2, <4>1, Orphaned
      <4>3. Older(net'[u], net[u])
        BY <1>2, <4>1, <4>2 DEF Older
      <4> QED
        BY <1>2, <4>1, <4>3
    <3> QED
      BY <1>4, <3>1, <3>2 DEF LoggedOut
  <2> QED
    BY <1>3, <2>1, <2>3, JarKept DEF Follows
<1>5. CASE Refreshed(s)
  <2>1. /\ net[s].op = "refresh" /\ net[s].reply = "ok" /\ authed' = authed
        /\ net' = [net EXCEPT ![s] = Request("items", None, IF @.by = "gone" THEN @.by ELSE "reload")]
    BY <1>0, <1>5 DEF Refreshed, LoadAgain, Ok, Formed, LoggedOut
  <2>2. /\ Newer(net'[s]) /\ \A u \in Slots : u # s => net'[u] = net[u]
    BY <1>0, <2>1 DEF Net, Newer, Request
  <2>3. ASSUME NEW u \in Busy(net') PROVE Follows(net'[u])
    BY <2>2, <2>3, SameFollows DEF Follows, Busy
  <2>4. Leaving => Leaving'
    BY <2>1, <2>2 DEF Leaving, Busy
  <2>5. authed' = authed
    BY <2>1
  <2> QED
    BY <1>3, <2>3, <2>4, <2>5, JarKept
<1>6. CASE ~(LoggedOut(s) /\ Ok(s)) /\ ~Refreshed(s)
  <2>1. net' = Rest(s) /\ authed' = authed /\ ~(net[s].op = "logout" /\ net[s].reply = "arriving")
    BY <1>0, <1>6 DEF LoggedOut, Gone, Shown, Ok, Belongs, Protected
  <2>2. \A u \in Busy(net') : Follows(net'[u])
    BY <1>2, <2>1, SameFollows
  <2>3. Leaving => Leaving'
    BY <1>1, <2>1 DEF Leaving, Busy
  <2> QED
    BY <1>3, <2>1, <2>2, <2>3, JarKept
<1> QED
  BY <1>4, <1>5, <1>6

(* The user.                                                               *)
LEMMA JarSent ==
  ASSUME IInv, IInv', JarInv, UNCHANGED <<now, jar, authed>>, authed # "unknown", Room(net),
         NEW r, Formed(r), Newer(r), net' = Send(net, r)
  PROVE  JarInv'
<1>0. Net(net)
  BY DEF IInv, Types, Net
<1>1. Adds(net', net, r)
  BY <1>0, Sent
<1>2. PICK m \in Slots : /\ m \notin Busy(net) /\ net'[m] = r /\ Busy(net') = Busy(net) \cup {m}
                        /\ \A s \in Slots : s # m => net'[s] = net[s]
  BY <1>1 DEF Adds
<1>3. \A u \in Busy(net) : u \in Busy(net') /\ net'[u] = net[u]
  BY <1>2 DEF Busy
<1>4. ASSUME NEW u \in Busy(net') PROVE Follows(net'[u])
  <2>1. CASE u = m
    BY <1>2, <2>1 DEF Follows
  <2>2. CASE u \in Busy(net)
    BY <1>3, <2>2, SameFollows
  <2> QED
    BY <1>2, <1>4, <2>1, <2>2
<1>5. Leaving => Leaving'
  BY <1>3 DEF Leaving
<1>6. /\ now' = now /\ cookie' = cookie /\ until' = until /\ astray' = astray /\ authed' = authed
      /\ now \in Nat
  BY Times DEF jar
<1> QED
  BY <1>4, <1>5, <1>6, JarKept

LEMMA JarAsked ==
  ASSUME IInv, IInv', JarInv, Submit \/ ClickRefresh \/ ClickPrices \/ ClickParse \/ ClickAdvise
  PROVE  JarInv'
<1>0. /\ cookie \in Jars /\ page.text \in Texts \cup {None} /\ authed # "unknown"
      /\ now' = now
  BY DEF IInv, Types, Pages, Submit, ClickRefresh, ClickPrices, ClickParse, ClickAdvise, On, Click
<1>1. PICK op \in {"login", "refresh", "upgrades", "parse", "advise"},
            arg \in Texts \cup {None, "right", "wrong"} :
        /\ \E p : Ask(op, arg, p)
        /\ op \in {"parse", "advise"} => arg \in Texts \cup {None}
  <2>1. CASE Submit
    BY <2>1 DEF Submit
  <2>2. CASE ClickRefresh \/ ClickPrices
    BY <2>2 DEF ClickRefresh, ClickPrices
  <2>3. CASE ClickParse \/ ClickAdvise
    BY <1>0, <2>3 DEF ClickParse, ClickAdvise
  <2> QED
    BY <2>1, <2>2, <2>3
<1> DEFINE r == Request(op, arg, "page")
<1>2. net' = Send(net, r) /\ Room(net) /\ UNCHANGED <<jar, authed>>
  BY <1>1 DEF Ask, Enabled
<1>3. Formed(r) /\ Newer(r)
  BY <1>0, <1>1 DEF Request, Formed, Newer, Ops, Protected
<1> HIDE DEF r
<1> QED
  BY <1>0, <1>2, <1>3, JarSent

LEMMA JarNavigated ==
  ASSUME IInv, IInv', JarInv, Navigate
  PROVE  JarInv'
<1>0. /\ Net(net) /\ Room(net) /\ cookie \in Jars /\ authed = "in" /\ authed' = "in"
      /\ \A u \in Busy(net) : Formed(net[u]) /\ Belongs(net[u])
      /\ now' = now /\ cookie' = cookie /\ until' = until /\ astray' = astray /\ now \in Nat
  BY Times DEF IInv, NetInv, Types, Net, Navigate, Click, jar
<1>1. PICK v \in Views : Mount(v, net)
  BY DEF Navigate
<1>2. \A u \in Busy(net') :
        \/ Newer(net'[u]) /\ net'[u].op = "items"
        \/ /\ u \in Busy(net) /\ net'[u].op = net[u].op /\ net'[u].cookie = net[u].cookie
           /\ net'[u].reply = net[u].reply /\ net'[u].by \in {net[u].by, "gone"}
  BY <1>0, <1>1, MountNewer
<1>3. cookie = NoCookie => MayLackCookie
  BY <1>0 DEF JarInv, AgreesWithCookie
<1>4. ASSUME NEW u \in Busy(net') PROVE Follows(net'[u])
  <2>1. CASE Newer(net'[u])
    BY <2>1 DEF Follows
  <2>2. CASE /\ u \in Busy(net) /\ net'[u].op = net[u].op /\ net'[u].cookie = net[u].cookie
             /\ net'[u].reply = net[u].reply /\ net'[u].by \in {net[u].by, "gone"}
    <3>1. Older(net'[u], net[u])
      BY <2>2 DEF Older
    <3> QED
      BY <2>2, <3>1 DEF Follows
  <2> QED
    BY <1>2, <1>4, <2>1, <2>2
<1>5. Leaving => Leaving'
  BY <1>0, <1>1, MountNewer DEF Leaving
<1> QED
  BY <1>0, <1>4, <1>5, JarKept

LEMMA JarOpened == Init => JarInv
  BY DEF Init, JarInv, Lawful, AgreesWithCookie, Opening, Request, Busy, Idle, Protected

LEMMA JarReloaded ==
  ASSUME IInv, IInv', JarInv, ReloadTab
  PROVE  JarInv'
<1>1. /\ authed' = "unknown" /\ net' = Opening /\ astray' = FALSE /\ cookie' = cookie /\ until' = until
  BY DEF ReloadTab
<1>2. cookie \in {until, NoCookie}
  BY DEF JarInv
<1>3. \A u \in Busy(net') : net'[u] = Request("session", None, "app")
  BY <1>1 DEF Opening, Busy
<1>4. \A u \in Busy(net') :
        net'[u].op = "session" /\ (net'[u].cookie # NoCookie => net'[u].cookie = until' /\ cookie' = until')
  BY <1>1, <1>2, <1>3 DEF Request, NoCookie
<1>5. \A u \in Busy(net') : Lawful(net[u])'
  BY <1>4 DEF Lawful, Protected, NoCookie
<1> QED
  BY <1>1, <1>2, <1>5 DEF JarInv, AgreesWithCookie, NoCookie

LEMMA Still ==
  ASSUME IInv, IInv', JarInv, now' \in {now, now + 1}, cookie' \in Kept(cookie, now') \cup {cookie},
         UNCHANGED <<until, astray, net, authed>>
  PROVE  JarInv'
<1>0. now \in Nat /\ until \in Nat /\ cookie \in {until, NoCookie}
  BY Times DEF JarInv
<1>1. now' \in Nat /\ now <= now'
  BY <1>0
<1>2. cookie' = cookie \/ (cookie' = NoCookie /\ now' >= until)
  BY <1>0, <1>1 DEF Kept, NoCookie
<1>3. \A u \in Busy(net') : Follows(net'[u])
  BY SameFollows DEF Busy
<1>4. Leaving => Leaving'
  BY DEF Leaving, Busy
<1>5. until' = until /\ astray' = astray /\ authed' = authed
  OBVIOUS
<1> QED
  BY <1>1, <1>2, <1>3, <1>4, <1>5, JarKept

LEMMA JarInvInductive ==
  /\ Init => JarInv
  /\ IInv /\ IInv' /\ JarInv /\ [Next]_vars => JarInv'
<1>1. IInv /\ IInv' /\ JarInv /\ [Next]_vars => JarInv'
  <2> SUFFICES ASSUME IInv, IInv', JarInv, [Next]_vars PROVE JarInv'
    OBVIOUS
  <2>1. CASE Submit \/ ClickRefresh \/ ClickPrices \/ ClickParse \/ ClickAdvise
    BY <2>1, JarAsked
  <2>2. CASE Navigate
    BY <2>2, JarNavigated
  <2>3. CASE ClickLogout
    <3> DEFINE r == Request("logout", None, "app")
    <3>1. net' = Send(net, r) /\ Room(net) /\ authed = "in" /\ UNCHANGED <<now, jar, authed>>
      BY <2>3 DEF ClickLogout, Click, browser
    <3>2. cookie \in Jars
      BY DEF IInv, Types
    <3>3. Formed(r) /\ Newer(r)
      BY <3>1, <3>2 DEF Request, Formed, Newer, Ops
    <3> HIDE DEF r
    <3> QED
      BY <3>1, <3>3, JarSent
  <2>4. CASE ReloadTab
    BY <2>4, JarReloaded
  <2>5. CASE Paste \/ Play \/ UNCHANGED vars
    <3>1. now' = now /\ cookie' = cookie /\ until' = until /\ astray' = astray
          /\ net' = net /\ authed' = authed
      BY <2>5 DEF Paste, Play, vars, browser, jar
    <3> QED
      BY <3>1, Still
  <2>6. CASE Tick
    <3>1. now' = now + 1 /\ cookie' \in Kept(cookie, now + 1)
          /\ until' = until /\ astray' = astray /\ net' = net /\ authed' = authed
      BY <2>6 DEF Tick
    <3> QED
      BY <3>1, Still
  <2>7. ASSUME NEW s \in Slots, Serve(s) \/ Headers(s) \/ Lose(s) PROVE JarInv'
    BY <2>7, JarServed, JarAnnounced, JarLost
  <2>8. ASSUME NEW s \in Slots, Deliver(s) PROVE JarInv'
    <3>1. /\ s \in Busy(net) /\ Answered(s) /\ UNCHANGED <<now, jar, view>>
          /\ (net[s].op = "login" => net[s].reply # "ok")
      BY <2>8 DEF Deliver, Answered, SetsCookie, Busy
    <3>2. CASE SessionKnown(s)
      BY <3>1, <3>2, JarSession
    <3>3. CASE LoggedIn(s)
      BY <3>1, <3>3, JarLogin DEF LoggedIn
    <3>4. CASE LoggedOut(s) \/ ((Refreshed(s) \/ Gone(s) \/ Shown(s)) /\ UNCHANGED <<authed, asked>>)
      BY <3>1, <3>4, JarDelivered
    <3> QED
      BY <2>8, <3>2, <3>3, <3>4 DEF Deliver
  <2> QED
    BY <2>1, <2>2, <2>3, <2>4, <2>5, <2>6, <2>7, <2>8 DEF Next, User
<1> QED
  BY <1>1, JarOpened

LEMMA BothInv == Spec => [](IInv /\ JarInv)
<1>1. Init => IInv /\ JarInv
  BY IInvInductive, JarInvInductive
<1>2. IInv /\ JarInv /\ [Next]_vars => (IInv /\ JarInv)'
  BY IInvInductive, JarInvInductive
<1> QED
  BY <1>1, <1>2, PTL DEF Spec

(* However logins, logouts, lost responses and the end of the session      *)
(* interleave, the pages are shown without a session cookie only when the  *)
(* session's time is up, between the headers and the body of a logout, or  *)
(* after a logout that a login overtook or that was cut off there          *)
(* (App.tsx:14-39; auth.go:69-94).                                         *)
THEOREM PagesNeedCookie == Spec => []AgreesWithCookie
<1>1. JarInv => AgreesWithCookie
  BY DEF JarInv
<1> QED
  BY <1>1, BothInv, PTL

(* The server refuses a request the pages wait for only when its cookie    *)
(* has run out, or when the browser may lack one for the reasons above     *)
(* (require, auth.go:129-137).                                             *)
THEOREM RefusedOnlyLate == Spec => []NotRefusedEarly
<1>1. JarInv => NotRefusedEarly
  BY DEF JarInv, Lawful, NotRefusedEarly
<1> QED
  BY <1>1, BothInv, PTL
=============================================================================
