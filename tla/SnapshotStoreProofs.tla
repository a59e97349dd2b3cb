------------------------ MODULE SnapshotStoreProofs ------------------------
(***************************************************************************)
(* Proofs about SnapshotStore, for any number of handlers and commands at  *)
(* the same time, with failing saves, kills and restarts: a refresh shows  *)
(* what is now, the age of what a view shows is bounded, and what is       *)
(* returned is of the character asked for, as far as directories tell.     *)
(* In the second part one request or command runs at a time.               *)
(***************************************************************************)
EXTENDS SnapshotStore, WellFoundedInduction, FiniteSetTheorems, TLAPS

Content == Snapshot \cup {Absent, Empty, Torn}

Locals ==
  [op : Op, name : Names, picked : Stamps, ready : Nat, got : Snapshot, result : Snapshot,
   answered : 0..MaxTime, at : 0..MaxTime, version : 0..MaxVersion, shown : Nat]

Places == {"idle", "listing", "reading", "fetching", "waiting", "answered", "heard",
           "captured", "writing", "returning"}

Types ==
  /\ setting \in Settings
  /\ now \in 0..MaxTime /\ version \in 0..MaxVersion
  /\ ended \in [0..MaxVersion -> Nat]
  /\ files \in [Dirs -> [Stamps -> Content]]
  /\ heard \in Nat
  /\ shown \in [Names -> Nat] /\ saved \in [Names -> Nat]
  /\ pc \in [Handlers -> Places]
  /\ req \in [Handlers -> Locals]

(* What has not been replaced yet has no end.                              *)
EndedInv == \A v \in 0..MaxVersion : version <= v => ended[v] = Never

(* A snapshot was taken at a time it was current, or a response's latency  *)
(* later.                                                                  *)
Dated(snap) ==
  snap.version <= version /\ snap.at <= now /\ snap.at <= ended[snap.version] + setting.latency

FilesInv ==
  \A d \in Dirs, s \in Stamps :
    Whole(files[d][s]) => Sanitize(files[d][s].of) = d /\ Dated(files[d][s])

(* What a request with locals q has at a place p.                          *)
Holds(q, p) ==
  /\ q.version <= version /\ q.at <= now
  /\ p \in {"listing", "reading"} => q.op \in {"view", "use"}
  /\ p \in {"answered", "heard", "captured", "writing"} =>
       /\ q.got.of = q.name /\ q.version <= q.got.version /\ q.got.version <= version
       /\ q.at <= ended[q.got.version]
  /\ p \in {"answered", "heard"} =>
       q.answered <= now /\ now <= q.answered + setting.latency
       /\ q.answered <= ended[q.got.version]
  /\ p \in {"captured", "writing"} => Dated(q.got)
  /\ p = "returning" =>
       /\ Sanitize(q.result.of) = Sanitize(q.name)
       /\ q.op \in {"refresh", "get"} => q.version <= q.result.version
       /\ q.op = "view" /\ setting.maxAge > 0 =>
            q.at < ended[q.result.version] + setting.maxAge + setting.latency

IInv ==
  /\ Types /\ EndedInv /\ FilesInv
  /\ \A h \in Handlers : Holds(req[h], pc[h])

----------------------------------------------------------------------------
(* The parameters of a setting.                                            *)
LEMMA SettingTypes ==
  ASSUME setting \in Settings
  PROVE  /\ Names # {} /\ AnyName \in Names /\ Names \subseteq Seq(STRING)
         /\ MaxVersion \in Nat /\ MaxTime \in Nat /\ Stamps \subseteq Nat
         /\ setting.maxAge \in Nat /\ setting.latency \in Nat
         /\ NoRequest \in Locals
<1>1. setting \in Setting /\ Names # {}
  BY SettingsAssumption DEF Names
<1>2. AnyName \in Names
  BY <1>1 DEF AnyName
<1>3. Names \subseteq Seq(STRING) /\ MaxVersion \in Nat /\ MaxTime \in Nat
      /\ setting.maxAge \in Nat /\ setting.latency \in Nat
  BY <1>1 DEF Setting, Names, MaxVersion, MaxTime
<1>4. MaxTime \div PerSecond \in Nat
  BY <1>3, SettingsAssumption
<1>5. 0 \in Stamps /\ Stamps \subseteq Nat
  BY <1>4 DEF Stamps
<1>6. NoSnapshot \in Snapshot
  BY <1>2, <1>3 DEF NoSnapshot, Snapshot
<1> QED
  BY <1>1, <1>2, <1>3, <1>5, <1>6 DEF NoRequest, Locals, Op

(* A directory with a file in it has a newest one.                         *)
LEMMA NewestExists ==
  ASSUME NEW n \in Nat, NEW S \in SUBSET (0..n), S # {}
  PROVE  Newest(S) \in S
<1> DEFINE Distances == {n - s : s \in S}
<1>1. Distances \subseteq Nat /\ Distances # {}
  <2>1. \A s \in S : s \in Nat /\ s <= n
    OBVIOUS
  <2>2. \A s \in S : n - s \in Nat
    BY <2>1
  <2>3. Distances \subseteq Nat
    BY <2>2
  <2>4. Distances # {}
    OBVIOUS
  <2> QED
    BY <2>3, <2>4
<1>2. PICK d \in Distances : \A e \in Distances : <<e, d>> \notin OpToRel(<, Nat)
  BY <1>1, WFMin, NatLessThanWellFounded, Zenon
<1>3. \A e \in Distances : ~(e < d)
  BY <1>1, <1>2 DEF OpToRel
<1>4. PICK s \in S : d = n - s
  OBVIOUS
<1>5. \A r \in S : r <= s
  BY <1>3, <1>4
<1> QED
  BY <1>4, <1>5 DEF Newest

LEMMA Initially == Init => IInv
<1> SUFFICES ASSUME Init PROVE IInv
  OBVIOUS
<1>1. setting \in Settings
  BY DEF Init
<1>2. Types
  BY <1>1, SettingTypes DEF Init, Types, Never, Content, Places
<1>3. EndedInv
  BY DEF Init, EndedInv
<1>4. FilesInv
  BY DEF Init, FilesInv, Whole
<1>5. \A h \in Handlers : Holds(req[h], pc[h])
  BY DEF Init, Holds, NoRequest
<1> QED
  BY <1>2, <1>3, <1>4, <1>5 DEF IInv

----------------------------------------------------------------------------
(* Time and the character move on; ends that were set stay.                *)
Forward ==
  /\ setting' = setting
  /\ now' \in Nat /\ now <= now' /\ version' \in Nat /\ version <= version'
  /\ \A v \in 0..MaxVersion :
       ended'[v] = ended[v] \/ (ended'[v] = now' /\ now' = now)

LEMMA DatedStays ==
  ASSUME Types, Forward, NEW snap \in Snapshot, Dated(snap)
  PROVE  Dated(snap)'
<1>1. setting.latency \in Nat /\ MaxTime \in Nat /\ MaxVersion \in Nat
  BY SettingTypes DEF Types
<1>2. snap.version \in 0..MaxVersion /\ snap.at \in 0..MaxTime
  BY DEF Snapshot
<1>3. ended[snap.version] \in Nat /\ now \in Nat /\ version \in Nat /\ snap.at \in Nat
  BY <1>1, <1>2 DEF Types
<1>4. snap.version <= version' /\ snap.at <= now'
  BY <1>1, <1>2, <1>3 DEF Forward, Dated
<1>5. snap.at <= ended'[snap.version] + setting.latency
  BY <1>1, <1>2, <1>3 DEF Forward, Dated
<1> QED
  BY <1>4, <1>5 DEF Forward, Dated

LEMMA HoldsStays ==
  ASSUME Types, Forward, NEW q \in Locals, NEW p \in Places, Holds(q, p),
         p \in {"answered", "heard"} => now' <= q.answered + setting.latency
  PROVE  Holds(q, p)'
<1>1. setting.latency \in Nat /\ setting.maxAge \in Nat /\ MaxTime \in Nat /\ MaxVersion \in Nat
  BY SettingTypes DEF Types
<1>2. q.got \in Snapshot /\ q.result \in Snapshot /\ q.answered \in 0..MaxTime
      /\ q.at \in 0..MaxTime /\ q.version \in 0..MaxVersion
  BY DEF Locals
<1>3. /\ q.got.version \in 0..MaxVersion /\ q.result.version \in 0..MaxVersion
      /\ now \in Nat /\ version \in Nat
  <2>1. q.got.version \in 0..MaxVersion /\ q.result.version \in 0..MaxVersion
    BY <1>2 DEF Snapshot
  <2>2. now \in Nat /\ version \in Nat
    BY <1>1 DEF Types
  <2> QED
    BY <2>1, <2>2
<1>4. ended[q.got.version] \in Nat /\ ended[q.result.version] \in Nat
  BY <1>3 DEF Types
<1>5. Dated(q.got) => Dated(q.got)'
  BY <1>2, DatedStays
<1>6. q.version <= version' /\ q.at <= now'
  BY <1>1, <1>2, <1>3 DEF Forward, Holds
<1>7. ASSUME p \in {"answered", "heard", "captured", "writing"}
      PROVE  /\ q.got.of = q.name /\ q.version <= q.got.version /\ q.got.version <= version'
             /\ q.at <= ended'[q.got.version]
  BY <1>1, <1>2, <1>3, <1>4, <1>7 DEF Forward, Holds
<1>8. ASSUME p \in {"answered", "heard"}
      PROVE  q.answered <= now' /\ now' <= q.answered + setting'.latency
             /\ q.answered <= ended'[q.got.version]
  BY <1>1, <1>2, <1>3, <1>4, <1>8 DEF Forward, Holds
<1>9. ASSUME p = "returning"
      PROVE  /\ Sanitize(q.result.of) = Sanitize(q.name)
             /\ q.op \in {"refresh", "get"} => q.version <= q.result.version
             /\ q.op = "view" /\ setting'.maxAge > 0 =>
                  q.at < ended'[q.result.version] + setting'.maxAge + setting'.latency
  BY <1>1, <1>2, <1>3, <1>4, <1>9 DEF Forward, Holds
<1> QED
  BY <1>5, <1>6, <1>7, <1>8, <1>9 DEF Holds

----------------------------------------------------------------------------
(* A step of one request, which leaves the world alone: what is left to    *)
(* show is that the request's new locals are right at the new place, and   *)
(* the files.                                                              *)
LEMMA SameFrames == UNCHANGED setting =>
  Names' = Names /\ MaxVersion' = MaxVersion /\ MaxTime' = MaxTime /\ Stamps' = Stamps
  /\ Dirs' = Dirs /\ Never' = Never /\ Snapshot' = Snapshot /\ Content' = Content
  /\ Locals' = Locals
BY DEF Names, MaxVersion, MaxTime, Stamps, Dirs, Never, Snapshot, Content, Locals

LEMMA FilesKept == IInv /\ UNCHANGED <<world, files>> => FilesInv'
BY SameFrames DEF IInv, FilesInv, Dated, world

LEMMA Moved ==
  ASSUME IInv, UNCHANGED world, FilesInv',
         NEW h \in Handlers, NEW q \in Locals, NEW p \in Places, Holds(q, p),
         pc' = [pc EXCEPT ![h] = p], req' = [req EXCEPT ![h] = q],
         files' \in [Dirs -> [Stamps -> Content]], heard' \in Nat,
         shown' \in [Names -> Nat], saved' \in [Names -> Nat]
  PROVE  IInv'
<1>1. Types'
  BY SameFrames DEF IInv, Types, world
<1>2. EndedInv'
  BY SameFrames DEF IInv, EndedInv, world
<1>3. ASSUME NEW k \in Handlers PROVE Holds(req[k], pc[k])'
  <2>1. CASE k = h
    <3>1. req'[k] = q /\ pc'[k] = p
      BY <2>1 DEF IInv, Types
    <3> QED
      BY <3>1 DEF Holds, Dated, world
  <2>2. CASE k # h
    <3>1. req'[k] = req[k] /\ pc'[k] = pc[k] /\ Holds(req[k], pc[k])
      BY <2>2 DEF IInv, Types
    <3> QED
      BY <3>1 DEF Holds, Dated, world
  <2> QED
    BY <2>1, <2>2
<1> QED
  BY <1>1, <1>2, <1>3 DEF IInv

(* The same where the step leaves the store alone as well.                 *)
LEMMA MovedOnly ==
  ASSUME IInv, UNCHANGED <<world, store>>,
         NEW h \in Handlers, NEW q \in Locals, NEW p \in Places, Holds(q, p),
         pc' = [pc EXCEPT ![h] = p], req' = [req EXCEPT ![h] = q]
  PROVE  IInv'
<1>1. FilesInv'
  BY FilesKept DEF store
<1>2. /\ files' \in [Dirs -> [Stamps -> Content]] /\ heard' \in Nat
      /\ shown' \in [Names -> Nat] /\ saved' \in [Names -> Nat]
  BY DEF IInv, Types, store
<1> QED
  BY <1>1, <1>2, Moved

LEMMA HighestTypes ==
  ASSUME NEW of \in [Names -> Nat], NEW name \in Names, NEW n \in Nat
  PROVE  Highest(of, name, n) \in [Names -> Nat]
BY DEF Highest

(* What a request at a place has, in the terms of this module.             *)
LEMMA LocalTypes ==
  ASSUME IInv, NEW h \in Handlers
  PROVE  /\ req[h] \in Locals /\ Holds(req[h], pc[h]) /\ NoRequest \in Locals
         /\ req[h].name \in Names /\ Dir(h) \in Dirs
         /\ req[h].got \in Snapshot /\ req[h].result \in Snapshot
         /\ req[h].got.version \in 0..MaxVersion /\ req[h].result.version \in 0..MaxVersion
         /\ now \in Nat /\ version \in Nat /\ MaxTime \in Nat /\ MaxVersion \in Nat
         /\ setting.latency \in Nat /\ setting.maxAge \in Nat
<1>1. setting \in Settings
  BY DEF IInv, Types
<1>2. req[h] \in Locals /\ Holds(req[h], pc[h])
  BY DEF IInv, Types
<1>3. req[h].name \in Names /\ req[h].got \in Snapshot /\ req[h].result \in Snapshot
  BY <1>2 DEF Locals
<1>4. req[h].got.version \in 0..MaxVersion /\ req[h].result.version \in 0..MaxVersion
  BY <1>3 DEF Snapshot
<1>5. now \in Nat /\ version \in Nat
  BY <1>1, SettingTypes DEF IInv, Types
<1>6. Dir(h) \in Dirs
  BY <1>3 DEF Dir, Dirs
<1> QED
  BY <1>1, <1>2, <1>3, <1>4, <1>5, <1>6, SettingTypes

LEMMA ForgetKeeps ==
  ASSUME IInv, UNCHANGED world, FilesInv', NEW h \in Handlers, Forget(h),
         files' \in [Dirs -> [Stamps -> Content]], heard' \in Nat,
         shown' \in [Names -> Nat], saved' \in [Names -> Nat]
  PROVE  IInv'
<1>1. Holds(NoRequest, "idle") /\ NoRequest \in Locals /\ "idle" \in Places
  BY LocalTypes DEF Holds, NoRequest, Places
<1> QED
  BY <1>1, Moved DEF Forget, Goto

----------------------------------------------------------------------------
(* The steps of the world.                                                 *)
LEMMA WorldMoves ==
  ASSUME IInv, Forward, UNCHANGED <<files, pc, req>>, Types', EndedInv',
         \A h \in Handlers : pc[h] \in {"answered", "heard"} =>
           now' <= req[h].answered + setting.latency
  PROVE  IInv'
<1>1. UNCHANGED setting
  BY DEF Forward
<1>2. ASSUME NEW d \in Dirs, NEW s \in Stamps, Whole(files[d][s])
      PROVE  Sanitize(files[d][s].of) = d /\ Dated(files[d][s])'
  <2>1. files[d][s] \in Snapshot
    BY <1>2 DEF IInv, Types, Content, Whole
  <2>2. Sanitize(files[d][s].of) = d /\ Dated(files[d][s])
    BY <1>2 DEF IInv, FilesInv
  <2>3. \A snap \in Snapshot : Dated(snap) => Dated(snap)'
    BY DatedStays DEF IInv
  <2>4. files' = files
    OBVIOUS
  <2> QED
    BY <2>1, <2>2, <2>3, <2>4 DEF Dated
<1>3. FilesInv'
  BY <1>1, <1>2, SameFrames DEF FilesInv, Whole
<1>4. ASSUME NEW h \in Handlers PROVE Holds(req[h], pc[h])'
  <2>1. req[h] \in Locals /\ pc[h] \in Places /\ Holds(req[h], pc[h])
    BY DEF IInv, Types
  <2>2. req' = req /\ pc' = pc
    OBVIOUS
  <2>3. pc[h] \in {"answered", "heard"} => now' <= req[h].answered + setting.latency
    OBVIOUS
  <2>4. \A q \in Locals, p \in Places :
          Holds(q, p) /\ (p \in {"answered", "heard"} => now' <= q.answered + setting.latency)
            => Holds(q, p)'
    BY HoldsStays DEF IInv
  <2> QED
    BY <2>1, <2>2, <2>3, <2>4 DEF Holds, Dated
<1> QED
  BY <1>3, <1>4 DEF IInv

LEMMA PlayKeeps == IInv /\ Play => IInv'
<1> SUFFICES ASSUME IInv, Play PROVE IInv'
  OBVIOUS
<1>1. /\ MaxVersion \in Nat /\ MaxTime \in Nat /\ now \in 0..MaxTime
      /\ version \in 0..MaxVersion /\ version < MaxVersion /\ version' = version + 1
      /\ ended \in [0..MaxVersion -> Nat] /\ ended' = [ended EXCEPT ![version] = now]
      /\ UNCHANGED <<setting, now, store, pc, req>>
  BY SettingTypes DEF IInv, Types, Play
<1>2. Forward
  BY <1>1 DEF Forward
<1>3. Types'
  <2>1. version' \in 0..MaxVersion /\ ended' \in [0..MaxVersion -> Nat]
    BY <1>1
  <2> QED
    BY <1>1, <2>1, SameFrames DEF IInv, Types, store
<1>4. EndedInv'
  BY <1>1, SameFrames DEF IInv, EndedInv
<1>5. \A h \in Handlers : pc[h] \in {"answered", "heard"} =>
        now' <= req[h].answered + setting.latency
  BY <1>1 DEF IInv, Holds
<1> QED
  BY <1>1, <1>2, <1>3, <1>4, <1>5, WorldMoves DEF store

LEMMA TickKeeps == IInv /\ Tick => IInv'
<1> SUFFICES ASSUME IInv, Tick PROVE IInv'
  OBVIOUS
<1>1. /\ MaxVersion \in Nat /\ MaxTime \in Nat /\ now \in 0..MaxTime /\ now < MaxTime
      /\ version \in 0..MaxVersion /\ now' = now + 1
      /\ UNCHANGED <<setting, version, ended, store, pc, req>>
  BY SettingTypes DEF IInv, Types, Tick
<1>2. Forward
  BY <1>1 DEF Forward
<1>3. Types'
  <2>1. now' \in 0..MaxTime
    BY <1>1
  <2> QED
    BY <1>1, <2>1, SameFrames DEF IInv, Types, store
<1>4. EndedInv'
  BY <1>1, SameFrames DEF IInv, EndedInv
<1>5. \A h \in Handlers : pc[h] \in {"answered", "heard"} =>
        now' <= req[h].answered + setting.latency
  <2> SUFFICES ASSUME NEW h \in Handlers, pc[h] \in {"answered", "heard"}
               PROVE  now' <= req[h].answered + setting.latency
    OBVIOUS
  <2>1. now < req[h].answered + setting.latency
    BY DEF Tick
  <2>2. req[h].answered \in Nat /\ setting.latency \in Nat
    BY <1>1, LocalTypes DEF Locals
  <2> QED
    BY <1>1, <2>1, <2>2
<1> QED
  BY <1>1, <1>2, <1>3, <1>4, <1>5, WorldMoves DEF store

----------------------------------------------------------------------------
(* The steps of a request.                                                 *)
LEMMA ArriveKeeps == ASSUME NEW h \in Handlers PROVE IInv /\ Arrive(h) => IInv'
<1> SUFFICES ASSUME IInv, Arrive(h) PROVE IInv'
  OBVIOUS
<1>1. PICK o \in setting.ops, name \in Names :
        /\ req' = [req EXCEPT ![h] =
             IF o \in {"view", "use"}
             THEN [NoRequest EXCEPT !.op = o, !.name = name, !.at = now, !.shown = shown[name]]
             ELSE [NoRequest EXCEPT !.op = o, !.name = name, !.version = version,
                                    !.shown = shown[name]]]
        /\ pc' = [pc EXCEPT ![h] = FirstStep(o)]
  BY DEF Arrive, Goto
<1> DEFINE view == [NoRequest EXCEPT !.op = o, !.name = name, !.at = now, !.shown = shown[name]]
           fetch == [NoRequest EXCEPT !.op = o, !.name = name, !.version = version,
                                      !.shown = shown[name]]
<1>2. o \in Op
  BY SettingsAssumption DEF IInv, Types, Setting
<1>3. NoRequest \in Locals /\ shown[name] \in Nat /\ now \in 0..MaxTime
      /\ version \in 0..MaxVersion /\ now \in Nat /\ version \in Nat
  BY LocalTypes DEF IInv, Types
<1>4. CASE o \in {"view", "use"}
  <2>1. view \in Locals
    BY <1>2, <1>3 DEF Locals
  <2>2. Holds(view, "listing")
    BY <1>3, <1>4 DEF Holds, NoRequest
  <2>3. req' = [req EXCEPT ![h] = view] /\ pc' = [pc EXCEPT ![h] = "listing"]
    BY <1>1, <1>4 DEF FirstStep
  <2> QED
    BY <2>1, <2>2, <2>3, MovedOnly DEF Arrive, Places
<1>5. CASE o \notin {"view", "use"}
  <2>1. fetch \in Locals
    BY <1>2, <1>3 DEF Locals
  <2>2. Holds(fetch, "fetching")
    BY <1>3 DEF Holds, NoRequest
  <2>3. req' = [req EXCEPT ![h] = fetch] /\ pc' = [pc EXCEPT ![h] = "fetching"]
    BY <1>1, <1>5 DEF FirstStep
  <2> QED
    BY <2>1, <2>2, <2>3, MovedOnly DEF Arrive, Places
<1> QED
  BY <1>4, <1>5

LEMMA ListKeeps == ASSUME NEW h \in Handlers PROVE IInv /\ List(h) => IInv'
<1> SUFFICES ASSUME IInv, List(h) PROVE IInv'
  OBVIOUS
<1>1. req[h] \in Locals /\ Holds(req[h], "listing")
  BY LocalTypes DEF List
<1>2. CASE Present(Dir(h)) = {}
  <2>1. Holds(req[h], "fetching")
    BY <1>1 DEF Holds
  <2>2. pc' = [pc EXCEPT ![h] = "fetching"] /\ req' = [req EXCEPT ![h] = req[h]]
    BY <1>2 DEF List, Goto, IInv, Types
  <2> QED
    BY <1>1, <2>1, <2>2, MovedOnly DEF List, Places
<1>3. CASE Present(Dir(h)) # {}
  <2> DEFINE q == [req[h] EXCEPT !.picked = Newest(Present(Dir(h)))]
  <2>1. Newest(Present(Dir(h))) \in Stamps
    <3>1. MaxTime \div PerSecond \in Nat
      BY LocalTypes, SettingsAssumption
    <3> QED
      BY <1>3, <3>1, NewestExists DEF Present, Stamps
  <2>2. q \in Locals
    BY <1>1, <2>1 DEF Locals
  <2>3. Holds(q, "reading")
    BY <1>1 DEF Holds, Locals
  <2>4. pc' = [pc EXCEPT ![h] = "reading"] /\ req' = [req EXCEPT ![h] = q]
    BY <1>3 DEF List, Goto
  <2> QED
    BY <2>2, <2>3, <2>4, MovedOnly DEF List, Places
<1> QED
  BY <1>2, <1>3

(* A view's answer: the file is of its directory, and what is fresh enough *)
(* was current not long before.                                            *)
LEMMA ReadKeeps == ASSUME NEW h \in Handlers PROVE IInv /\ Read(h) => IInv'
<1> SUFFICES ASSUME IInv, Read(h) PROVE IInv'
  OBVIOUS
<1> DEFINE content == files[Dir(h)][req[h].picked]
<1>1. req[h] \in Locals /\ Holds(req[h], "reading")
  BY LocalTypes DEF Read
<1>2. 0 \in Stamps
  <2>1. MaxTime \div PerSecond \in Nat
    BY LocalTypes, SettingsAssumption
  <2> QED
    BY <2>1 DEF Stamps
<1>3. CASE Whole(content) /\ Fresh(req[h].op, content)
  <2> DEFINE q == [req[h] EXCEPT !.picked = 0, !.result = content]
  <2>1. Dir(h) \in Dirs /\ req[h].picked \in Stamps
    BY <1>1, LocalTypes DEF Locals
  <2>2. content \in Snapshot /\ Sanitize(content.of) = Sanitize(req[h].name) /\ Dated(content)
    BY <1>3, <2>1 DEF IInv, Types, FilesInv, Content, Whole, Dir
  <2>3. q \in Locals
    BY <1>1, <1>2, <2>2 DEF Locals
  <2>4. ASSUME req[h].op = "view", setting.maxAge > 0
        PROVE  req[h].at < ended[content.version] + setting.maxAge + setting.latency
    <3>1. now < content.at + setting.maxAge
      BY <1>3, <2>4 DEF Fresh
    <3>2. req[h].at <= now /\ content.at <= ended[content.version] + setting.latency
      BY <1>1, <2>2 DEF Holds, Dated
    <3>3. /\ now \in Nat /\ content.at \in 0..MaxTime /\ req[h].at \in 0..MaxTime
          /\ MaxTime \in Nat /\ setting.maxAge \in Nat /\ setting.latency \in Nat
          /\ ended[content.version] \in Nat
      BY <1>1, <2>2, LocalTypes DEF Locals, Snapshot, IInv, Types
    <3> QED
      BY <3>1, <3>2, <3>3
  <2>5. Holds(q, "returning")
    BY <1>1, <2>2, <2>4 DEF Holds, Locals
  <2>6. pc' = [pc EXCEPT ![h] = "returning"] /\ req' = [req EXCEPT ![h] = q]
    BY <1>3 DEF Read, Goto
  <2> QED
    BY <2>3, <2>5, <2>6, MovedOnly DEF Read, Places
<1>4. CASE ~(Whole(content) /\ Fresh(req[h].op, content))
  <2> DEFINE q == [req[h] EXCEPT !.picked = 0]
  <2>1. q \in Locals
    BY <1>1, <1>2 DEF Locals
  <2>2. Holds(q, "fetching")
    BY <1>1 DEF Holds, Locals
  <2>3. pc' = [pc EXCEPT ![h] = "fetching"] /\ req' = [req EXCEPT ![h] = q]
    BY <1>4 DEF Read, Goto
  <2> QED
    BY <2>1, <2>2, <2>3, MovedOnly DEF Read, Places
<1> QED
  BY <1>3, <1>4

LEMMA FetchKeeps == ASSUME NEW h \in Handlers PROVE IInv /\ Fetch(h) => IInv'
<1> SUFFICES ASSUME IInv, Fetch(h) PROVE IInv'
  OBVIOUS
<1> DEFINE q == [req[h] EXCEPT !.ready = Due(h)]
<1>1. req[h] \in Locals /\ Holds(req[h], "fetching")
  BY LocalTypes DEF Fetch
<1>2. Due(h) \in Nat
  BY LocalTypes, SettingsAssumption DEF Due, IInv, Types
<1>3. q \in Locals
  BY <1>1, <1>2 DEF Locals
<1>4. Holds(q, "waiting")
  BY <1>1 DEF Holds, Locals
<1> QED
  BY <1>3, <1>4, MovedOnly DEF Fetch, Goto, Places

(* The API's answer is the character as it is.                             *)
LEMMA AnswerKeeps == ASSUME NEW h \in Handlers PROVE IInv /\ Answer(h) => IInv'
<1> SUFFICES ASSUME IInv, Answer(h) PROVE IInv'
  OBVIOUS
<1> DEFINE snap == [NoSnapshot EXCEPT !.of = req[h].name, !.version = version]
           q == [req[h] EXCEPT !.ready = 0, !.answered = now, !.got = snap]
           p == IF Served(h) THEN "answered" ELSE "heard"
<1>1. req[h] \in Locals /\ Holds(req[h], "waiting") /\ req[h].name \in Names
  BY LocalTypes DEF Answer
<1>2. /\ now \in 0..MaxTime /\ version \in 0..MaxVersion
      /\ now \in Nat /\ version \in Nat /\ MaxTime \in Nat /\ setting.latency \in Nat
  BY LocalTypes DEF IInv, Types
<1>3. snap \in Snapshot /\ snap.of = req[h].name /\ snap.version = version
  <2>1. NoSnapshot \in Snapshot
    BY LocalTypes DEF NoRequest, Locals
  <2> QED
    BY <1>1, <1>2, <2>1 DEF Snapshot
<1>4. q \in Locals
  BY <1>1, <1>2, <1>3 DEF Locals
<1>5. ended[version] = MaxTime + 1
  BY <1>2 DEF IInv, EndedInv, Never
<1>6. q.got = snap /\ q.answered = now /\ q.version = req[h].version /\ q.at = req[h].at
      /\ q.name = req[h].name
  BY <1>1 DEF Locals
<1>7. req[h].version <= version /\ req[h].at <= now
  BY <1>1 DEF Holds
<1>8. now <= ended[version] /\ req[h].at <= ended[version]
  <2>1. req[h].at \in Nat
    BY <1>1, <1>2 DEF Locals
  <2> QED
    BY <1>2, <1>5, <1>7, <2>1
<1> HIDE DEF snap, q
<1>9. Holds(q, p) /\ p \in Places
  BY <1>2, <1>3, <1>6, <1>7, <1>8 DEF Holds, Places
<1> QED
  BY <1>4, <1>9, MovedOnly DEF Answer, Goto, snap, q

LEMMA HearKeeps == ASSUME NEW h \in Handlers PROVE IInv /\ Hear(h) => IInv'
<1> SUFFICES ASSUME IInv, Hear(h) PROVE IInv'
  OBVIOUS
<1>1. req[h] \in Locals /\ Holds(req[h], "answered")
  BY LocalTypes DEF Hear
<1>2. Holds(req[h], "heard") /\ "heard" \in Places
  BY <1>1 DEF Holds, Places
<1>3. /\ pc' = [pc EXCEPT ![h] = "heard"] /\ req' = [req EXCEPT ![h] = req[h]]
      /\ UNCHANGED world /\ UNCHANGED files
  BY DEF Hear, Goto, IInv, Types
<1>4. FilesInv'
  BY <1>3, FilesKept
<1>5. /\ files' \in [Dirs -> [Stamps -> Content]] /\ heard' \in Nat
      /\ shown' \in [Names -> Nat] /\ saved' \in [Names -> Nat]
  BY LocalTypes DEF Hear, IInv, Types
<1> QED
  BY <1>1, <1>2, <1>3, <1>4, <1>5, Moved

LEMMA UseKeeps == ASSUME NEW h \in Handlers PROVE IInv /\ Use(h) => IInv'
<1> SUFFICES ASSUME IInv, Use(h) PROVE IInv'
  OBVIOUS
<1> DEFINE q == [req[h] EXCEPT !.result = req[h].got, !.got = NoSnapshot, !.answered = 0]
<1>1. req[h] \in Locals /\ Holds(req[h], "heard") /\ req[h].op = "use"
      /\ req[h].got \in Snapshot
  BY LocalTypes DEF Use
<1>2. NoSnapshot \in Snapshot /\ 0 \in 0..MaxTime
  BY LocalTypes DEF NoRequest, Locals
<1>3. q \in Locals
  <2> DEFINE returned == [req[h] EXCEPT !.result = req[h].got, !.got = NoSnapshot]
  <2>1. returned \in Locals
    BY <1>1, <1>2 DEF Locals
  <2>2. q = [returned EXCEPT !.answered = 0]
    OBVIOUS
  <2> HIDE DEF q, returned
  <2> QED
    BY <1>2, <2>1, <2>2 DEF Locals
<1>4. Holds(q, "returning")
  BY <1>1 DEF Holds, Locals
<1>5. req' = [req EXCEPT ![h] = q] /\ pc' = [pc EXCEPT ![h] = "returning"]
  BY DEF Use, Goto, IInv, Types
<1> QED
  BY <1>3, <1>4, <1>5, MovedOnly DEF Use, Places

(* The stamp is set within the latency of a response.                      *)
LEMMA CaptureKeeps == ASSUME NEW h \in Handlers PROVE IInv /\ Capture(h) => IInv'
<1> SUFFICES ASSUME IInv, Capture(h) PROVE IInv'
  OBVIOUS
<1> DEFINE snap == [req[h].got EXCEPT !.at = now]
           q == [req[h] EXCEPT !.got.at = now, !.answered = 0]
<1>1. /\ req[h] \in Locals /\ Holds(req[h], "heard") /\ req[h].got \in Snapshot
      /\ req[h].got.version \in 0..MaxVersion
  BY LocalTypes DEF Capture
<1>2. /\ now \in 0..MaxTime /\ now \in Nat /\ MaxTime \in Nat /\ setting.latency \in Nat
      /\ ended[req[h].got.version] \in Nat
  BY <1>1, LocalTypes DEF IInv, Types
<1>3. snap \in Snapshot /\ snap.at = now /\ snap.of = req[h].got.of
      /\ snap.version = req[h].got.version
  BY <1>1, <1>2 DEF Snapshot
<1>4. q = [req[h] EXCEPT !.got = snap, !.answered = 0]
  BY <1>1 DEF Locals
<1>5. q \in Locals
  <2>1. 0 \in 0..MaxTime
    BY <1>2
  <2> HIDE DEF q, snap
  <2> QED
    BY <1>1, <1>3, <1>4, <2>1 DEF Locals
<1>6. Dated(snap)
  <2>1. req[h].answered \in Nat
    BY <1>1, <1>2 DEF Locals
  <2>2. now <= ended[req[h].got.version] + setting.latency
    BY <1>1, <1>2, <2>1 DEF Holds
  <2> QED
    BY <1>1, <1>2, <1>3, <2>2 DEF Dated, Holds
<1>7. q.got = snap /\ q.version = req[h].version /\ q.at = req[h].at
      /\ q.name = req[h].name /\ q.op = req[h].op
  BY <1>1, <1>4 DEF Locals
<1>8. req' = [req EXCEPT ![h] = q] /\ pc' = [pc EXCEPT ![h] = "captured"]
  BY DEF Capture, Goto, IInv, Types
<1> HIDE DEF snap, q
<1>9. Holds(q, "captured")
  BY <1>1, <1>3, <1>6, <1>7 DEF Holds
<1> QED
  BY <1>5, <1>8, <1>9, MovedOnly DEF Capture, Places

(* A directory takes what is of its character.                             *)
LEMMA Stored ==
  ASSUME IInv, UNCHANGED world, NEW h \in Handlers, NEW c \in Content,
         Whole(c) => Sanitize(c.of) = Dir(h) /\ Dated(c),
         files' = [files EXCEPT ![Dir(h)][Target(h)] = c]
  PROVE  FilesInv' /\ files' \in [Dirs -> [Stamps -> Content]]
<1>1. files \in [Dirs -> [Stamps -> Content]] /\ FilesInv
  BY DEF IInv, Types
<1>2. files' \in [Dirs -> [Stamps -> Content]]
  BY <1>1
<1>3. ASSUME NEW d \in Dirs, NEW s \in Stamps
      PROVE  files'[d][s] = files[d][s] \/ (d = Dir(h) /\ files'[d][s] = c)
  BY <1>1
<1>4. ASSUME NEW d \in Dirs, NEW s \in Stamps, Whole(files'[d][s])
      PROVE  Sanitize(files'[d][s].of) = d /\ Dated(files'[d][s])
  <2>1. CASE files'[d][s] = files[d][s]
    BY <1>1, <1>4, <2>1 DEF FilesInv
  <2>2. CASE d = Dir(h) /\ files'[d][s] = c
    BY <1>4, <2>2
  <2> QED
    BY <1>3, <2>1, <2>2
<1>5. FilesInv'
  BY <1>4, SameFrames DEF FilesInv, Dated, Whole, world
<1> QED
  BY <1>2, <1>5

LEMMA OpenKeeps == ASSUME NEW h \in Handlers PROVE IInv /\ Open(h) => IInv'
<1> SUFFICES ASSUME IInv, Open(h) PROVE IInv'
  OBVIOUS
<1>1. req[h] \in Locals /\ Holds(req[h], "captured")
  BY LocalTypes DEF Open
<1>2. Holds(req[h], "writing") /\ "writing" \in Places
  BY <1>1 DEF Holds, Places
<1>3. /\ pc' = [pc EXCEPT ![h] = "writing"] /\ req' = [req EXCEPT ![h] = req[h]]
      /\ UNCHANGED world
  BY DEF Open, Goto, IInv, Types
<1>4. FilesInv' /\ files' \in [Dirs -> [Stamps -> Content]]
  <2>1. Empty \in Content /\ ~Whole(Empty)
    BY DEF Content, Whole
  <2> QED
    BY <1>3, <2>1, Stored DEF Open
<1>5. heard' \in Nat /\ shown' \in [Names -> Nat] /\ saved' \in [Names -> Nat]
  BY DEF Open, IInv, Types
<1> QED
  BY <1>1, <1>2, <1>3, <1>4, <1>5, Moved

(* What was written is what is returned; another writer of the same file   *)
(* can tear it.                                                            *)
LEMMA WriteKeeps == ASSUME NEW h \in Handlers PROVE IInv /\ Write(h) => IInv'
<1> SUFFICES ASSUME IInv, Write(h) PROVE IInv'
  OBVIOUS
<1> DEFINE snap == req[h].got
           q == [req[h] EXCEPT !.result = snap]
<1>1. /\ req[h] \in Locals /\ Holds(req[h], "writing") /\ snap \in Snapshot
      /\ req[h].name \in Names
  BY LocalTypes DEF Write
<1>2. q \in Locals
  BY <1>1 DEF Locals
<1>3. Dated(snap) /\ snap.of = req[h].name /\ req[h].version <= snap.version
      /\ req[h].at <= ended[snap.version]
  BY <1>1 DEF Holds
<1>4. setting.maxAge > 0 =>
        req[h].at < ended[snap.version] + setting.maxAge + setting.latency
  <2>1. /\ ended[snap.version] \in Nat /\ req[h].at \in Nat
        /\ setting.maxAge \in Nat /\ setting.latency \in Nat
    <3>1. snap.version \in 0..MaxVersion /\ MaxTime \in Nat
          /\ setting.maxAge \in Nat /\ setting.latency \in Nat
      BY LocalTypes
    <3>2. ended[snap.version] \in Nat
      BY <3>1 DEF IInv, Types
    <3>3. req[h].at \in Nat
      BY <1>1, <3>1 DEF Locals
    <3> QED
      BY <3>1, <3>2, <3>3
  <2> QED
    BY <1>3, <2>1
<1>5. Holds(q, "returning")
  <2>1. q.result = snap /\ q.version = req[h].version /\ q.at = req[h].at
        /\ q.name = req[h].name /\ q.op = req[h].op
    BY <1>1 DEF Locals
  <2>2. req[h].version <= version /\ req[h].at <= now
    BY <1>1 DEF Holds
  <2> HIDE DEF q, snap
  <2> QED
    BY <1>3, <1>4, <2>1, <2>2 DEF Holds
<1>6. UNCHANGED world /\ heard' \in Nat /\ shown' \in [Names -> Nat]
  BY DEF Write, IInv, Types
<1>7. FilesInv' /\ files' \in [Dirs -> [Stamps -> Content]]
  <2>1. PICK c \in Written(files[Dir(h)][Target(h)], snap) :
          files' = [files EXCEPT ![Dir(h)][Target(h)] = c]
    BY DEF Write
  <2>2. c = snap \/ c = Torn
    BY DEF Written
  <2>3. c \in Content /\ (Whole(c) => Sanitize(c.of) = Dir(h) /\ Dated(c))
    BY <1>1, <1>3, <2>2 DEF Content, Whole, Dir
  <2> QED
    BY <1>6, <2>1, <2>3, Stored
<1>8. saved' \in [Names -> Nat]
  <2>1. snap.version \in Nat
    BY LocalTypes
  <2> QED
    BY <1>1, <2>1, HighestTypes DEF Write, IInv, Types
<1>9. pc' = [pc EXCEPT ![h] = "returning"] /\ req' = [req EXCEPT ![h] = q]
  BY DEF Write, Goto
<1> HIDE DEF q
<1> QED
  BY <1>2, <1>5, <1>6, <1>7, <1>8, <1>9, Moved DEF Places

LEMMA FailKeeps == ASSUME NEW h \in Handlers PROVE IInv /\ Fail(h) => IInv'
<1> SUFFICES ASSUME IInv, Fail(h) PROVE IInv'
  OBVIOUS
<1>1. UNCHANGED <<world, heard, saved, shown>> /\ Forget(h)
  BY DEF Fail
<1>2. FilesInv' /\ files' \in [Dirs -> [Stamps -> Content]]
  <2>1. CASE UNCHANGED files
    BY <1>1, <2>1, FilesKept DEF IInv, Types
  <2>2. CASE files' = [files EXCEPT ![Dir(h)][Target(h)] = Torn]
    <3>1. Torn \in Content /\ ~Whole(Torn)
      BY DEF Content, Whole
    <3> QED
      BY <1>1, <2>2, <3>1, Stored
  <2> QED
    BY <2>1, <2>2 DEF Fail
<1>3. heard' \in Nat /\ shown' \in [Names -> Nat] /\ saved' \in [Names -> Nat]
  BY <1>1 DEF IInv, Types
<1> QED
  BY <1>1, <1>2, <1>3, ForgetKeeps

LEMMA RespondKeeps == ASSUME NEW h \in Handlers PROVE IInv /\ Respond(h) => IInv'
<1> SUFFICES ASSUME IInv, Respond(h) PROVE IInv'
  OBVIOUS
<1>1. UNCHANGED <<world, files, heard, saved>> /\ Forget(h)
  BY DEF Respond
<1>2. FilesInv' /\ files' \in [Dirs -> [Stamps -> Content]]
  BY <1>1, FilesKept DEF IInv, Types
<1>3. shown' \in [Names -> Nat]
  <2>1. req[h].name \in Names /\ req[h].result.version \in Nat
    BY LocalTypes
  <2> QED
    BY <2>1, HighestTypes DEF Respond, IInv, Types
<1>4. heard' \in Nat /\ saved' \in [Names -> Nat]
  BY <1>1 DEF IInv, Types
<1> QED
  BY <1>1, <1>2, <1>3, <1>4, ForgetKeeps

LEMMA RestartKeeps == IInv /\ Restart => IInv'
<1> SUFFICES ASSUME IInv, Restart PROVE IInv'
  OBVIOUS
<1>1. UNCHANGED <<world, saved, shown>> /\ heard' = Never
  BY DEF Restart
<1>2. PICK cut \in SUBSET Handlers :
        files' = [d \in Dirs |-> [s \in Stamps |->
          IF \E h \in cut : Dir(h) = d /\ Target(h) = s THEN Torn ELSE files[d][s]]]
  BY DEF Restart, Interrupted
<1>3. files' \in [Dirs -> [Stamps -> Content]]
  <2>1. Torn \in Content /\ files \in [Dirs -> [Stamps -> Content]]
    BY DEF Content, IInv, Types
  <2> QED
    BY <1>2, <2>1
<1>4. FilesInv'
  <2> SUFFICES ASSUME NEW d \in Dirs, NEW s \in Stamps, Whole(files'[d][s])
               PROVE  Sanitize(files'[d][s].of) = d /\ Dated(files'[d][s])
    BY <1>1, SameFrames DEF FilesInv, Dated, Whole, world
  <2>1. files'[d][s] = files[d][s]
    BY <1>2 DEF Whole
  <2> QED
    BY <2>1 DEF IInv, FilesInv
<1>5. Never \in Nat /\ NoRequest \in Locals
  BY SettingTypes DEF IInv, Types, Never
<1>6. /\ pc' = [h \in Handlers |-> IF h \in Interrupted THEN "idle" ELSE pc[h]]
      /\ req' = [h \in Handlers |-> IF h \in Interrupted THEN NoRequest ELSE req[h]]
  BY DEF Restart
<1>7. Types'
  <2>1. pc' \in [Handlers -> Places]
    BY <1>6 DEF IInv, Types, Places
  <2>2. req' \in [Handlers -> Locals]
    BY <1>5, <1>6 DEF IInv, Types
  <2> QED
    BY <1>1, <1>3, <1>5, <2>1, <2>2, SameFrames DEF IInv, Types, world
<1>8. EndedInv'
  BY <1>1, SameFrames DEF IInv, EndedInv, world
<1>9. ASSUME NEW h \in Handlers PROVE Holds(req[h], pc[h])'
  <2>1. CASE h \in Interrupted
    <3>1. Holds(NoRequest, "idle")
      BY LocalTypes DEF Holds, NoRequest
    <3>2. req'[h] = NoRequest /\ pc'[h] = "idle"
      BY <1>6, <2>1
    <3> QED
      BY <1>1, <3>1, <3>2 DEF Holds, Dated, world
  <2>2. CASE h \notin Interrupted
    <3>1. req'[h] = req[h] /\ pc'[h] = pc[h] /\ Holds(req[h], pc[h])
      BY <1>6, <2>2 DEF IInv
    <3> QED
      BY <1>1, <3>1 DEF Holds, Dated, world
  <2> QED
    BY <2>1, <2>2
<1> QED
  BY <1>4, <1>7, <1>8, <1>9 DEF IInv

----------------------------------------------------------------------------
LEMMA Preserved == IInv /\ [Next]_vars => IInv'
<1> SUFFICES ASSUME IInv, [Next]_vars PROVE IInv'
  OBVIOUS
<1>1. CASE Play
  BY <1>1, PlayKeeps
<1>2. CASE Tick
  BY <1>2, TickKeeps
<1>3. CASE Restart
  BY <1>3, RestartKeeps
<1>4. ASSUME NEW h \in Handlers,
             \/ Arrive(h) \/ List(h) \/ Read(h)
             \/ Fetch(h) \/ Answer(h) \/ Hear(h) \/ Use(h) \/ Capture(h)
             \/ Open(h) \/ Write(h) \/ Fail(h) \/ Respond(h)
      PROVE  IInv'
  BY <1>4, ArriveKeeps, ListKeeps, ReadKeeps, FetchKeeps, AnswerKeeps, HearKeeps, UseKeeps,
     CaptureKeeps, OpenKeeps, WriteKeeps, FailKeeps, RespondKeeps
<1>5. CASE UNCHANGED vars
  <2>1. Types' /\ EndedInv'
    BY <1>5, SameFrames DEF IInv, Types, EndedInv, vars, world, store
  <2>2. FilesInv'
    BY <1>5, FilesKept DEF vars, world, store
  <2>3. \A h \in Handlers : Holds(req[h], pc[h])'
    BY <1>5 DEF IInv, Holds, Dated, vars, world
  <2> QED
    BY <2>1, <2>2, <2>3 DEF IInv
<1> QED
  BY <1>1, <1>2, <1>3, <1>4, <1>5 DEF Next

LEMMA Invariance == Spec => []IInv
<1>1. Init => IInv
  BY Initially
<1>2. IInv /\ [Next]_vars => IInv'
  BY Preserved
<1> QED
  BY <1>1, <1>2, PTL DEF Spec

(* However many handlers and commands overlap, and whatever fails: what a  *)
(* refresh or "char get" returns is not older than its request             *)
(* (fetchAndStore, server.go:160-172 and main.go:187-206).                 *)
THEOREM RefreshesShowNow == Spec => []RefreshShowsNow
<1>1. IInv => RefreshShowsNow
  <2> SUFFICES ASSUME IInv, NEW h \in Handlers,
                      pc[h] = "returning", req[h].op \in {"refresh", "get"}
               PROVE  req[h].result.version >= req[h].version
    BY DEF RefreshShowsNow
  <2>1. Holds(req[h], pc[h]) /\ req[h].result.version \in Nat /\ req[h].version \in Nat
    BY LocalTypes DEF Locals
  <2> QED
    BY <2>1 DEF Holds
<1> QED
  BY <1>1, Invariance, PTL

(* However many handlers overlap, and whatever fails: a view is at most    *)
(* MaxAge and the latency of a response out of date (latestOrFetch,        *)
(* server.go:150-158).                                                     *)
THEOREM StalenessBounded == Spec => []BoundedStaleness
<1>1. IInv => BoundedStaleness
  <2> SUFFICES ASSUME IInv, NEW h \in Handlers,
                      pc[h] = "returning", req[h].op = "view", setting.maxAge > 0
               PROVE  ended[req[h].result.version] + setting.maxAge + setting.latency > req[h].at
    BY DEF BoundedStaleness
  <2>1. req[h].at < ended[req[h].result.version] + setting.maxAge + setting.latency
    BY LocalTypes DEF Holds
  <2>2. /\ ended[req[h].result.version] \in Nat /\ req[h].at \in Nat
        /\ setting.maxAge \in Nat /\ setting.latency \in Nat
    <3>1. req[h].result.version \in 0..MaxVersion /\ MaxTime \in Nat /\ req[h] \in Locals
          /\ setting.maxAge \in Nat /\ setting.latency \in Nat
      BY LocalTypes
    <3>2. ended[req[h].result.version] \in Nat
      BY <3>1 DEF IInv, Types
    <3>3. req[h].at \in Nat
      BY <3>1 DEF Locals
    <3> QED
      BY <3>1, <3>2, <3>3
  <2> QED
    BY <2>1, <2>2
<1> QED
  BY <1>1, Invariance, PTL

(* Names with the same directory are alike.                                *)
LEMMA SameDirectory ==
  ASSUME NEW a \in Seq(STRING), NEW b \in Seq(STRING), Sanitize(a) = Sanitize(b)
  PROVE  Alike(a, b)
<1>1. DOMAIN a = 1..Len(a) /\ DOMAIN b = 1..Len(b) /\ Len(a) \in Nat /\ Len(b) \in Nat
  OBVIOUS
<1>2. DOMAIN Sanitize(a) = DOMAIN a /\ DOMAIN Sanitize(b) = DOMAIN b
  BY DEF Sanitize
<1>3. DOMAIN a = DOMAIN b
  BY <1>2
<1>4. Len(a) = Len(b)
  <2>1. \A m, n \in Nat : 1..m = 1..n => m <= n
    <3> SUFFICES ASSUME NEW m \in Nat, NEW n \in Nat, 1..m = 1..n PROVE m <= n
      OBVIOUS
    <3>1. m = 0 \/ m \in 1..m
      OBVIOUS
    <3> QED
      BY <3>1
  <2>2. \A m, n \in Nat : 1..m = 1..n => m = n
    BY <2>1
  <2>3. 1..Len(a) = 1..Len(b) /\ Len(a) \in Nat /\ Len(b) \in Nat
    BY <1>1, <1>3
  <2> QED
    BY <2>2, <2>3, Zenon
<1>5. ASSUME NEW i \in DOMAIN a, Certain(a[i]) \/ Certain(b[i]) PROVE a[i] = b[i]
  <2>1. Sanitize(a)[i] = IF a[i] \in Plain THEN a[i] ELSE "_"
    BY DEF Sanitize
  <2>2. Sanitize(b)[i] = IF b[i] \in Plain THEN b[i] ELSE "_"
    BY <1>3 DEF Sanitize
  <2> QED
    BY <1>5, <2>1, <2>2 DEF Certain
<1> QED
  BY <1>4, <1>5 DEF Alike

(* For any characters, handlers and commands: what is returned is of the   *)
(* character asked for, or of one whose name has the same directory        *)
(* (store.go:28 and 42-44; latestOrFetch, main.go:373-376).                *)
THEOREM ReturnsOwnCharacter == Spec => []OwnCharacter
<1>1. IInv => OwnCharacter
  <2> SUFFICES ASSUME IInv, NEW h \in Handlers, pc[h] = "returning"
               PROVE  Alike(req[h].name, req[h].result.of)
    BY DEF OwnCharacter
  <2>1. Sanitize(req[h].name) = Sanitize(req[h].result.of)
    BY LocalTypes DEF Holds
  <2>2. Names \subseteq Seq(STRING)
    BY SettingTypes DEF IInv, Types
  <2>3. req[h].name \in Seq(STRING) /\ req[h].result.of \in Seq(STRING)
    BY <2>2, LocalTypes DEF Snapshot
  <2> QED
    BY <2>1, <2>3, SameDirectory
<1> QED
  BY <1>1, Invariance, PTL

----------------------------------------------------------------------------
(* One request or command at a time, with failing saves, kills and         *)
(* restarts at any moment: nothing older is shown than was shown before,   *)
(* and the latest file is the newest one saved.                            *)

(* Nothing in the histories or on the disk is of the future.               *)
PastInv ==
  /\ \A name \in Names : saved[name] <= version /\ shown[name] <= version
  /\ \A h \in Handlers : pc[h] = "returning" => req[h].result.version <= version
  /\ \A d \in Dirs : \A s \in Present(d) : s <= Stamp(now)

Latest(dir) == files[dir][Newest(Present(dir))]
Readable(dir) == Present(dir) # {} /\ Whole(Latest(dir))

(* What can be read is at least as new as what was saved or shown.         *)
LatestInv ==
  \A name \in Names : Readable(Sanitize(name)) =>
    /\ saved[name] <= Latest(Sanitize(name)).version
    /\ shown[name] <= Latest(Sanitize(name)).version

(* What a request with locals q at a place p has if no other is under way. *)
Ordered(q, p) ==
  LET dir == Sanitize(q.name) IN
  /\ p # "idle" => q.shown = shown[q.name]
  /\ p = "reading" => Present(dir) # {} /\ q.picked = Newest(Present(dir))
  /\ p \in {"fetching", "waiting", "answered", "heard"} /\ q.op = "use" => ~Readable(dir)
  /\ p \in {"answered", "heard", "captured", "writing"} =>
       \A name \in Names : saved[name] <= q.got.version /\ shown[name] <= q.got.version
  /\ p \in {"captured", "writing"} => \A s \in Present(dir) : s <= Stamp(q.got.at)
  /\ p = "writing" =>
       Stamp(q.got.at) \in Present(dir) /\ ~Whole(files[dir][Stamp(q.got.at)])
  /\ p = "returning" =>
       /\ shown[q.name] <= q.result.version
       /\ Readable(dir) => q.result.version <= Latest(dir).version

Alone(h) == \A k \in Handlers \ {h} : pc[k] = "idle"

SerialInv ==
  /\ \A h \in Handlers : pc[h] # "idle" => Alone(h)
  /\ LatestInv
  /\ \A h \in Handlers : Ordered(req[h], pc[h])

OInv == IInv /\ PastInv /\ (setting.atOnce = 1 => SerialInv)

----------------------------------------------------------------------------
(* Stamps do not run ahead of one another.                                 *)
LEMMA StampGrows ==
  ASSUME NEW t \in Nat, NEW u \in Nat, t <= u
  PROVE  Stamp(t) \in Nat /\ Stamp(t) <= Stamp(u)
<1>1. PerSecond \in Nat \ {0}
  BY SettingsAssumption
<1> QED
  BY <1>1 DEF Stamp

LEMMA StampsOfTime ==
  ASSUME IInv, NEW t \in 0..MaxTime
  PROVE  Stamp(t) \in Stamps /\ Stamp(now) \in Nat
<1>1. MaxTime \in Nat /\ now \in Nat
  BY SettingTypes DEF IInv, Types
<1>2. Stamp(t) \in Nat /\ Stamp(t) <= Stamp(MaxTime) /\ Stamp(now) \in Nat /\ Stamp(MaxTime) \in Nat
  BY <1>1, StampGrows
<1> QED
  BY <1>2 DEF Stamp, Stamps

LEMMA NewestIs ==
  ASSUME NEW S \in SUBSET Nat, NEW t \in S, \A s \in S : s <= t
  PROVE  Newest(S) = t
<1> DEFINE n == Newest(S)
<1>1. n \in S /\ \A s \in S : s <= n
  BY DEF Newest
<1>2. n <= t /\ t <= n /\ n \in Nat /\ t \in Nat
  BY <1>1
<1>3. n = t
  <2> HIDE DEF n
  <2> QED
    BY <1>2
<1> QED
  BY <1>3

LEMMA PresentStamps ==
  ASSUME IInv, NEW d
  PROVE  Present(d) \subseteq Stamps /\ Present(d) \subseteq Nat
BY SettingTypes DEF Present, IInv, Types

(* What a file put at the end of a directory does.                         *)
LEMMA PutLast ==
  ASSUME IInv, UNCHANGED setting, NEW dir \in Dirs, NEW t \in Stamps, NEW c, c # Absent,
         \A s \in Present(dir) : s <= t,
         files' = [files EXCEPT ![dir][t] = c]
  PROVE  /\ Present(dir)' = Present(dir) \cup {t} /\ Latest(dir)' = c
         /\ files'[dir][t] = c
         /\ \A d \in Dirs : d # dir => Present(d)' = Present(d) /\ files'[d] = files[d]
<1>1. files \in [Dirs -> [Stamps -> Content]] /\ t \in Nat
  BY SettingTypes DEF IInv, Types
<1>2. files'[dir] = [files[dir] EXCEPT ![t] = c]
      /\ \A d \in Dirs : d # dir => files'[d] = files[d]
  BY <1>1
<1>3. files'[dir][t] = c /\ \A s \in Stamps : s # t => files'[dir][s] = files[dir][s]
  BY <1>1, <1>2
<1>4. {s \in Stamps : files'[dir][s] # Absent} = Present(dir) \cup {t}
  BY <1>3 DEF Present
<1>5. Newest(Present(dir) \cup {t}) = t
  BY <1>1, PresentStamps, NewestIs
<1>6. Present(dir)' = Present(dir) \cup {t}
  BY <1>4, SameFrames DEF Present
<1>7. Latest(dir)' = c
  BY <1>3, <1>5, <1>6 DEF Latest
<1>8. \A d \in Dirs : d # dir => Present(d)' = Present(d)
  BY <1>2, SameFrames DEF Present
<1> QED
  BY <1>2, <1>3, <1>6, <1>7, <1>8

LEMMA OrderInitially == Init => OInv
<1> SUFFICES ASSUME Init PROVE OInv
  OBVIOUS
<1>1. IInv
  BY Initially
<1>2. \A d \in Dirs : Present(d) = {}
  BY DEF Init, Present
<1>3. PastInv
  BY <1>2 DEF Init, PastInv
<1>4. LatestInv
  BY <1>2 DEF LatestInv, Readable, Dirs
<1>5. \A h \in Handlers : Ordered(req[h], pc[h])
  BY DEF Init, Ordered
<1> QED
  BY <1>1, <1>3, <1>4, <1>5 DEF OInv, SerialInv, Init

----------------------------------------------------------------------------
(* Steps of a request h that is alone: the others stay idle, so that only  *)
(* its own locals and what the directories hold are to be looked at.       *)
LEMMA SerialMoved ==
  ASSUME IInv, UNCHANGED setting, LatestInv', NEW h \in Handlers, Alone(h),
         NEW q, NEW p, Ordered(q, p)',
         pc' = [pc EXCEPT ![h] = p], req' = [req EXCEPT ![h] = q]
  PROVE  SerialInv'
<1>1. pc \in [Handlers -> Places] /\ req \in [Handlers -> Locals]
  BY DEF IInv, Types
<1>2. \A k \in Handlers : k # h => pc'[k] = "idle"
  BY <1>1 DEF Alone
<1>3. \A k \in Handlers : pc'[k] # "idle" => Alone(k)'
  BY <1>2 DEF Alone
<1>4. ASSUME NEW k \in Handlers PROVE Ordered(req[k], pc[k])'
  <2>1. CASE k = h
    <3>1. pc'[k] = p /\ req'[k] = q
      BY <1>1, <2>1
    <3> QED
      BY <3>1 DEF Ordered
  <2>2. CASE k # h
    <3>1. pc'[k] = "idle"
      BY <1>2, <2>2
    <3> QED
      BY <3>1 DEF Ordered
  <2> QED
    BY <2>1, <2>2
<1> QED
  BY <1>3, <1>4 DEF SerialInv

(* The same where neither the store nor the histories change.              *)
LEMMA SerialMovedOnly ==
  ASSUME IInv, UNCHANGED setting, UNCHANGED <<files, saved, shown>>, LatestInv,
         NEW h \in Handlers, Alone(h), NEW q, NEW p, Ordered(q, p),
         pc' = [pc EXCEPT ![h] = p], req' = [req EXCEPT ![h] = q]
  PROVE  SerialInv'
<1>1. Names' = Names /\ Stamps' = Stamps
  BY SameFrames
<1>2. \A d : Present(d)' = Present(d)
  BY <1>1 DEF Present
<1>3. LatestInv'
  BY <1>1, <1>2 DEF LatestInv, Readable, Latest
<1>4. Ordered(q, p)'
  BY <1>1, <1>2 DEF Ordered, Readable, Latest
<1> QED
  BY <1>3, <1>4, SerialMoved

(* What was saved or shown is of the past, whoever else is under way.      *)
LEMMA PastKept ==
  ASSUME IInv, PastInv, UNCHANGED world, UNCHANGED <<files, saved, shown>>,
         NEW h \in Handlers, NEW q, NEW p,
         pc' = [pc EXCEPT ![h] = p], req' = [req EXCEPT ![h] = q],
         p = "returning" => q.result.version <= version
  PROVE  PastInv'
<1>1. Names' = Names /\ Stamps' = Stamps /\ Dirs' = Dirs
  BY SameFrames DEF world
<1>2. \A d : Present(d)' = Present(d)
  BY <1>1 DEF Present
<1>3. ASSUME NEW k \in Handlers, pc'[k] = "returning" PROVE req'[k].result.version <= version
  <2>1. pc \in [Handlers -> Places] /\ req \in [Handlers -> Locals]
    BY DEF IInv, Types
  <2>2. CASE k = h
    BY <1>3, <2>1, <2>2
  <2>3. CASE k # h
    BY <1>3, <2>1, <2>3 DEF PastInv
  <2> QED
    BY <2>2, <2>3
<1> QED
  BY <1>1, <1>2, <1>3 DEF PastInv, world

LEMMA QuietStep ==
  ASSUME OInv, IInv', UNCHANGED world, UNCHANGED <<files, saved, shown>>,
         NEW h \in Handlers, NEW q, NEW p,
         pc' = [pc EXCEPT ![h] = p], req' = [req EXCEPT ![h] = q],
         p = "returning" => q.result.version <= version,
         setting.atOnce = 1 => Alone(h) /\ Ordered(q, p)
  PROVE  OInv'
<1>1. PastInv'
  BY PastKept DEF OInv
<1>2. UNCHANGED setting
  BY DEF world
<1>3. setting.atOnce = 1 => SerialInv'
  BY <1>2, SerialMovedOnly DEF OInv, SerialInv
<1> QED
  BY <1>1, <1>2, <1>3 DEF OInv

(* Who is under way is alone, and has what Ordered says.                   *)
LEMMA SerialLocals ==
  ASSUME OInv, setting.atOnce = 1, NEW h \in Handlers, pc[h] # "idle"
  PROVE  Alone(h) /\ Ordered(req[h], pc[h]) /\ LatestInv
BY DEF OInv, SerialInv

----------------------------------------------------------------------------
(* The steps of a request.                                                 *)
LEMMA OrderArrive == ASSUME NEW h \in Handlers PROVE OInv /\ Arrive(h) => OInv'
<1> SUFFICES ASSUME OInv, Arrive(h) PROVE OInv'
  OBVIOUS
<1>1. IInv'
  BY ArriveKeeps DEF OInv
<1>2. PICK o \in setting.ops, name \in Names :
        /\ req' = [req EXCEPT ![h] =
             IF o \in {"view", "use"}
             THEN [NoRequest EXCEPT !.op = o, !.name = name, !.at = now, !.shown = shown[name]]
             ELSE [NoRequest EXCEPT !.op = o, !.name = name, !.version = version,
                                    !.shown = shown[name]]]
        /\ pc' = [pc EXCEPT ![h] = FirstStep(o)]
  BY DEF Arrive, Goto
<1> DEFINE q == IF o \in {"view", "use"}
                THEN [NoRequest EXCEPT !.op = o, !.name = name, !.at = now, !.shown = shown[name]]
                ELSE [NoRequest EXCEPT !.op = o, !.name = name, !.version = version,
                                       !.shown = shown[name]]
<1>3. q.op = o /\ q.name = name /\ q.shown = shown[name]
  BY DEF NoRequest
<1>4. FirstStep(o) \in {"listing", "fetching"} /\ (FirstStep(o) = "fetching" => o # "use")
  BY DEF FirstStep
<1>5. setting.atOnce = 1 => Alone(h)
  <2> SUFFICES ASSUME setting.atOnce = 1 PROVE Alone(h)
    OBVIOUS
  <2> DEFINE B == {g \in Handlers : pc[g] # "idle"}
  <2>1. IsFiniteSet(B)
    BY HandlersAssumption, FS_Subset
  <2>2. Cardinality(B) \in Nat /\ Cardinality(B) < 1
    BY <2>1, FS_CardinalityType DEF Arrive
  <2>3. Cardinality(B) = 0
    BY <2>2
  <2>4. B = {}
    BY <2>1, <2>3, FS_EmptySet
  <2> QED
    BY <2>4 DEF Alone
<1> HIDE DEF q
<1>6. Ordered(q, FirstStep(o))
  BY <1>3, <1>4 DEF Ordered
<1>7. req' = [req EXCEPT ![h] = q] /\ UNCHANGED world /\ UNCHANGED <<files, saved, shown>>
  BY <1>2 DEF Arrive, store, q
<1> QED
  BY <1>1, <1>2, <1>4, <1>5, <1>6, <1>7, QuietStep

LEMMA OrderList == ASSUME NEW h \in Handlers PROVE OInv /\ List(h) => OInv'
<1> SUFFICES ASSUME OInv, List(h) PROVE OInv'
  OBVIOUS
<1>1. IInv' /\ IInv /\ UNCHANGED world /\ UNCHANGED <<files, saved, shown>>
  BY ListKeeps DEF OInv, List, store
<1>2. req[h] \in Locals /\ (setting.atOnce = 1 => Alone(h) /\ Ordered(req[h], "listing"))
  BY SerialLocals, LocalTypes DEF OInv, List
<1>3. CASE Present(Dir(h)) = {}
  <2>1. setting.atOnce = 1 => Ordered(req[h], "fetching")
    BY <1>2, <1>3 DEF Ordered, Readable, Dir
  <2>2. pc' = [pc EXCEPT ![h] = "fetching"] /\ req' = [req EXCEPT ![h] = req[h]]
    BY <1>1, <1>3 DEF List, Goto, IInv, Types
  <2> QED
    BY <1>1, <1>2, <2>1, <2>2, QuietStep
<1>4. CASE Present(Dir(h)) # {}
  <2> DEFINE q == [req[h] EXCEPT !.picked = Newest(Present(Dir(h)))]
  <2>1. q.picked = Newest(Present(Dir(h))) /\ q.shown = req[h].shown /\ q.name = req[h].name
    BY <1>2 DEF Locals
  <2>2. pc' = [pc EXCEPT ![h] = "reading"] /\ req' = [req EXCEPT ![h] = q]
    BY <1>4 DEF List, Goto
  <2> HIDE DEF q
  <2>3. setting.atOnce = 1 => Ordered(q, "reading")
    BY <1>2, <1>4, <2>1 DEF Ordered, Dir
  <2> QED
    BY <1>1, <1>2, <2>2, <2>3, QuietStep
<1> QED
  BY <1>3, <1>4

(* What a command uses although it is old was the newest there is.         *)
LEMMA OrderRead == ASSUME NEW h \in Handlers PROVE OInv /\ Read(h) => OInv'
<1> SUFFICES ASSUME OInv, Read(h) PROVE OInv'
  OBVIOUS
<1> DEFINE content == files[Dir(h)][req[h].picked]
<1>1. IInv' /\ IInv /\ UNCHANGED world /\ UNCHANGED <<files, saved, shown>>
  BY ReadKeeps DEF OInv, Read, store
<1>2. /\ req[h] \in Locals /\ req[h].name \in Names
      /\ (setting.atOnce = 1 => Alone(h) /\ Ordered(req[h], "reading") /\ LatestInv)
  BY SerialLocals, LocalTypes DEF OInv, Read
<1>3. setting.atOnce = 1 => /\ Present(Dir(h)) # {} /\ content = Latest(Dir(h))
                            /\ req[h].shown = shown[req[h].name]
  BY <1>2 DEF Ordered, Dir, Latest
<1>4. CASE Whole(content) /\ Fresh(req[h].op, content)
  <2> DEFINE q == [req[h] EXCEPT !.picked = 0, !.result = content]
  <2>1. q.result = content /\ q.shown = req[h].shown /\ q.name = req[h].name
    BY <1>2 DEF Locals
  <2>2. pc' = [pc EXCEPT ![h] = "returning"] /\ req' = [req EXCEPT ![h] = q]
    BY <1>4 DEF Read, Goto
  <2>3. content.version <= version /\ content.version \in Nat
    <3>1. Dir(h) \in Dirs /\ req[h].picked \in Stamps /\ MaxVersion \in Nat
      BY <1>1, <1>2, LocalTypes DEF Locals
    <3>2. content \in Snapshot /\ Dated(content)
      BY <1>1, <1>4, <3>1 DEF IInv, Types, FilesInv, Content, Whole
    <3> QED
      BY <3>1, <3>2 DEF Dated, Snapshot
  <2> HIDE DEF q
  <2>4. setting.atOnce = 1 => Ordered(q, "returning")
    <3> SUFFICES ASSUME setting.atOnce = 1 PROVE Ordered(q, "returning")
      OBVIOUS
    <3>1. Readable(Dir(h))
      BY <1>3, <1>4 DEF Readable
    <3>2. shown[req[h].name] <= content.version
      BY <1>2, <1>3, <3>1 DEF LatestInv, Dir
    <3> QED
      BY <1>3, <2>1, <2>3, <3>2 DEF Ordered, Dir
  <2> QED
    BY <1>1, <1>2, <2>1, <2>2, <2>3, <2>4, QuietStep
<1>5. CASE ~(Whole(content) /\ Fresh(req[h].op, content))
  <2> DEFINE q == [req[h] EXCEPT !.picked = 0]
  <2>1. q.op = req[h].op /\ q.shown = req[h].shown /\ q.name = req[h].name
    BY <1>2 DEF Locals
  <2>2. pc' = [pc EXCEPT ![h] = "fetching"] /\ req' = [req EXCEPT ![h] = q]
    BY <1>5 DEF Read, Goto
  <2> HIDE DEF q
  <2>3. setting.atOnce = 1 => Ordered(q, "fetching")
    <3> SUFFICES ASSUME setting.atOnce = 1 PROVE Ordered(q, "fetching")
      OBVIOUS
    <3>1. req[h].op = "use" => ~Readable(Dir(h))
      BY <1>3, <1>5 DEF Readable, Fresh
    <3> QED
      BY <1>3, <2>1, <3>1 DEF Ordered, Dir
  <2> QED
    BY <1>1, <1>2, <2>2, <2>3, QuietStep
<1> QED
  BY <1>4, <1>5

LEMMA OrderFetch == ASSUME NEW h \in Handlers PROVE OInv /\ Fetch(h) => OInv'
<1> SUFFICES ASSUME OInv, Fetch(h) PROVE OInv'
  OBVIOUS
<1> DEFINE q == [req[h] EXCEPT !.ready = Due(h)]
<1>1. IInv' /\ UNCHANGED world /\ UNCHANGED <<files, saved, shown>>
  BY FetchKeeps DEF OInv, Fetch, store
<1>2. req[h] \in Locals /\ (setting.atOnce = 1 => Alone(h) /\ Ordered(req[h], "fetching"))
  BY SerialLocals, LocalTypes DEF OInv, Fetch
<1>3. q.op = req[h].op /\ q.shown = req[h].shown /\ q.name = req[h].name
  BY <1>2 DEF Locals
<1>4. pc' = [pc EXCEPT ![h] = "waiting"] /\ req' = [req EXCEPT ![h] = q]
  BY DEF Fetch, Goto
<1> HIDE DEF q
<1>5. setting.atOnce = 1 => Ordered(q, "waiting")
  BY <1>2, <1>3 DEF Ordered
<1> QED
  BY <1>1, <1>2, <1>4, <1>5, QuietStep

(* The character as it is, is at least as new as all that was kept.        *)
LEMMA OrderAnswer == ASSUME NEW h \in Handlers PROVE OInv /\ Answer(h) => OInv'
<1> SUFFICES ASSUME OInv, Answer(h) PROVE OInv'
  OBVIOUS
<1> DEFINE snap == [NoSnapshot EXCEPT !.of = req[h].name, !.version = version]
           q == [req[h] EXCEPT !.ready = 0, !.answered = now, !.got = snap]
           p == IF Served(h) THEN "answered" ELSE "heard"
<1>1. IInv' /\ UNCHANGED world /\ UNCHANGED <<files, saved, shown>>
  BY AnswerKeeps DEF OInv, Answer, store
<1>2. req[h] \in Locals /\ (setting.atOnce = 1 => Alone(h) /\ Ordered(req[h], "waiting"))
  BY SerialLocals, LocalTypes DEF OInv, Answer
<1>3. q.op = req[h].op /\ q.shown = req[h].shown /\ q.name = req[h].name
      /\ q.got.version = version
  BY <1>2 DEF Locals, NoSnapshot
<1>4. pc' = [pc EXCEPT ![h] = p] /\ req' = [req EXCEPT ![h] = q] /\ p \in {"answered", "heard"}
  BY DEF Answer, Goto
<1>5. \A name \in Names : saved[name] <= version /\ shown[name] <= version
  BY DEF OInv, PastInv
<1> HIDE DEF p, q
<1>6. setting.atOnce = 1 => Ordered(q, p)
  BY <1>2, <1>3, <1>4, <1>5 DEF Ordered
<1> QED
  BY <1>1, <1>2, <1>4, <1>6, QuietStep

LEMMA OrderHear == ASSUME NEW h \in Handlers PROVE OInv /\ Hear(h) => OInv'
<1> SUFFICES ASSUME OInv, Hear(h) PROVE OInv'
  OBVIOUS
<1>1. IInv' /\ UNCHANGED world /\ UNCHANGED <<files, saved, shown>>
  BY HearKeeps DEF OInv, Hear
<1>2. setting.atOnce = 1 => Alone(h) /\ Ordered(req[h], "answered")
  BY SerialLocals DEF Hear
<1>3. pc' = [pc EXCEPT ![h] = "heard"] /\ req' = [req EXCEPT ![h] = req[h]]
  BY DEF Hear, Goto, OInv, IInv, Types
<1>4. setting.atOnce = 1 => Ordered(req[h], "heard")
  BY <1>2 DEF Ordered
<1> QED
  BY <1>1, <1>2, <1>3, <1>4, QuietStep

LEMMA OrderUse == ASSUME NEW h \in Handlers PROVE OInv /\ Use(h) => OInv'
<1> SUFFICES ASSUME OInv, Use(h) PROVE OInv'
  OBVIOUS
<1> DEFINE q == [req[h] EXCEPT !.result = req[h].got, !.got = NoSnapshot, !.answered = 0]
<1>1. IInv' /\ UNCHANGED world /\ UNCHANGED <<files, saved, shown>>
  BY UseKeeps DEF OInv, Use, store
<1>2. /\ req[h] \in Locals /\ req[h].name \in Names /\ Holds(req[h], "heard")
      /\ (setting.atOnce = 1 => Alone(h) /\ Ordered(req[h], "heard"))
  BY SerialLocals, LocalTypes DEF OInv, Use
<1>3. q.shown = req[h].shown /\ q.name = req[h].name /\ q.result = req[h].got
  BY <1>2 DEF Locals
<1>4. pc' = [pc EXCEPT ![h] = "returning"] /\ req' = [req EXCEPT ![h] = q]
  BY DEF Use, Goto, OInv, IInv, Types
<1> HIDE DEF q
<1>5. q.result.version <= version
  BY <1>2, <1>3 DEF Holds
<1>6. setting.atOnce = 1 => Ordered(q, "returning")
  BY <1>2, <1>3 DEF Ordered, Use
<1> QED
  BY <1>1, <1>2, <1>4, <1>5, <1>6, QuietStep

(* The stamp is not before those of the files there are.                   *)
LEMMA OrderCapture == ASSUME NEW h \in Handlers PROVE OInv /\ Capture(h) => OInv'
<1> SUFFICES ASSUME OInv, Capture(h) PROVE OInv'
  OBVIOUS
<1> DEFINE q == [req[h] EXCEPT !.got.at = now, !.answered = 0]
<1>1. IInv' /\ UNCHANGED world /\ UNCHANGED <<files, saved, shown>>
  BY CaptureKeeps DEF OInv, Capture, store
<1>2. /\ req[h] \in Locals /\ req[h].got \in Snapshot /\ req[h].name \in Names
      /\ (setting.atOnce = 1 => Alone(h) /\ Ordered(req[h], "heard"))
  BY SerialLocals, LocalTypes DEF OInv, Capture
<1>3. q.shown = req[h].shown /\ q.name = req[h].name
      /\ q.got.at = now /\ q.got.version = req[h].got.version
  BY <1>2 DEF Locals, Snapshot
<1>4. pc' = [pc EXCEPT ![h] = "captured"] /\ req' = [req EXCEPT ![h] = q]
  BY DEF Capture, Goto, OInv, IInv, Types
<1>5. \A s \in Present(Sanitize(req[h].name)) : s <= Stamp(now)
  BY <1>2 DEF OInv, PastInv, Dirs
<1> HIDE DEF q
<1>6. setting.atOnce = 1 => Ordered(q, "captured")
  BY <1>2, <1>3, <1>5 DEF Ordered
<1> QED
  BY <1>1, <1>2, <1>4, <1>6, QuietStep

----------------------------------------------------------------------------
(* The steps of a save.                                                    *)

(* A file of a past stamp leaves nothing of the future.                    *)
LEMMA PastPut ==
  ASSUME IInv, PastInv, UNCHANGED world, NEW h \in Handlers, NEW c,
         files' = [files EXCEPT ![Dir(h)][Target(h)] = c],
         pc[h] \in {"captured", "writing"}
  PROVE  \A d \in Dirs' : \A s \in Present(d)' : s <= Stamp(now)
<1>1. Dirs' = Dirs /\ Stamps' = Stamps
  BY SameFrames DEF world
<1>2. req[h].got \in Snapshot /\ Holds(req[h], pc[h]) /\ MaxTime \in Nat /\ now \in Nat
  BY LocalTypes
<1>3. req[h].got.at \in Nat /\ req[h].got.at <= now
  BY <1>2 DEF Holds, Dated, Snapshot
<1>4. Target(h) <= Stamp(now)
  BY <1>2, <1>3, StampGrows DEF Target
<1>5. ASSUME NEW d \in Dirs, NEW s \in Stamps, files'[d][s] # Absent
      PROVE  files[d][s] # Absent \/ s = Target(h)
  BY <1>5 DEF IInv, Types
<1> QED
  BY <1>1, <1>4, <1>5 DEF Present, PastInv

(* Where and when a save under way writes.                                 *)
LEMMA TargetTypes ==
  ASSUME IInv, NEW h \in Handlers, pc[h] \in {"captured", "writing"}
  PROVE  Dir(h) \in Dirs /\ Target(h) \in Stamps
<1>1. req[h].got \in Snapshot /\ Dir(h) \in Dirs
  BY LocalTypes
<1>2. req[h].got.at \in 0..MaxTime
  BY <1>1 DEF Snapshot
<1> QED
  BY <1>1, <1>2, StampsOfTime DEF Target

(* One at a time, a save puts its file at the end of its directory.        *)
LEMMA SavePuts ==
  ASSUME IInv, UNCHANGED setting, NEW h \in Handlers, pc[h] \in {"captured", "writing"},
         Ordered(req[h], pc[h]), NEW c, c # Absent,
         files' = [files EXCEPT ![Dir(h)][Target(h)] = c]
  PROVE  \E dir \in Dirs, t \in Stamps :
           /\ dir = Sanitize(req[h].name) /\ t = Stamp(req[h].got.at)
           /\ \A s \in Present(dir) : s <= t
           /\ Present(dir)' = Present(dir) \cup {t} /\ Latest(dir)' = c
           /\ files'[dir][t] = c
           /\ \A d \in Dirs : d # dir => Present(d)' = Present(d) /\ files'[d] = files[d]
<1>1. PICK dir \in Dirs, t \in Stamps : dir = Dir(h) /\ t = Target(h)
  BY TargetTypes
<1>2. \A s \in Present(dir) : s <= t
  BY <1>1 DEF Ordered, Dir, Target
<1>3. files' = [files EXCEPT ![dir][t] = c]
  BY <1>1
<1>4. /\ Present(dir)' = Present(dir) \cup {t} /\ Latest(dir)' = c
      /\ files'[dir][t] = c
      /\ \A d \in Dirs : d # dir => Present(d)' = Present(d) /\ files'[d] = files[d]
  BY <1>2, <1>3, PutLast
<1> QED
  BY <1>1, <1>2, <1>4 DEF Dir, Target

(* Directories that a save leaves alone keep their latest file.            *)
LEMMA OthersKept ==
  ASSUME NEW dir, NEW d \in Dirs, d # dir,
         \A e \in Dirs : e # dir => Present(e)' = Present(e) /\ files'[e] = files[e]
  PROVE  (Readable(d)' <=> Readable(d)) /\ Latest(d)' = Latest(d)
BY DEF Readable, Latest

(* A directory whose latest file is empty or torn has none to read, and    *)
(* the others are as they were.                                            *)
LEMMA LatestBroken ==
  ASSUME LatestInv, UNCHANGED <<setting, saved, shown>>, NEW dir \in Dirs,
         Present(dir)' # {}, Latest(dir)' \in {Empty, Torn},
         \A d \in Dirs : d # dir => Present(d)' = Present(d) /\ files'[d] = files[d]
  PROVE  LatestInv'
<1>1. Names' = Names /\ Dirs' = Dirs
  BY SameFrames
<1>2. ~Readable(dir)'
  BY DEF Readable, Whole
<1> SUFFICES ASSUME NEW name \in Names, NEW d \in Dirs, d = Sanitize(name), Readable(d)'
             PROVE  saved[name] <= Latest(d)'.version /\ shown[name] <= Latest(d)'.version
  BY <1>1 DEF LatestInv, Dirs
<1>3. d # dir
  BY <1>2
<1> QED
  BY <1>3, OthersKept DEF LatestInv

LEMMA OrderOpen == ASSUME NEW h \in Handlers PROVE OInv /\ Open(h) => OInv'
<1> SUFFICES ASSUME OInv, Open(h) PROVE OInv'
  OBVIOUS
<1>1. /\ IInv' /\ IInv /\ UNCHANGED world /\ UNCHANGED <<saved, shown, req>>
      /\ UNCHANGED setting /\ pc[h] = "captured"
      /\ files' = [files EXCEPT ![Dir(h)][Target(h)] = Empty]
  BY OpenKeeps DEF OInv, Open, world
<1>2. Names' = Names /\ Dirs' = Dirs
  BY <1>1, SameFrames
<1>3. pc' = [pc EXCEPT ![h] = "writing"] /\ req' = [req EXCEPT ![h] = req[h]]
  BY <1>1 DEF Open, Goto, IInv, Types
<1>4. PastInv'
  <2>1. \A k \in Handlers : pc'[k] = "returning" => pc[k] = "returning"
    BY <1>1, <1>3 DEF IInv, Types
  <2> QED
    BY <1>1, <1>2, <2>1, PastPut DEF OInv, PastInv, world
<1>5. ASSUME setting.atOnce = 1 PROVE SerialInv'
  <2>1. Alone(h) /\ Ordered(req[h], "captured") /\ LatestInv
    BY <1>1, <1>5, SerialLocals
  <2>2. Empty # Absent /\ ~Whole(Empty)
    BY ContentsAssumption DEF Whole
  <2>3. PICK dir \in Dirs, t \in Stamps :
          /\ dir = Sanitize(req[h].name) /\ t = Stamp(req[h].got.at)
          /\ \A s \in Present(dir) : s <= t
          /\ Present(dir)' = Present(dir) \cup {t} /\ Latest(dir)' = Empty
          /\ files'[dir][t] = Empty
          /\ \A d \in Dirs : d # dir => Present(d)' = Present(d) /\ files'[d] = files[d]
    BY <1>1, <2>1, <2>2, SavePuts
  <2>4. PICK q \in Locals : q = req[h]
    BY <1>1, LocalTypes
  <2>5. LatestInv'
    BY <1>1, <2>1, <2>3, LatestBroken
  <2>6. Ordered(q, "writing")'
    <3>1. \A s \in Present(dir)' : s <= t
      BY <2>3, StampsOfTime, LocalTypes, <1>1, SettingTypes DEF IInv, Types
    <3>2. t \in Present(dir)' /\ ~Whole(files'[dir][t])
      BY <2>2, <2>3
    <3> QED
      BY <1>1, <1>2, <2>1, <2>3, <2>4, <3>1, <3>2 DEF Ordered, Whole
  <2> QED
    BY <1>1, <1>3, <2>1, <2>4, <2>5, <2>6, SerialMoved
<1> QED
  BY <1>1, <1>4, <1>5 DEF OInv, world

LEMMA OrderWrite == ASSUME NEW h \in Handlers PROVE OInv /\ Write(h) => OInv'
<1> SUFFICES ASSUME OInv, Write(h) PROVE OInv'
  OBVIOUS
<1>1. /\ IInv' /\ IInv /\ UNCHANGED world /\ UNCHANGED shown
      /\ UNCHANGED setting /\ pc[h] = "writing"
  BY WriteKeeps DEF OInv, Write, world
<1>2. PICK snap \in Snapshot, name \in Names :
        snap = req[h].got /\ name = req[h].name
  BY <1>1, LocalTypes
<1>3. PICK c \in {snap, Torn} : files' = [files EXCEPT ![Dir(h)][Target(h)] = c]
  BY <1>2 DEF Write, Written
<1>4. Names' = Names /\ Dirs' = Dirs
  BY <1>1, SameFrames
<1>5. PICK q : q = [req[h] EXCEPT !.result = req[h].got]
  OBVIOUS
<1>6. /\ q.result = snap /\ q.name = name /\ q.shown = req[h].shown /\ req[h] \in Locals
      /\ pc' = [pc EXCEPT ![h] = "returning"] /\ req' = [req EXCEPT ![h] = q]
  <2>1. req[h] \in Locals
    BY <1>1, LocalTypes
  <2> QED
    BY <1>2, <1>5, <2>1 DEF Write, Goto, Locals
<1>7. snap.version <= version /\ snap.version \in Nat /\ version \in Nat
  BY <1>1, <1>2, LocalTypes DEF Holds
<1>8. saved \in [Names -> Nat] /\ saved' = Highest(saved, name, snap.version)
  BY <1>1, <1>2 DEF Write, IInv, Types
<1>9. /\ \A n \in Names : n # name => saved'[n] = saved[n]
      /\ saved'[name] = saved[name] \/ saved'[name] = snap.version
  BY <1>8 DEF Highest
<1>10. PastInv'
  <2>1. \A k \in Handlers : pc'[k] = "returning" =>
          req'[k].result.version <= version
    BY <1>1, <1>6, <1>7 DEF OInv, PastInv, IInv, Types
  <2>2. \A n \in Names : saved'[n] <= version /\ shown'[n] <= version
    BY <1>1, <1>7, <1>9 DEF OInv, PastInv
  <2>3. \A d \in Dirs' : \A s \in Present(d)' : s <= Stamp(now)
    BY <1>1, <1>3, PastPut DEF OInv
  <2> QED
    BY <1>1, <1>4, <2>1, <2>2, <2>3 DEF PastInv, world
<1>11. ASSUME setting.atOnce = 1 PROVE SerialInv'
  <2>1. Alone(h) /\ Ordered(req[h], "writing") /\ LatestInv
    BY <1>1, <1>11, SerialLocals
  <2>2. Torn # Absent /\ ~Whole(Torn) /\ snap # Absent /\ Whole(snap)
    <3>1. snap \in [of : Seq(STRING), at : Nat, version : Nat]
      BY <1>1, SettingTypes DEF Snapshot, IInv, Types
    <3> QED
      BY <3>1, ContentsAssumption DEF Whole
  <2>3. PICK dir \in Dirs, t \in Stamps :
          /\ dir = Sanitize(req[h].name) /\ t = Stamp(req[h].got.at)
          /\ \A s \in Present(dir) : s <= t
          /\ Present(dir)' = Present(dir) \cup {t} /\ Latest(dir)' = c
          /\ files'[dir][t] = c
          /\ \A d \in Dirs : d # dir => Present(d)' = Present(d) /\ files'[d] = files[d]
    BY <1>1, <1>3, <2>1, <2>2, SavePuts
  <2>4. \A n \in Names : saved[n] <= snap.version /\ shown[n] <= snap.version
    BY <1>2, <2>1 DEF Ordered
  <2>5. \A n \in Names : saved'[n] <= snap.version /\ shown'[n] <= snap.version
    BY <1>1, <1>7, <1>9, <2>4
  <2>6. Readable(dir)' => Latest(dir)' = snap
    BY <1>3, <2>2, <2>3 DEF Readable, Whole
  <2>7. LatestInv'
    <3> SUFFICES ASSUME NEW n \in Names, NEW d \in Dirs, d = Sanitize(n), Readable(d)'
                 PROVE  saved'[n] <= Latest(d)'.version /\ shown'[n] <= Latest(d)'.version
      BY <1>4 DEF LatestInv, Dirs
    <3>1. CASE d = dir
      BY <2>5, <2>6, <3>1
    <3>2. CASE d # dir
      <4>1. Readable(d) /\ Latest(d)' = Latest(d)
        BY <2>3, <3>2, OthersKept
      <4>2. n # name
        BY <1>2, <2>3, <3>2
      <4> QED
        BY <1>1, <1>9, <2>1, <4>1, <4>2 DEF LatestInv
    <3> QED
      BY <3>1, <3>2
  <2>8. Ordered(q, "returning")'
    <3>1. q.shown = shown'[name] /\ dir = Sanitize(name)
      BY <1>1, <1>2, <1>6, <2>1, <2>3 DEF Ordered
    <3>2. shown'[name] <= snap.version
      BY <2>5
    <3>3. Readable(dir)' => snap.version <= Latest(dir)'.version
      BY <1>7, <2>6
    <3> QED
      BY <1>6, <3>1, <3>2, <3>3 DEF Ordered
  <2> QED
    BY <1>1, <1>6, <2>1, <2>7, <2>8, SerialMoved
<1> QED
  BY <1>1, <1>10, <1>11 DEF OInv, world

LEMMA OrderFail == ASSUME NEW h \in Handlers PROVE OInv /\ Fail(h) => OInv'
<1> SUFFICES ASSUME OInv, Fail(h) PROVE OInv'
  OBVIOUS
<1>1. /\ IInv' /\ IInv /\ UNCHANGED world /\ UNCHANGED <<saved, shown>> /\ UNCHANGED setting
      /\ pc[h] # "idle"
      /\ pc' = [pc EXCEPT ![h] = "idle"] /\ req' = [req EXCEPT ![h] = NoRequest]
  BY FailKeeps DEF OInv, Fail, Forget, Goto, world
<1>2. Ordered(NoRequest, "idle")
  BY DEF Ordered
<1>3. CASE UNCHANGED files
  BY <1>1, <1>2, <1>3, SerialLocals, QuietStep
<1>4. CASE pc[h] = "writing" /\ files' = [files EXCEPT ![Dir(h)][Target(h)] = Torn]
  <2>1. PastInv'
    <3>1. \A k \in Handlers : pc'[k] = "returning" => pc[k] = "returning" /\ req'[k] = req[k]
      BY <1>1 DEF IInv, Types
    <3>2. \A d \in Dirs' : \A s \in Present(d)' : s <= Stamp(now)
      BY <1>1, <1>4, PastPut DEF OInv
    <3> QED
      BY <1>1, <3>1, <3>2, SameFrames DEF OInv, PastInv, world
  <2>2. ASSUME setting.atOnce = 1 PROVE SerialInv'
    <3>1. Alone(h) /\ Ordered(req[h], "writing") /\ LatestInv
      BY <1>4, <2>2, SerialLocals
    <3>2. Torn # Absent
      BY ContentsAssumption
    <3>3. LatestInv'
      <4>1. PICK dir \in Dirs, t \in Stamps :
              /\ dir = Sanitize(req[h].name) /\ t = Stamp(req[h].got.at)
              /\ \A s \in Present(dir) : s <= t
              /\ Present(dir)' = Present(dir) \cup {t} /\ Latest(dir)' = Torn
              /\ files'[dir][t] = Torn
              /\ \A d \in Dirs : d # dir => Present(d)' = Present(d) /\ files'[d] = files[d]
        BY <1>1, <1>4, <3>1, <3>2, SavePuts
      <4> QED
        BY <1>1, <3>1, <4>1, LatestBroken
    <3>4. PICK q : q = NoRequest
      OBVIOUS
    <3>5. Ordered(q, "idle")'
      BY DEF Ordered
    <3> QED
      BY <1>1, <3>1, <3>3, <3>4, <3>5, SerialMoved
  <2> QED
    BY <1>1, <2>1, <2>2 DEF OInv, world
<1> QED
  BY <1>3, <1>4 DEF Fail

LEMMA OrderRespond == ASSUME NEW h \in Handlers PROVE OInv /\ Respond(h) => OInv'
<1> SUFFICES ASSUME OInv, Respond(h) PROVE OInv'
  OBVIOUS
<1>1. /\ IInv' /\ IInv /\ UNCHANGED world /\ UNCHANGED <<files, saved>> /\ UNCHANGED setting
      /\ pc[h] = "returning"
      /\ pc' = [pc EXCEPT ![h] = "idle"] /\ req' = [req EXCEPT ![h] = NoRequest]
  BY RespondKeeps DEF OInv, Respond, Forget, Goto, world
<1>2. PICK snap \in Snapshot, name \in Names :
        snap = req[h].result /\ name = req[h].name
  BY <1>1, LocalTypes
<1>3. Names' = Names /\ Dirs' = Dirs /\ Stamps' = Stamps
  BY <1>1, SameFrames
<1>4. \A d : Present(d)' = Present(d)
  BY <1>1, <1>3 DEF Present
<1>5. /\ \A n \in Names : n # name => shown'[n] = shown[n]
      /\ shown'[name] = shown[name] \/ shown'[name] = snap.version
  BY <1>2 DEF Respond, Highest, OInv, IInv, Types
<1>6. PastInv'
  <2>1. \A k \in Handlers : pc'[k] = "returning" => pc[k] = "returning" /\ req'[k] = req[k]
    BY <1>1 DEF IInv, Types
  <2>2. snap.version <= version
    BY <1>1, <1>2 DEF OInv, PastInv
  <2>3. \A n \in Names : saved'[n] <= version /\ shown'[n] <= version
    BY <1>1, <1>5, <2>2 DEF OInv, PastInv
  <2> QED
    BY <1>1, <1>3, <1>4, <2>1, <2>3 DEF OInv, PastInv, world
<1>7. ASSUME setting.atOnce = 1 PROVE SerialInv'
  <2>1. Alone(h) /\ Ordered(req[h], "returning") /\ LatestInv
    BY <1>1, <1>7, SerialLocals
  <2>2. LatestInv'
    <3> SUFFICES ASSUME NEW n \in Names, NEW d \in Dirs, d = Sanitize(n), Readable(d)
                 PROVE  saved[n] <= Latest(d).version /\ shown'[n] <= Latest(d).version
      BY <1>1, <1>3, <1>4 DEF LatestInv, Dirs, Readable, Latest
    <3>1. saved[n] <= Latest(d).version /\ shown[n] <= Latest(d).version
      BY <2>1 DEF LatestInv
    <3>2. n = name => snap.version <= Latest(d).version
      BY <1>2, <2>1 DEF Ordered
    <3> QED
      BY <1>5, <3>1, <3>2
  <2>3. PICK q : q = NoRequest
    OBVIOUS
  <2>4. Ordered(q, "idle")'
    BY DEF Ordered
  <2> QED
    BY <1>1, <2>1, <2>2, <2>3, <2>4, SerialMoved
<1> QED
  BY <1>1, <1>6, <1>7 DEF OInv, world

----------------------------------------------------------------------------
(* The steps of the world.                                                 *)
LEMMA OrderWorld == OInv /\ (Play \/ Tick) => OInv'
<1> SUFFICES ASSUME OInv, Play \/ Tick PROVE OInv'
  OBVIOUS
<1>1. /\ IInv' /\ IInv /\ UNCHANGED <<files, saved, shown, pc, req>> /\ UNCHANGED setting
      /\ version' = version \/ version' = version + 1
      /\ now' = now \/ now' = now + 1
  BY PlayKeeps, TickKeeps DEF OInv, Play, Tick, store
<1>2. Names' = Names /\ Dirs' = Dirs /\ Stamps' = Stamps
  BY <1>1, SameFrames
<1>3. \A d : Present(d)' = Present(d)
  BY <1>1, <1>2 DEF Present
<1>4. now \in Nat /\ version \in Nat
  BY SettingTypes DEF OInv, IInv, Types
<1>5. \A name \in Names : saved[name] <= version' /\ shown[name] <= version'
  <2>1. \A name \in Names : saved[name] \in Nat /\ shown[name] \in Nat
    BY <1>1 DEF IInv, Types
  <2> QED
    BY <1>1, <1>4, <2>1 DEF OInv, PastInv
<1>6. \A h \in Handlers : pc[h] = "returning" => req[h].result.version <= version'
  <2> SUFFICES ASSUME NEW h \in Handlers, pc[h] = "returning"
               PROVE  req[h].result.version <= version'
    OBVIOUS
  <2>1. req[h].result.version \in Nat /\ req[h].result.version <= version
    BY <1>1, LocalTypes DEF OInv, PastInv
  <2> QED
    BY <1>1, <1>4, <2>1
<1>7. \A d \in Dirs : \A s \in Present(d) : s <= Stamp(now')
  <2> SUFFICES ASSUME NEW d \in Dirs, NEW s \in Present(d) PROVE s <= Stamp(now')
    OBVIOUS
  <2>1. s \in Nat /\ s <= Stamp(now)
    BY <1>1, PresentStamps DEF OInv, PastInv
  <2>2. Stamp(now) \in Nat /\ Stamp(now) <= Stamp(now') /\ Stamp(now') \in Nat
    BY <1>1, <1>4, StampGrows
  <2> QED
    BY <2>1, <2>2
<1>8. PastInv'
  BY <1>1, <1>2, <1>3, <1>5, <1>6, <1>7 DEF PastInv
<1>9. ASSUME setting.atOnce = 1 PROVE SerialInv'
  <2>1. LatestInv'
    BY <1>1, <1>2, <1>3, <1>9 DEF OInv, SerialInv, LatestInv, Readable, Latest
  <2>2. ASSUME NEW h \in Handlers PROVE Ordered(req[h], pc[h])'
    <3>1. Ordered(req[h], pc[h])
      BY <1>9 DEF OInv, SerialInv
    <3> QED
      BY <1>1, <1>2, <1>3, <3>1 DEF Ordered, Readable, Latest
  <2> QED
    BY <1>1, <1>9, <2>1, <2>2 DEF OInv, SerialInv, Alone
<1> QED
  BY <1>1, <1>8, <1>9 DEF OInv

(* What a restart leaves of the directories: the files that were being     *)
(* written may be torn, at the ends of their names.                        *)
LEMMA OrderRestart == OInv /\ Restart => OInv'
<1> SUFFICES ASSUME OInv, Restart PROVE OInv'
  OBVIOUS
<1>1. /\ IInv' /\ IInv /\ UNCHANGED world /\ UNCHANGED <<saved, shown>> /\ UNCHANGED setting
      /\ pc' = [h \in Handlers |-> IF h \in Interrupted THEN "idle" ELSE pc[h]]
      /\ req' = [h \in Handlers |-> IF h \in Interrupted THEN NoRequest ELSE req[h]]
  BY RestartKeeps DEF OInv, Restart, world
<1>2. PICK cut \in SUBSET {h \in Interrupted : pc[h] = "writing"} :
        files' = [d \in Dirs |-> [s \in Stamps |->
          IF \E h \in cut : Dir(h) = d /\ Target(h) = s THEN Torn ELSE files[d][s]]]
  BY DEF Restart
<1>3. Names' = Names /\ Dirs' = Dirs /\ Stamps' = Stamps
  BY <1>1, SameFrames
<1>4. \A h \in cut : h \in Handlers /\ h \in Interrupted /\ pc[h] = "writing"
  BY <1>2 DEF Interrupted
<1>5. /\ \A h \in Handlers : pc'[h] = "idle" \/ (pc'[h] = pc[h] /\ req'[h] = req[h])
      /\ \A h \in cut : pc'[h] = "idle"
  BY <1>1, <1>4
<1>6. PastInv'
  <2>1. ASSUME NEW d \in Dirs, NEW s \in Present(d)' PROVE s <= Stamp(now)
    <3>1. s \in Stamps /\ files'[d][s] # Absent
      BY <1>3, <2>1 DEF Present
    <3>2. CASE \E h \in cut : Dir(h) = d /\ Target(h) = s
      <4>1. PICK h \in cut : Target(h) = s
        BY <3>2
      <4>2. /\ req[h].got \in Snapshot /\ Holds(req[h], "writing")
            /\ MaxTime \in Nat /\ now \in Nat
        BY <1>1, <1>4, LocalTypes
      <4>3. req[h].got.at \in Nat /\ req[h].got.at <= now
        BY <4>2 DEF Holds, Dated, Snapshot
      <4> QED
        BY <4>1, <4>2, <4>3, StampGrows DEF Target
    <3>3. CASE ~(\E h \in cut : Dir(h) = d /\ Target(h) = s)
      <4>1. files[d][s] # Absent
        BY <1>2, <3>1, <3>3
      <4> QED
        BY <3>1, <4>1 DEF Present, OInv, PastInv
    <3> QED
      BY <3>2, <3>3
  <2> QED
    BY <1>1, <1>3, <1>5, <2>1 DEF OInv, PastInv, world
<1>7. ASSUME setting.atOnce = 1 PROVE SerialInv'
  <2>1. SerialInv
    BY <1>7 DEF OInv
  <2>2. CASE cut = {}
    <3>1. files' = files
      BY <1>1, <1>2, <2>2 DEF IInv, Types
    <3>2. \A d : Present(d)' = Present(d)
      BY <1>3, <3>1 DEF Present
    <3>3. LatestInv'
      BY <1>1, <1>3, <2>1, <3>1, <3>2 DEF SerialInv, LatestInv, Readable, Latest
    <3>4. ASSUME NEW h \in Handlers PROVE Ordered(req[h], pc[h])'
      <4>1. CASE pc'[h] = "idle"
        BY <4>1 DEF Ordered
      <4>2. CASE pc'[h] = pc[h] /\ req'[h] = req[h]
        <5>1. Ordered(req[h], pc[h])
          BY <2>1 DEF SerialInv
        <5> QED
          BY <1>1, <1>3, <3>1, <3>2, <4>2, <5>1 DEF Ordered, Readable, Latest
      <4> QED
        BY <1>5, <4>1, <4>2
    <3>5. \A h \in Handlers : pc'[h] # "idle" => Alone(h)'
      BY <1>5, <2>1 DEF SerialInv, Alone
    <3> QED
      BY <3>3, <3>4, <3>5 DEF SerialInv
  <2>3. ASSUME NEW k \in cut PROVE SerialInv'
    <3>1. /\ k \in Handlers /\ pc[k] = "writing" /\ Alone(k) /\ Ordered(req[k], pc[k])
          /\ LatestInv
      BY <1>4, <2>1 DEF SerialInv
    <3>2. cut = {k}
      BY <1>4, <3>1 DEF Alone
    <3>3. \A h \in Handlers : pc'[h] = "idle"
      BY <1>5, <3>1 DEF Alone
    <3>4. files' = [files EXCEPT ![Dir(k)][Target(k)] = Torn]
      <4>1. files' = [d \in Dirs |-> [s \in Stamps |->
              IF Dir(k) = d /\ Target(k) = s THEN Torn ELSE files[d][s]]]
        BY <1>2, <3>2
      <4> QED
        BY <1>1, <3>1, <4>1, TargetTypes DEF IInv, Types
    <3>5. PICK dir \in Dirs, t \in Stamps :
            /\ dir = Sanitize(req[k].name) /\ t = Stamp(req[k].got.at)
            /\ \A s \in Present(dir) : s <= t
            /\ Present(dir)' = Present(dir) \cup {t} /\ Latest(dir)' = Torn
            /\ files'[dir][t] = Torn
            /\ \A d \in Dirs : d # dir => Present(d)' = Present(d) /\ files'[d] = files[d]
      <4>1. Torn # Absent
        BY ContentsAssumption
      <4> QED
        BY <1>1, <3>1, <3>4, <4>1, SavePuts
    <3>6. LatestInv'
      BY <1>1, <3>1, <3>5, LatestBroken
    <3>7. \A h \in Handlers : Ordered(req[h], pc[h])'
      BY <3>3 DEF Ordered
    <3> QED
      BY <3>3, <3>6, <3>7 DEF SerialInv
  <2> QED
    BY <2>2, <2>3
<1> QED
  BY <1>1, <1>6, <1>7 DEF OInv, world

----------------------------------------------------------------------------
LEMMA OrderPreserved == OInv /\ [Next]_vars => OInv'
<1> SUFFICES ASSUME OInv, [Next]_vars PROVE OInv'
  OBVIOUS
<1>1. CASE Play \/ Tick
  BY <1>1, OrderWorld
<1>2. CASE Restart
  BY <1>2, OrderRestart
<1>3. ASSUME NEW h \in Handlers,
             \/ Arrive(h) \/ List(h) \/ Read(h)
             \/ Fetch(h) \/ Answer(h) \/ Hear(h) \/ Use(h) \/ Capture(h)
             \/ Open(h) \/ Write(h) \/ Fail(h) \/ Respond(h)
      PROVE  OInv'
  BY <1>3, OrderArrive, OrderList, OrderRead, OrderFetch, OrderAnswer, OrderHear, OrderUse,
     OrderCapture, OrderOpen, OrderWrite, OrderFail, OrderRespond
<1>4. CASE UNCHANGED vars
  <2>1. IInv'
    BY <1>4, Preserved DEF OInv
  <2>2. /\ UNCHANGED <<files, saved, shown, pc, req>> /\ UNCHANGED world /\ UNCHANGED setting
    BY <1>4 DEF vars, world, store
  <2>3. Names' = Names /\ Dirs' = Dirs /\ Stamps' = Stamps
    BY <2>2, SameFrames
  <2>4. \A d : Present(d)' = Present(d)
    BY <2>2, <2>3 DEF Present
  <2>5. PastInv'
    BY <2>2, <2>3, <2>4 DEF OInv, PastInv, world
  <2>6. ASSUME setting.atOnce = 1 PROVE SerialInv'
    <3>1. LatestInv'
      BY <2>2, <2>3, <2>4, <2>6 DEF OInv, SerialInv, LatestInv, Readable, Latest
    <3>2. ASSUME NEW h \in Handlers PROVE Ordered(req[h], pc[h])'
      <4>1. Ordered(req[h], pc[h])
        BY <2>6 DEF OInv, SerialInv
      <4> QED
        BY <2>2, <2>3, <2>4, <4>1 DEF Ordered, Readable, Latest
    <3> QED
      BY <2>2, <2>6, <3>1, <3>2 DEF OInv, SerialInv, Alone
  <2> QED
    BY <2>1, <2>2, <2>5, <2>6 DEF OInv
<1> QED
  BY <1>1, <1>2, <1>3, <1>4 DEF Next

LEMMA OrderInvariance == Spec => []OInv
<1>1. Init => OInv
  BY OrderInitially
<1>2. OInv /\ [Next]_vars => OInv'
  BY OrderPreserved
<1> QED
  BY <1>1, <1>2, PTL DEF Spec

(* For any characters and any number of requests and commands, one after   *)
(* another, with saves that fail and processes killed at any moment:       *)
(* nothing is returned that is older than what was shown before            *)
(* (latestOrFetch and fetchAndStore, server.go:150-172 and                 *)
(* main.go:187-206 and 373-386).                                           *)
THEOREM NeverStepsBack == Spec => []NoStepBack
<1>1. OInv => NoStepBack
  <2> SUFFICES ASSUME OInv, setting.atOnce = 1, NEW h \in Handlers, pc[h] = "returning"
               PROVE  req[h].result.version >= req[h].shown
    BY DEF NoStepBack
  <2>1. Ordered(req[h], "returning")
    BY SerialLocals
  <2>2. IInv /\ req[h] \in Locals /\ req[h].result.version \in 0..MaxVersion /\ MaxVersion \in Nat
    BY LocalTypes DEF OInv
  <2>3. req[h].shown \in Nat /\ req[h].result.version \in Nat
    BY <2>2 DEF Locals
  <2>4. req[h].shown <= req[h].result.version
    BY <2>1 DEF Ordered
  <2> QED
    BY <2>3, <2>4
<1> QED
  BY <1>1, OrderInvariance, PTL

(* In the same circumstances, in the middle of a save and after one that   *)
(* failed: the file Latest picks, if it can be read, holds the newest      *)
(* version ever saved (Latest, store.go:98-103).                           *)
THEOREM LatestIsTheNewest == Spec => []LatestIsNewest
<1>1. OInv => LatestIsNewest
  <2> SUFFICES ASSUME OInv, setting.atOnce = 1, NEW name \in Names, Readable(Sanitize(name))
               PROVE  Latest(Sanitize(name)).version >= saved[name]
    BY DEF LatestIsNewest, Readable, Latest
  <2>1. saved[name] <= Latest(Sanitize(name)).version
    BY DEF OInv, SerialInv, LatestInv
  <2> QED
    BY <2>1
<1> QED
  BY <1>1, OrderInvariance, PTL
=============================================================================
