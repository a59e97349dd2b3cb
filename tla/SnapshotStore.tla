--------------------------- MODULE SnapshotStore ---------------------------
(***************************************************************************)
(* The character snapshots: storage.Store (internal/storage/store.go), the *)
(* server handlers that read and fill it (latestOrFetch and fetchAndStore, *)
(* internal/server/server.go) and the commands that do so from processes   *)
(* of their own (cmd/poefissure/main.go).  None of them shares a lock.  A  *)
(* snapshot is a file named after the second it was captured in, in a      *)
(* directory named after its character, and is written in place; the       *)
(* latest one is the last by name.                                         *)
(*                                                                         *)
(* The characters live at the game's API, which is external: version       *)
(* counts the changes of their equipment.  Time is counted in instants,    *)
(* PerSecond of them to a second.  Of the rate limiter only its first      *)
(* second of pacing is kept (RateLimiter models it).                       *)
(***************************************************************************)
EXTENDS Naturals, Sequences, FiniteSets

CONSTANTS Handlers,   \* request handlers and commands
          PerSecond,  \* instants per second
          Settings,   \* the circumstances to look at
          Plain,      \* the letters, digits and signs that stay in a file name
          Absent, Empty, Torn

(* ops: what is asked for; names: the characters it is asked of, as        *)
(* sequences of letters (the server has one, its Character; a command      *)
(* takes any); atOnce: how many requests and commands are under way at the *)
(* same time; maxAge: Server.MaxAge in instants, 0 if snapshots never      *)
(* expire; latency: the instants a response takes at most from the API to  *)
(* its capture; mayFail: may saves fail and processes die?  maxVersion     *)
(* bounds the changes of the character, maxTime the instants.              *)
Op == {"view", "refresh", "get", "use"}
Setting == [ops : SUBSET Op, names : SUBSET Seq(STRING), atOnce : Nat, maxAge : Nat,
            latency : Nat, mayFail : BOOLEAN, maxVersion : Nat, maxTime : Nat]

ASSUME SettingsAssumption ==
  PerSecond \in Nat \ {0} /\ \A s \in Settings : s \in Setting /\ s.names # {}
ASSUME HandlersAssumption == IsFiniteSet(Handlers)
ASSUME ContentsAssumption ==
  /\ Absent # Empty /\ Absent # Torn
  /\ {Absent, Empty, Torn} \cap [of : Seq(STRING), at : Nat, version : Nat] = {}
ASSUME OneServed ==
  \A s \in Settings : s.ops \cap {"view", "refresh"} # {} => Cardinality(s.names) = 1

VARIABLES setting,  \* one of Settings
          now,      \* the clock
          version,  \* the character as it is
          files,    \* the characters' directories: contents by stamp
          heard,    \* when the server's limiter observed the last response
          pc,       \* where each handler is
          req,      \* its locals, see Request
          ended,    \* history: when each version was replaced
          shown,    \* history, one at a time: the highest version returned of each
          saved     \* history, one at a time: the highest one whose save succeeded

world == <<setting, now, version, ended>>
store == <<files, heard, saved, shown>>
vars == <<world, store, pc, req>>

MaxVersion == setting.maxVersion
MaxTime == setting.maxTime

Names == setting.names

(* The directory of a character: what is not plain becomes an underscore.  *)
Dropped(name) == SelectSeq(name, LAMBDA letter : letter \in Plain)  \* mutant
Sanitize(name) == [i \in DOMAIN name |-> IF name[i] \in Plain THEN name[i] ELSE "_"]
Dirs == {Sanitize(name) : name \in Names}

Stamps == 0..(MaxTime \div PerSecond)
WrappingStamp(t) == (t \div PerSecond) % 2  \* mutant: a 12-hour clock, say
Stamp(t) == t \div PerSecond   \* the file name: RFC 3339 to the second
Snapshot == [of : Names, at : 0..MaxTime, version : 0..MaxVersion]
Whole(content) == content \notin {Absent, Empty, Torn}

Never == MaxTime + 1
Highest(of, name, n) ==
  [of EXCEPT ![name] = IF setting.atOnce = 1 /\ n > @ THEN n ELSE @]

(* A view or a refresh is a request to the server.  The commands: get is   *)
(* "char get" and each round of "char watch", which fetch and save; use is *)
(* "pob", "export" and "upgrades", which take any snapshot there is and    *)
(* else fetch without saving.                                              *)
(*                                                                         *)
(* A request: its kind and character, the file Latest chose, when the     *)
(* limiter lets it go, the snapshot it fetched, what it returns; and, as   *)
(* history, when the API answered it, when a view arrived, the version     *)
(* when a fetching one began, and the highest version returned by then.    *)
AnyName == CHOOSE name \in Names : TRUE
NoSnapshot == [of |-> AnyName, at |-> 0, version |-> 0]
Request == [op : Op, name : Names, picked : Stamps, ready : 0..(MaxTime + PerSecond),
            got : Snapshot, result : Snapshot, answered : 0..MaxTime,
            at : 0..MaxTime, version : 0..MaxVersion, shown : 0..MaxVersion]

NoRequest == [op |-> "view", name |-> AnyName, picked |-> 0, ready |-> 0, got |-> NoSnapshot,
              result |-> NoSnapshot, answered |-> 0, at |-> 0, version |-> 0, shown |-> 0]

Init ==
  /\ setting \in Settings
  /\ now = 0
  /\ version = 0
  /\ ended = [v \in 0..MaxVersion |-> Never]
  /\ files = [d \in Dirs |-> [s \in Stamps |-> Absent]]
  /\ heard = Never   \* nothing heard yet
  /\ saved = [name \in Names |-> 0]
  /\ shown = [name \in Names |-> 0]
  /\ pc = [h \in Handlers |-> "idle"]
  /\ req = [h \in Handlers |-> NoRequest]

----------------------------------------------------------------------------
(* The character's equipment changes.                                      *)
Play ==
  /\ version < MaxVersion
  /\ version' = version + 1
  /\ ended' = [ended EXCEPT ![version] = now]
  /\ UNCHANGED <<setting, now, store, pc, req>>

(* A response is read, decoded and captured within Latency.                *)
Tick ==
  /\ now < MaxTime
  /\ \A h \in Handlers : pc[h] \in {"answered", "heard"} => now < req[h].answered + setting.latency
  /\ now' = now + 1
  /\ UNCHANGED <<setting, version, ended, store, pc, req>>

Goto(h, place) == pc' = [pc EXCEPT ![h] = place]

FirstStepCached(o) == "listing"  \* mutant
FirstStep(o) == IF o \in {"view", "use"} THEN "listing" ELSE "fetching"

(* GET /api/character and its like, POST /api/character/refresh; a command.*)
Arrive(h) ==
  /\ pc[h] = "idle" /\ Cardinality({g \in Handlers : pc[g] # "idle"}) < setting.atOnce
  /\ \E o \in setting.ops, name \in Names :
       /\ req' = [req EXCEPT ![h] =
            IF o \in {"view", "use"}
            THEN [NoRequest EXCEPT !.op = o, !.name = name, !.at = now, !.shown = shown[name]]
            ELSE [NoRequest EXCEPT !.op = o, !.name = name, !.version = version,
                                   !.shown = shown[name]]]
       /\ Goto(h, FirstStep(o))
  /\ UNCHANGED <<world, store>>

(* Latest lists the directory: the last name that exists ...               *)
Present(dir) == {s \in Stamps : files[dir][s] # Absent}
Dir(h) == Sanitize(req[h].name)
Oldest(S) == CHOOSE s \in S : \A r \in S : s <= r  \* mutant
Newest(S) == CHOOSE s \in S : \A r \in S : r <= s

List(h) ==
  /\ pc[h] = "listing"
  /\ IF Present(Dir(h)) = {}
     THEN Goto(h, "fetching") /\ UNCHANGED req
     ELSE Goto(h, "reading") /\ req' = [req EXCEPT ![h].picked = Newest(Present(Dir(h)))]
  /\ UNCHANGED <<world, store>>

(* ... and reads that file; one that does not parse is as good as none.    *)
(* The server has an age limit, the command line takes what there is.      *)
FreshForever(o, snap) == TRUE  \* mutant
Fresh(o, snap) == o = "use" \/ setting.maxAge = 0 \/ now < snap.at + setting.maxAge

Read(h) ==
  LET content == files[Dir(h)][req[h].picked] IN
  /\ pc[h] = "reading"
  /\ IF Whole(content) /\ Fresh(req[h].op, content)
     THEN /\ Goto(h, "returning")
          /\ req' = [req EXCEPT ![h].picked = 0, ![h].result = content]
     ELSE /\ Goto(h, "fetching")
          /\ req' = [req EXCEPT ![h].picked = 0]
  /\ UNCHANGED <<world, store>>

(* GetCharacter: the limiter's pace of a second after the last response,   *)
(* computed when the wait begins.  A command has a limiter of its own, and *)
(* "char watch" leaves a minute between its rounds.                        *)
Served(h) == req[h].op \in {"view", "refresh"}
Due(h) == IF ~Served(h) \/ heard = Never THEN now ELSE heard + PerSecond

Fetch(h) ==
  /\ pc[h] = "fetching"
  /\ req' = [req EXCEPT ![h].ready = Due(h)]
  /\ Goto(h, "waiting")
  /\ UNCHANGED <<world, store>>

(* The API looks the character up.                                         *)
Answer(h) ==
  /\ pc[h] = "waiting" /\ now >= req[h].ready
  /\ req' = [req EXCEPT ![h].ready = 0, ![h].answered = now,
                        ![h].got = [NoSnapshot EXCEPT !.of = req[h].name, !.version = version]]
  /\ Goto(h, IF Served(h) THEN "answered" ELSE "heard")
  /\ UNCHANGED <<world, store>>

(* The response's headers arrive at the server, then its body ...          *)
Hear(h) ==
  /\ pc[h] = "answered"
  /\ heard' = now
  /\ Goto(h, "heard")
  /\ UNCHANGED <<world, files, saved, shown, req>>

(* ... and the snapshot is stamped, after the fetch, or used as it is.     *)
Use(h) ==
  /\ pc[h] = "heard" /\ req[h].op = "use"
  /\ req' = [req EXCEPT ![h].result = req[h].got, ![h].got = NoSnapshot, ![h].answered = 0]
  /\ Goto(h, "returning")
  /\ UNCHANGED <<world, store>>

Capture(h) ==
  /\ pc[h] = "heard" /\ req[h].op # "use"
  /\ req' = [req EXCEPT ![h].got.at = now, ![h].answered = 0]
  /\ Goto(h, "captured")
  /\ UNCHANGED <<world, store>>

(* Save: os.WriteFile on the file itself, so that it is first created or   *)
(* truncated, and then written at offset 0.                                *)
Target(h) == Stamp(req[h].got.at)

Open(h) ==
  /\ pc[h] = "captured"
  /\ files' = [files EXCEPT ![Dir(h)][Target(h)] = Empty]
  /\ Goto(h, "writing")
  /\ UNCHANGED <<world, heard, saved, shown, req>>

Written(old, snap) == IF old = Empty THEN {snap} ELSE {snap, Torn}

Write(h) ==
  LET snap == req[h].got IN
  /\ pc[h] = "writing"
  /\ \E content \in Written(files[Dir(h)][Target(h)], snap) :
       files' = [files EXCEPT ![Dir(h)][Target(h)] = content]
  /\ saved' = Highest(saved, req[h].name, snap.version)
  /\ req' = [req EXCEPT ![h].result = snap]
  /\ Goto(h, "returning")
  /\ UNCHANGED <<world, heard, shown>>

(* The request is over.                                                    *)
Forget(h) == Goto(h, "idle") /\ req' = [req EXCEPT ![h] = NoRequest]

(* The API fails or does not know the character, the save fails, or the    *)
(* command is killed in the middle of it: the request ends with an error,  *)
(* the file stays as far as it got.                                        *)
Fail(h) ==
  /\ \/ pc[h] \in {"waiting", "answered", "heard"} /\ UNCHANGED files
     \/ setting.mayFail /\ pc[h] = "captured" /\ UNCHANGED files
     \/ setting.mayFail /\ pc[h] = "writing"
        /\ files' \in {files, [files EXCEPT ![Dir(h)][Target(h)] = Torn]}
  /\ Forget(h)
  /\ UNCHANGED <<world, heard, saved, shown>>

(* The server is killed and started again: its requests are gone, a file   *)
(* it was writing is empty, partial or complete, its limiter new.          *)
Interrupted == {h \in Handlers : pc[h] # "idle" /\ Served(h)}

Restart ==
  /\ setting.mayFail
  /\ \E cut \in SUBSET {h \in Interrupted : pc[h] = "writing"} :
       files' = [d \in Dirs |-> [s \in Stamps |->
         IF \E h \in cut : Dir(h) = d /\ Target(h) = s THEN Torn ELSE files[d][s]]]
  /\ heard' = Never
  /\ pc' = [h \in Handlers |-> IF h \in Interrupted THEN "idle" ELSE pc[h]]
  /\ req' = [h \in Handlers |-> IF h \in Interrupted THEN NoRequest ELSE req[h]]
  /\ UNCHANGED <<world, saved, shown>>

Respond(h) ==
  /\ pc[h] = "returning"
  /\ shown' = Highest(shown, req[h].name, req[h].result.version)
  /\ Forget(h)
  /\ UNCHANGED <<world, files, heard, saved>>

Next ==
  \/ Play
  \/ Tick
  \/ Restart
  \/ \E h \in Handlers :
       \/ Arrive(h) \/ List(h) \/ Read(h)
       \/ Fetch(h) \/ Answer(h) \/ Hear(h) \/ Use(h) \/ Capture(h)
       \/ Open(h) \/ Write(h) \/ Fail(h) \/ Respond(h)

Spec == Init /\ [][Next]_vars

----------------------------------------------------------------------------
(* A refresh and "char get" return the character as it was at some moment  *)
(* after they began, whatever other handlers and processes store meanwhile *)
(* (fetchAndStore, server.go:160-172 and main.go:187-206).                 *)
RefreshShowsNow ==
  \A h \in Handlers :
    pc[h] = "returning" /\ req[h].op \in {"refresh", "get"}
      => req[h].result.version >= req[h].version

(* What a view shows was replaced less than MaxAge and a response's        *)
(* latency before the request arrived, though the age is counted from a    *)
(* stamp set after the fetch ("how old a snapshot may be before GET        *)
(* /api/character refetches", server.go:43-44 and 150-158).                *)
BoundedStaleness ==
  \A h \in Handlers :
    pc[h] = "returning" /\ req[h].op = "view" /\ setting.maxAge > 0
      => ended[req[h].result.version] + setting.maxAge + setting.latency > req[h].at

(* One at a time, no request or command shows an older character than one  *)
(* already shown before it began, although some of what is shown is never  *)
(* saved (latestOrFetch and fetchAndStore, server.go:150-172 and           *)
(* main.go:187-206 and 373-386).                                           *)
NoStepBack ==
  setting.atOnce = 1 =>
    \A h \in Handlers : pc[h] = "returning" => req[h].result.version >= req[h].shown

(* One at a time: the file Latest picks, if it can be read, holds the      *)
(* newest version ever saved, also by another process and in the same      *)
(* second, and in the middle of a save or after one that failed ("Latest   *)
(* returns the most recent snapshot", store.go:98).                        *)
LatestIsNewest ==
  setting.atOnce = 1 =>
    \A name \in Names :
      LET dir == Sanitize(name)
          latest == files[dir][Newest(Present(dir))] IN
      Present(dir) # {} /\ Whole(latest) => latest.version >= saved[name]

(* What is returned is the character that was asked for, or one whose name *)
(* is as long and has the same plain letters, but for underscores, in the  *)
(* same places: names in other alphabets share a directory                 *)
(* ("<dir>/<character>/<timestamp>.json", store.go:28 and 42-44;           *)
(* latestOrFetch, main.go:373-376).                                        *)
Certain(letter) == letter \in Plain /\ letter # "_"
Alike(name, other) ==
  /\ Len(name) = Len(other)
  /\ \A i \in DOMAIN name :
       Certain(name[i]) \/ Certain(other[i]) => name[i] = other[i]

OwnCharacter ==
  \A h \in Handlers : pc[h] = "returning" => Alike(req[h].name, req[h].result.of)
=============================================================================
