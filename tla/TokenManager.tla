---------------------------- MODULE TokenManager ----------------------------
(***************************************************************************)
(* The life of the OAuth tokens: auth.Manager (internal/auth/manager.go)   *)
(* in every process that shares a token file, the seeding of the file when *)
(* the server boots (cmd/poefissure-server/main.go), the login and logout  *)
(* commands (cmd/poefissure/main.go), the token file step by step          *)
(* (TokenFile), and the token endpoint, which is external: it answers a    *)
(* live refresh token with a new access token and may rotate, keep or omit *)
(* the refresh token.  AccessToken holds the manager's mutex throughout,   *)
(* across the request to the endpoint and the save.                        *)
(***************************************************************************)
EXTENDS TokenFile

CONSTANTS Threads,    \* goroutines and commands
          Owner,      \* the process each belongs to
          Servers,    \* the processes that seed the file when they boot
          Seed,       \* GGG_REFRESH_TOKEN
          Replies,    \* what the endpoint does: a subset of {"rotate", "keep", "omit"}
          Exclusive,  \* do the processes run one at a time?
          Unavailable, Revoked,  \* its refusals
          MaxMishaps, \* bound: kills, lost replies, failing loads and saves
          MaxGrants   \* bound: tokens issued; later requests find it unavailable

(* A token, as far as the manager looks at it; 0 is the empty string.      *)
NoToken == [access |-> 0, refresh |-> 0]

ASSUME TokensAssumption == Tokens = [access : 0..MaxGrants, refresh : 0..Seed]
ASSUME OwnerAssumption == (\A t \in Threads : Owner[t] \in Procs) /\ Servers \subseteq Procs
ASSUME SeedAssumption == MaxGrants \in Nat /\ Seed = MaxGrants + 1 /\ MaxMishaps \in Nat
ASSUME RepliesAssumption ==
  /\ Replies \subseteq {"rotate", "keep", "omit"}
  /\ Unavailable # Revoked /\ {Unavailable, Revoked} \cap Tokens = {}
  /\ None \notin Threads

(* A command is a process of one goroutine.                                *)
ASSUME CommandsAssumption ==
  \A s, t \in Threads : Owner[s] = Owner[t] /\ Owner[s] \notin Servers => s = t

VARIABLES up,          \* whether each process is down, seeding the file, or up
          mem,         \* Manager.tok of each process
          mutex,       \* the thread that holds Manager.mu, or None
          pc,          \* where each thread is
          pending,     \* the token a thread is about to save
          reply,       \* the endpoint's reply to a thread
          live,        \* refresh tokens the endpoint accepts
          issued,      \* tokens issued so far
          expired,     \* access tokens that expired
          superseded,  \* history: refresh tokens whose successor a running process has received
          omitted,     \* history: access tokens that came without a refresh token
          misread,     \* history: servers that seed the file because reading it failed
          mishaps      \* kills, lost replies, failed loads and saves so far

threadVars == <<mutex, pc, pending, reply>>
endpoint == <<live, issued>>
histories == <<superseded, omitted, misread>>
ghosts == <<histories, mishaps>>
vars == <<fileVars, up, mem, threadVars, endpoint, expired, ghosts>>

Init ==
  /\ FileInit
  /\ path \in {Absent, [access |-> 0, refresh |-> Seed]}
  /\ tmp = Absent
  /\ up = [p \in Procs |-> "down"]
  /\ mem = [p \in Procs |-> NoToken]
  /\ mutex = [p \in Procs |-> None]
  /\ pc = [t \in Threads |-> "idle"]
  /\ pending = [t \in Threads |-> NoToken]
  /\ reply = [t \in Threads |-> None]
  /\ live = {Seed}
  /\ issued = 0
  /\ expired = {0}
  /\ superseded = [p \in Procs |-> {}]
  /\ omitted = {} /\ misread = {}
  /\ mishaps = 0

----------------------------------------------------------------------------
(* What can go wrong outside the program.                                  *)
Mishap == mishaps < MaxMishaps /\ mishaps' = mishaps + 1

(* Processes.                                                              *)
AlwaysSeeds(p) == p \in Servers               \* mutant
NeedsSeed(p) == p \in Servers /\ ~Loadable

(* serve: a file that cannot be loaded, for whatever reason, is replaced   *)
(* by the seed.                                                            *)
Boot(p) ==
  /\ up[p] = "down"
  /\ Exclusive => \A q \in Procs : up[q] = "down"
  /\ up' = [up EXCEPT ![p] = IF NeedsSeed(p) THEN "seeding" ELSE "up"]
  /\ UNCHANGED <<fileVars, mem, threadVars, endpoint, expired, ghosts>>
Misread(p) ==
  /\ up[p] = "down" /\ p \in Servers /\ Loadable
  /\ Exclusive => \A q \in Procs : up[q] = "down"
  /\ Mishap
  /\ up' = [up EXCEPT ![p] = "seeding"]
  /\ misread' = misread \cup {p}
  /\ UNCHANGED <<fileVars, mem, threadVars, endpoint, expired, superseded, omitted>>

(* The server does not start without a seed, or when it cannot be saved.   *)
SeedStep(p) ==
  /\ up[p] = "seeding"
  /\ \/ OpenTmp(p, [access |-> 0, refresh |-> Seed]) /\ UNCHANGED <<up, misread, mishaps>>
     \/ WriteTmp(p) /\ UNCHANGED <<up, misread, mishaps>>
     \/ RenameTmp(p) /\ up' = [up EXCEPT ![p] = "up"] /\ misread' = misread \ {p} /\ UNCHANGED mishaps
     \/ /\ stage[p] = "none" /\ UNCHANGED <<fileVars, mishaps>>
        /\ up' = [up EXCEPT ![p] = "down"] /\ misread' = misread \ {p}
     \/ /\ Mishap /\ SaveFails(p)
        /\ up' = [up EXCEPT ![p] = "down"] /\ misread' = misread \ {p}
  /\ UNCHANGED <<mem, threadVars, endpoint, expired, superseded, omitted>>

(* A process ends, and with it everything it had in memory.                *)
Vanish(p) ==
  /\ up' = [up EXCEPT ![p] = "down"]
  /\ mem' = [mem EXCEPT ![p] = NoToken]
  /\ mutex' = [mutex EXCEPT ![p] = None]
  /\ pc' = [t \in Threads |-> IF Owner[t] = p THEN "idle" ELSE pc[t]]
  /\ pending' = [t \in Threads |-> IF Owner[t] = p THEN NoToken ELSE pending[t]]
  /\ reply' = [t \in Threads |-> IF Owner[t] = p THEN None ELSE reply[t]]
  /\ superseded' = [superseded EXCEPT ![p] = {}]
  /\ misread' = misread \ {p}
  /\ UNCHANGED <<endpoint, expired, omitted>>

Exit(p) ==
  /\ up[p] = "up"
  /\ \A t \in Threads : Owner[t] = p => pc[t] = "idle"
  /\ Vanish(p)
  /\ UNCHANGED <<fileVars, mishaps>>

Kill(p) ==
  /\ up[p] # "down"
  /\ Mishap
  /\ Vanish(p)
  /\ IF stage[p] = "none" THEN UNCHANGED fileVars ELSE Die(p)

(* A minute before its expiry a token counts as expired; the last token of *)
(* a bounded behaviour stays fresh.                                        *)
Expire(a) ==
  /\ a \in 1..issued /\ a < MaxGrants
  /\ a \notin expired
  /\ expired' = expired \cup {a}
  /\ UNCHANGED <<fileVars, up, mem, threadVars, endpoint, ghosts>>

----------------------------------------------------------------------------
(* AccessToken.                                                            *)
Call(t) ==
  /\ pc[t] = "idle" /\ up[Owner[t]] = "up"
  /\ pc' = [pc EXCEPT ![t] = "locking"]
  /\ UNCHANGED <<fileVars, up, mem, mutex, pending, reply, endpoint, expired, ghosts>>

Lock(t) ==
  /\ pc[t] = "locking"
  /\ mutex[Owner[t]] = None
  /\ mutex' = [mutex EXCEPT ![Owner[t]] = t]
  /\ pc' = [pc EXCEPT ![t] = "checking"]
  /\ UNCHANGED <<fileVars, up, mem, pending, reply, endpoint, expired, ghosts>>

ReturnKeepingLock(t) ==  \* mutant: an early return without the unlock
  /\ pc' = [pc EXCEPT ![t] = "idle"]
  /\ pending' = [pending EXCEPT ![t] = NoToken]
  /\ reply' = [reply EXCEPT ![t] = None]
  /\ UNCHANGED mutex

(* Every return releases the mutex and drops the locals.                   *)
Return(t) ==
  /\ pc' = [pc EXCEPT ![t] = "idle"]
  /\ mutex' = [mutex EXCEPT ![Owner[t]] = IF @ = t THEN None ELSE @]
  /\ pending' = [pending EXCEPT ![t] = NoToken]
  /\ reply' = [reply EXCEPT ![t] = None]

(* The store is consulted only while no access token is in memory.         *)
MustLoad(t) == mem[Owner[t]].access = 0
KnownUnchecked(t) == IF MustLoad(t) THEN path ELSE mem[Owner[t]]  \* mutant
Known(t) == IF MustLoad(t) /\ Loadable THEN path ELSE mem[Owner[t]]

(* Nothing loaded, a fresh access token, no refresh token: AccessToken     *)
(* returns without a request.                                              *)
Settled(t) ==
  \/ MustLoad(t) /\ ~Loadable
  \/ Known(t).access \notin expired
  \/ Known(t).refresh = 0

Check(t) ==
  /\ pc[t] = "checking"
  /\ mem' = [mem EXCEPT ![Owner[t]] = Known(t)]
  /\ IF Settled(t)
     THEN Return(t)
     ELSE /\ pc' = [pc EXCEPT ![t] = "asking"]
          /\ UNCHANGED <<mutex, pending, reply>>
  /\ UNCHANGED <<fileVars, up, endpoint, expired, ghosts>>

CheckFails(t) ==  \* the file is there, but reading it fails
  /\ pc[t] = "checking" /\ MustLoad(t) /\ Loadable
  /\ Mishap
  /\ Return(t)
  /\ UNCHANGED <<fileVars, up, mem, endpoint, expired, histories>>

(* The endpoint's side: a grant, which may revoke the token presented.     *)
Granted(r, how) ==
  [access |-> issued + 1,
   refresh |-> CASE how = "rotate" -> issued + 1 [] how = "keep" -> r [] how = "omit" -> 0]

Ask(t) ==
  LET r == mem[Owner[t]].refresh IN
  /\ pc[t] = "asking"
  /\ pc' = [pc EXCEPT ![t] = "asked"]
  /\ \/ /\ r \in live /\ issued < MaxGrants
        /\ \E how \in Replies :
             /\ reply' = [reply EXCEPT ![t] = Granted(r, how)]
             /\ live' = IF how = "rotate" THEN (live \ {r}) \cup {issued + 1} ELSE live
             /\ omitted' = IF how = "omit" THEN omitted \cup {issued + 1} ELSE omitted
        /\ issued' = issued + 1
     \/ /\ reply' = [reply EXCEPT ![t] = IF r \in live THEN Unavailable ELSE Revoked]
        /\ UNCHANGED <<endpoint, omitted>>
  /\ UNCHANGED <<fileVars, up, mem, mutex, pending, expired, superseded, misread, mishaps>>

AdoptOnDiskOnly(t) ==  \* mutant: memory keeps the old token
  /\ pending' = [pending EXCEPT ![t] = reply[t]]
  /\ UNCHANGED mem

AdoptSavingOld(t) ==   \* mutant: the old token is saved
  /\ mem' = [mem EXCEPT ![Owner[t]] = reply[t]]
  /\ pending' = [pending EXCEPT ![t] = mem[Owner[t]]]

(* The manager adopts the new token before it is saved.                    *)
Adopt(t) ==
  /\ mem' = [mem EXCEPT ![Owner[t]] = reply[t]]
  /\ pending' = [pending EXCEPT ![t] = reply[t]]

Receive(t) ==
  /\ pc[t] = "asked" /\ reply[t] \in Tokens
  /\ Adopt(t)
  /\ pc' = [pc EXCEPT ![t] = "saving"]
  /\ superseded' =
       [superseded EXCEPT ![Owner[t]] = @ \cup ({mem[Owner[t]].refresh} \ {reply[t].refresh})]
  /\ UNCHANGED <<fileVars, up, mutex, reply, endpoint, expired, omitted, misread, mishaps>>

Refused(t) ==
  /\ pc[t] = "asked" /\ reply[t] \notin Tokens
  /\ Return(t)
  /\ UNCHANGED <<fileVars, up, mem, endpoint, expired, ghosts>>

(* The reply is lost on the way, or comes after the HTTP client's timeout. *)
Lose(t) ==
  /\ pc[t] = "asked"
  /\ Mishap
  /\ Return(t)
  /\ UNCHANGED <<fileVars, up, mem, endpoint, expired, histories>>

SaveStep(t) ==
  LET p == Owner[t] IN
  /\ pc[t] = "saving"
  /\ \/ OpenTmp(p, pending[t]) /\ UNCHANGED <<threadVars, mishaps>>
     \/ WriteTmp(p) /\ UNCHANGED <<threadVars, mishaps>>
     \/ RenameTmp(p) /\ Return(t) /\ UNCHANGED mishaps
     \/ SaveFails(p) /\ tmp = Absent /\ stage[p] = "written" /\ Return(t) /\ UNCHANGED mishaps
     \/ SaveFails(p) /\ Mishap /\ Return(t)
     \/ stage[p] = "none" /\ Mishap /\ Return(t) /\ UNCHANGED fileVars
  /\ UNCHANGED <<up, mem, endpoint, expired, histories>>

(* auth login and auth logout are commands of their own: their process has *)
(* not used its manager, and they do not touch it.                         *)
FreshCommand(t) ==
  /\ pc[t] = "idle" /\ up[Owner[t]] = "up" /\ Owner[t] \notin Servers
  /\ mem[Owner[t]] = NoToken

(* login obtains a token through the browser and saves it.                 *)
Login(t) ==
  /\ FreshCommand(t)
  /\ issued < MaxGrants
  /\ issued' = issued + 1
  /\ live' = live \cup {issued'}
  /\ pending' = [pending EXCEPT ![t] = [access |-> issued', refresh |-> issued']]
  /\ pc' = [pc EXCEPT ![t] = "saving"]
  /\ UNCHANGED <<fileVars, up, mem, mutex, reply, expired, ghosts>>

Logout(t) ==
  /\ FreshCommand(t)
  /\ Clear
  /\ UNCHANGED <<up, mem, threadVars, endpoint, expired, ghosts>>

Next ==
  \/ \E p \in Procs : Boot(p) \/ Misread(p) \/ SeedStep(p) \/ Exit(p) \/ Kill(p)
  \/ \E a \in 1..MaxGrants : Expire(a)
  \/ \E t \in Threads :
       \/ Call(t) \/ Lock(t) \/ Check(t) \/ CheckFails(t) \/ Ask(t)
       \/ Receive(t) \/ Refused(t) \/ Lose(t) \/ SaveStep(t)
       \/ Login(t) \/ Logout(t)

Spec == Init /\ [][Next]_vars

(* Threads that can run do; the endpoint answers or the HTTP client times  *)
(* out; and Go's mutex is handed over in the end (its starvation mode).    *)
Proceed(t) ==
  Check(t) \/ CheckFails(t) \/ Ask(t) \/ Receive(t) \/ Refused(t) \/ Lose(t) \/ SaveStep(t)

FairSpec == Spec /\ \A t \in Threads : WF_vars(Proceed(t)) /\ SF_vars(Lock(t))

----------------------------------------------------------------------------
Location == {"idle", "locking", "checking", "asking", "asked", "saving"}

(* The types of the manager's and the endpoint's state (Manager,           *)
(* manager.go:12-18).                                                      *)
TypeOK ==
  /\ FileTypeOK
  /\ up \in [Procs -> {"down", "seeding", "up"}]
  /\ mem \in [Procs -> Tokens]
  /\ mutex \in [Procs -> Threads \cup {None}]
  /\ pc \in [Threads -> Location]
  /\ pending \in [Threads -> Tokens]
  /\ \A t \in Threads : reply[t] \in Tokens \cup {None, Unavailable, Revoked}
  /\ live \subseteq 1..Seed /\ issued \in 0..MaxGrants
  /\ expired \subseteq 0..MaxGrants /\ superseded \in [Procs -> SUBSET (0..Seed)]
  /\ omitted \subseteq 1..MaxGrants /\ misread \subseteq Procs
  /\ mishaps \in 0..MaxMishaps

(* A refresh token is never presented again once its successor has been    *)
(* received, even when the successor could not be saved: memory moves on   *)
(* before the disk does (AccessToken, manager.go:43-50).                   *)
NoReplay ==
  [][\A t \in Threads : Ask(t) => mem[Owner[t]].refresh \notin superseded[Owner[t]]]_vars

(* When the endpoint says a refresh token is revoked, no live one lies     *)
(* unused in the token file: "transparently refreshes it when expired"     *)
(* (manager.go:10-11).                                                     *)
RefusedForGood ==
  \A t \in Threads : pc[t] = "asked" /\ reply[t] = Revoked =>
    ~ (Loadable /\ path.refresh \in live)

(* As long as no reply was lost, no load or save failed and nothing was    *)
(* killed, the file holds, between refreshes, a token that can be          *)
(* refreshed, or the seed, so a process that starts then can go on; but    *)
(* not after a refresh that brought no refresh token, for the old one is   *)
(* overwritten all the same (AccessToken, manager.go:25-52).  The seed     *)
(* itself may be a used one: after a logout it is put there again.         *)
StoredIsLive ==
  mishaps = 0 /\ (\A t \in Threads : pc[t] \notin {"asked", "saving"}) /\ Loadable
    => path.refresh \in live \cup {Seed} \/ path.access \in omitted

(* "An existing token file wins" over the seed (main.go:90-102): a         *)
(* complete token in the file is replaced by the seed only when the server *)
(* failed to read it, which main.go:93 takes for a missing one.            *)
ExistingFileWins ==
  [][\A p \in Procs : SeedStep(p) /\ path \in Tokens => path' = path \/ p \in misread]_vars

(* Every AccessToken and every login returns, however the calls of a       *)
(* process queue behind the one that holds the mutex during a refresh      *)
(* (manager.go:26-52).                                                     *)
CallReturns == \A t \in Threads : pc[t] # "idle" ~> pc[t] = "idle"
=============================================================================
