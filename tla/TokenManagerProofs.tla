------------------------- MODULE TokenManagerProofs -------------------------
(***************************************************************************)
(* Proofs about TokenManager: what holds however many processes share the  *)
(* token file, what the token file by itself promises where one process    *)
(* writes it, and what holds where the processes run one at a time.        *)
(***************************************************************************)
EXTENDS TokenManager, TLAPS

Refusal == {None, Unavailable, Revoked}

FileTypes ==
  /\ FileTypeOK
  /\ \A p \in Procs : stage[p] # "none" => saving[p] \in Tokens

Types ==
  /\ TypeOK /\ FileTypes
  /\ reply \in [Threads -> Tokens \cup Refusal]

----------------------------------------------------------------------------
(* For any number of processes.                                            *)

(* Where a thread has the mutex, or is a command's only one.               *)
Busy(t) == pc[t] \in {"checking", "asking", "asked", "saving"}

Locking ==
  \A t \in Threads :
    /\ pc[t] # "idle" => up[Owner[t]] = "up"
    /\ Busy(t) /\ Owner[t] \in Servers => mutex[Owner[t]] = t

(* Refresh tokens that exist.                                              *)
Numbered(n) == n \in 0..issued \cup {Seed}

FileNumbered ==
  /\ path \in Tokens => Numbered(path.refresh)
  /\ tmp \in Tokens => Numbered(tmp.refresh)
  /\ \A p \in Procs : saving[p] \in Tokens => Numbered(saving[p].refresh)

NumberedInv ==
  /\ FileNumbered
  /\ \A p \in Procs : /\ Numbered(mem[p].refresh)
                      /\ \A n \in superseded[p] : Numbered(n)
  /\ \A t \in Threads : /\ Numbered(pending[t].refresh)
                        /\ reply[t] \in Tokens => Numbered(reply[t].refresh)

(* A process that has received a token never loads again, and has no       *)
(* refresh token that it has replaced, nor is about to adopt one.          *)
Unreplaced(p, n) == n = 0 \/ n \notin superseded[p]

ReplayInv ==
  /\ \A p \in Procs :
       /\ up[p] # "up" => mem[p] = NoToken /\ superseded[p] = {}
       /\ superseded[p] # {} => mem[p].access # 0
       /\ Unreplaced(p, mem[p].refresh)
  /\ \A t \in Threads :
       /\ pc[t] \in {"asking", "asked"} => mem[Owner[t]].refresh # 0
       /\ pc[t] = "asked" /\ reply[t] \in Tokens =>
            reply[t].access # 0 /\ Unreplaced(Owner[t], reply[t].refresh)

IInv == Types /\ Locking /\ NumberedInv /\ ReplayInv

----------------------------------------------------------------------------
(* For processes that run one at a time.                                   *)
OneUp == \A p, q \in Procs : up[p] # "down" /\ up[q] # "down" => p = q

(* A save is one of a thread or of a server that boots, its file is whole  *)
(* once it is written, and its descriptor never points at what readers see.*)
SaveOK ==
  /\ path \in Tokens \cup {Absent}
  /\ \A p \in Procs :
       /\ stage[p] = "none" => saving[p] = None /\ handle[p] = "closed"
       /\ stage[p] = "opened" => saving[p] \in Tokens /\ handle[p] = "tmp" /\ tmp = Empty
       /\ stage[p] = "written" => saving[p] \in Tokens /\ handle[p] = "closed" /\ tmp = saving[p]

Saver(p, t) == Owner[t] = p /\ pc[t] = "saving" /\ saving[p] = pending[t]

Savers ==
  \A p \in Procs :
    /\ up[p] = "down" => stage[p] = "none"
    /\ up[p] = "seeding" =>
         /\ ~Loadable \/ p \in misread
         /\ stage[p] # "none" => saving[p] = [access |-> 0, refresh |-> Seed]
    /\ up[p] = "up" /\ stage[p] # "none" => \E t \in Threads : Saver(p, t)

WriterInv == SaveOK /\ Savers

(* A live token in the file is the one in memory, or memory has none to    *)
(* present; so with the one that is on its way to memory.                  *)
InFile(n) == Loadable /\ path.refresh \in live => n \in {0, path.refresh}

FileInv ==
  /\ \A p \in Procs : up[p] = "up" => InFile(mem[p].refresh)
  /\ \A t \in Threads :
       /\ pc[t] = "asked" /\ reply[t] \in Tokens => InFile(reply[t].refresh)
       /\ pc[t] = "asked" /\ reply[t] = Revoked => mem[Owner[t]].refresh \notin live
       /\ pc[t] = "saving" => mem[Owner[t]].refresh \in {0, pending[t].refresh}

(* What the file will hold in the end can be refreshed, or is the seed, or *)
(* came without a refresh token.                                           *)
Lasting(k) == k.refresh \in live \cup {Seed} \/ k.access \in omitted
Delivers(t) == pc[t] = "saving" \/ (pc[t] = "asked" /\ reply[t] \in Tokens)

Lasts ==
  /\ Loadable /\ (\A t \in Threads : ~Delivers(t)) => Lasting(path)
  /\ \A t \in Threads : /\ pc[t] = "saving" => Lasting(pending[t])
                        /\ pc[t] = "asked" /\ reply[t] \in Tokens => Lasting(reply[t])

LastingInv == mishaps = 0 => Lasts

XInv == IInv /\ OneUp /\ WriterInv /\ FileInv /\ LastingInv

----------------------------------------------------------------------------
(* The tokens of the model.                                                *)
LEMMA TokenTypes ==
  /\ MaxGrants \in Nat /\ Seed \in Nat /\ MaxGrants < Seed
  /\ NoToken \in Tokens /\ [access |-> 0, refresh |-> Seed] \in Tokens
  /\ \A k \in Tokens : k.access \in 0..MaxGrants /\ k.refresh \in 0..Seed
  /\ \A a \in 0..MaxGrants, n \in 0..Seed : [access |-> a, refresh |-> n] \in Tokens
<1>1. MaxGrants \in Nat /\ Seed = MaxGrants + 1
  BY SeedAssumption
<1>2. 0 \in 0..MaxGrants /\ 0 \in 0..Seed /\ Seed \in 0..Seed /\ MaxGrants < Seed /\ Seed \in Nat
  BY <1>1
<1> QED
  BY <1>1, <1>2, TokensAssumption DEF NoToken

LEMMA TypesInitially == Init => Types
<1> SUFFICES ASSUME Init PROVE Types
  OBVIOUS
<1>1. FileTypes /\ FileTypeOK
  BY TokenTypes DEF Init, FileInit, FileTypes, FileTypeOK, Contents
<1>2. MaxMishaps \in Nat
  BY SeedAssumption
<1> QED
  BY <1>1, <1>2, TokenTypes DEF Init, Types, TypeOK, Refusal, Location

(* The file's steps keep the file's types.                                 *)
LEMMA FileTyped ==
  ASSUME FileTypes, NEW p \in Procs
  PROVE  /\ \A t \in Tokens : OpenTmp(p, t) => FileTypes'
         /\ WriteTmp(p) => FileTypes'
         /\ RenameTmp(p) => FileTypes'
         /\ SaveFails(p) => FileTypes'
         /\ Die(p) => FileTypes'
         /\ Clear => FileTypes'
         /\ UNCHANGED fileVars => FileTypes'
<1> USE DEF FileTypes, FileTypeOK, Contents
<1>1. \A t \in Tokens : OpenTmp(p, t) => FileTypes'
  BY DEF OpenTmp
<1>2. WriteTmp(p) => FileTypes'
  <2> SUFFICES ASSUME WriteTmp(p) PROVE FileTypes'
    OBVIOUS
  <2>1. saving[p] \in Tokens
    BY DEF WriteTmp
  <2> QED
    BY <2>1 DEF WriteTmp, Written
<1>3. RenameTmp(p) => FileTypes'
  BY DEF RenameTmp, Release, Followed
<1>4. SaveFails(p) => FileTypes'
  BY DEF SaveFails, Release
<1>5. Die(p) => FileTypes'
  BY DEF Die, Release
<1>6. Clear => FileTypes'
  BY DEF Clear
<1>7. UNCHANGED fileVars => FileTypes'
  BY DEF fileVars
<1> QED
  BY <1>1, <1>2, <1>3, <1>4, <1>5, <1>6, <1>7

(* What the endpoint grants.                                               *)
LEMMA GrantedTyped ==
  ASSUME Types, NEW t \in Threads, issued < MaxGrants, NEW how \in Replies
  PROVE  Granted(mem[Owner[t]].refresh, how) \in Tokens
<1>1. mem[Owner[t]] \in Tokens
  BY OwnerAssumption DEF Types, TypeOK
<1>2. issued + 1 \in 0..MaxGrants /\ issued + 1 \in 0..Seed /\ 0 \in 0..Seed
      /\ mem[Owner[t]].refresh \in 0..Seed
  BY <1>1, TokenTypes DEF Types, TypeOK
<1>3. CASE how = "rotate"
  BY <1>2, <1>3, TokenTypes DEF Granted
<1>4. CASE how = "keep"
  BY <1>2, <1>4, TokenTypes DEF Granted
<1>5. CASE how = "omit"
  BY <1>2, <1>5, TokenTypes DEF Granted
<1> QED
  BY <1>3, <1>4, <1>5, RepliesAssumption

(* The steps keep the types.                                               *)
LEMMA TypesStep == Types /\ [Next]_vars => Types'
<1> SUFFICES ASSUME Types, [Next]_vars PROVE Types'
  OBVIOUS
<1> USE DEF Types, TypeOK, Location, Refusal
<1>0. FileTypes /\ FileTypeOK /\ (FileTypes' => FileTypeOK') /\ NoToken \in Tokens
  BY TokenTypes DEF FileTypes
<1>m. ASSUME Mishap PROVE mishaps' \in 0..MaxMishaps
  BY <1>m, SeedAssumption DEF Mishap
<1>1. ASSUME NEW p \in Procs, Boot(p) \/ Misread(p) PROVE Types'
  <2>1. FileTypes'
    BY <1>0, <1>1, FileTyped DEF Boot, Misread
  <2>2. mishaps' \in 0..MaxMishaps /\ misread' \subseteq Procs
        /\ UNCHANGED <<superseded, omitted>>
    BY <1>1, <1>m DEF Boot, Misread, ghosts, histories
  <2> QED
    BY <1>0, <1>1, <2>1, <2>2 DEF Boot, Misread, threadVars, endpoint
<1>2. ASSUME NEW p \in Procs, SeedStep(p) PROVE Types'
  <2>1. FileTypes'
    BY <1>0, <1>2, FileTyped, TokenTypes DEF SeedStep
  <2>2. mishaps' \in 0..MaxMishaps /\ misread' \subseteq Procs
        /\ up' \in [Procs -> {"down", "seeding", "up"}]
    BY <1>2, <1>m DEF SeedStep
  <2> QED
    BY <1>0, <1>2, <2>1, <2>2 DEF SeedStep, threadVars, endpoint
<1>3. ASSUME NEW p \in Procs, Exit(p) \/ Kill(p) PROVE Types'
  <2>1. FileTypes'
    BY <1>0, <1>3, FileTyped DEF Exit, Kill
  <2>2. mishaps' \in 0..MaxMishaps
    BY <1>3, SeedAssumption DEF Exit, Kill, Mishap
  <2>3. Vanish(p)
    BY <1>3 DEF Exit, Kill
  <2>4. pc' \in [Threads -> Location] /\ pending' \in [Threads -> Tokens]
        /\ reply' \in [Threads -> Tokens \cup Refusal]
    BY <1>0, <2>3 DEF Vanish
  <2>5. up' \in [Procs -> {"down", "seeding", "up"}] /\ mem' \in [Procs -> Tokens]
        /\ mutex' \in [Procs -> Threads \cup {None}]
        /\ superseded' \in [Procs -> SUBSET (0..Seed)] /\ misread' \subseteq Procs
        /\ UNCHANGED <<live, issued, expired, omitted>>
    BY <1>0, <2>3 DEF Vanish, endpoint
  <2> QED
    BY <1>0, <2>1, <2>2, <2>4, <2>5
<1>4. ASSUME NEW a \in 1..MaxGrants, Expire(a) PROVE Types'
  <2>1. FileTypes' \/ Procs = {}
    BY <1>0, <1>4, FileTyped DEF Expire
  <2>2. FileTypes'
    BY <1>0, <1>4 DEF Expire, fileVars, FileTypes, FileTypeOK
  <2> QED
    BY <1>0, <1>4, <2>2 DEF Expire, threadVars, endpoint, ghosts, histories
<1>5. ASSUME NEW t \in Threads,
             \/ Call(t) \/ Lock(t) \/ Check(t) \/ Ask(t) \/ Receive(t) \/ CheckFails(t) \/ Refused(t) \/ Lose(t)
             \/ SaveStep(t) \/ Login(t) \/ Logout(t)
      PROVE  Types'
  <2>1. Owner[t] \in Procs
    BY OwnerAssumption
  <2>2. FileTypes'
    BY <1>0, <1>5, <2>1, FileTyped
       DEF Call, Lock, Check, Ask, Receive, CheckFails, Refused, Lose, SaveStep, Login, Logout
  <2>3. CASE Call(t) \/ Lock(t)
    BY <1>0, <2>1, <2>2, <2>3 DEF Call, Lock, endpoint, ghosts, histories
  <2>4. CASE Check(t)
    <3>1. Known(t) \in Tokens
      BY <2>1 DEF Known, Loadable
    <3> QED
      BY <1>0, <2>1, <2>2, <2>4, <3>1 DEF Check, Return, endpoint, ghosts, histories
  <2>5. CASE Ask(t)
    <3>1. mem[Owner[t]] \in Tokens
      BY <2>1
    <3>2. \A how \in Replies :
            issued < MaxGrants => Granted(mem[Owner[t]].refresh, how) \in Tokens
      BY GrantedTyped
    <3>3. reply' \in [Threads -> Tokens \cup Refusal]
      BY <2>5, <3>2 DEF Ask
    <3>4. live' \subseteq 1..Seed /\ issued' \in 0..MaxGrants
      <4>1. issued < MaxGrants => issued + 1 \in 1..Seed /\ issued + 1 \in 0..MaxGrants
        BY SeedAssumption
      <4>2. CASE UNCHANGED endpoint
        BY <4>2 DEF endpoint
      <4>3. CASE /\ issued < MaxGrants /\ issued' = issued + 1
                 /\ live' \in {live, (live \ {mem[Owner[t]].refresh}) \cup {issued + 1}}
        BY <4>1, <4>3
      <4> QED
        BY <2>5, <4>2, <4>3 DEF Ask
    <3>5. pc' \in [Threads -> Location]
      BY <2>5 DEF Ask
    <3>6. omitted' \subseteq 1..MaxGrants
      <4>1. issued < MaxGrants => issued + 1 \in 1..MaxGrants
        BY SeedAssumption
      <4>2. omitted' = omitted \/ (issued < MaxGrants /\ omitted' = omitted \cup {issued + 1})
        BY <2>5 DEF Ask
      <4> QED
        BY <4>1, <4>2
    <3> QED
      BY <1>0, <2>2, <2>5, <3>3, <3>4, <3>5, <3>6 DEF Ask
  <2>6. CASE Receive(t)
    <3>1. /\ mem[Owner[t]].refresh \in 0..Seed /\ reply[t] \in Tokens
      BY <2>1, <2>6, TokenTypes DEF Receive
    <3> QED
      <4>1. superseded' \in [Procs -> SUBSET (0..Seed)]
        BY <2>1, <2>6, <3>1 DEF Receive
      <4>2. mem' \in [Procs -> Tokens] /\ pending' \in [Threads -> Tokens]
            /\ pc' \in [Threads -> Location]
        BY <2>1, <2>6, <3>1 DEF Receive, Adopt
      <4> QED
        BY <1>0, <2>2, <2>6, <4>1, <4>2 DEF Receive, endpoint
  <2>7. CASE CheckFails(t) \/ Refused(t) \/ Lose(t) \/ SaveStep(t)
    <3>1. mishaps' \in 0..MaxMishaps
      <4>1. mishaps' = mishaps \/ Mishap
        BY <2>7 DEF CheckFails, Refused, Lose, SaveStep, ghosts, histories
      <4> QED
        BY <4>1, SeedAssumption DEF Mishap
    <3>2. Return(t) \/ UNCHANGED threadVars
      BY <2>7 DEF CheckFails, Refused, Lose, SaveStep, histories
    <3>3. /\ pc' \in [Threads -> Location] /\ pending' \in [Threads -> Tokens]
          /\ reply' \in [Threads -> Tokens \cup Refusal]
          /\ mutex' \in [Procs -> Threads \cup {None}]
      BY <1>0, <2>1, <3>2 DEF Return, threadVars
    <3> QED
      BY <1>0, <2>2, <2>7, <3>1, <3>3 DEF CheckFails, Refused, Lose, SaveStep, endpoint, ghosts, histories
  <2>8. CASE Login(t)
    <3>1. issued' \in 0..Seed /\ issued' \in 1..Seed /\ issued' \in 0..MaxGrants
      BY <2>8, SeedAssumption DEF Login
    <3>2. [access |-> issued', refresh |-> issued'] \in Tokens
      BY <3>1, TokenTypes
    <3> QED
      BY <1>0, <2>2, <2>8, <3>1, <3>2 DEF Login, ghosts, histories
  <2>9. CASE Logout(t)
    BY <1>0, <2>2, <2>9 DEF Logout, threadVars, endpoint, ghosts, histories
  <2> QED
    BY <1>5, <2>3, <2>4, <2>5, <2>6, <2>7, <2>8, <2>9
<1>6. CASE UNCHANGED vars
  BY <1>0, <1>6 DEF vars, fileVars, threadVars, endpoint, ghosts, histories, FileTypes, FileTypeOK
<1> QED
  BY <1>1, <1>2, <1>3, <1>4, <1>5, <1>6 DEF Next

----------------------------------------------------------------------------
(* The token file by itself, with one process that writes it - which is    *)
(* what Manager's mutex makes of the goroutines of a process.              *)
(* The file's steps, while no other process saves: they keep the file, and *)
(* are steps of AtomicFile.                                                *)
LEMMA LoneSave ==
  ASSUME FileTypeOK, SaveOK, NEW p \in Procs, \A q \in Procs : q # p => stage[q] = "none"
  PROVE  /\ \A k \in Tokens : OpenTmp(p, k) => SaveOK' /\ Atomic!Begin(p)
         /\ WriteTmp(p) => SaveOK' /\ UNCHANGED Atomic!vars
         /\ RenameTmp(p) => SaveOK' /\ Atomic!Commit(p) /\ path' = saving[p]
         /\ SaveFails(p) => SaveOK' /\ Atomic!GiveUp(p)
         /\ Die(p) => SaveOK' /\ Atomic!GiveUp(p)
         /\ Clear => SaveOK' /\ Atomic!Remove
         /\ UNCHANGED fileVars => SaveOK' /\ UNCHANGED Atomic!vars
<1>0. /\ stage \in [Procs -> {"none", "opened", "written"}]
      /\ saving \in [Procs -> Tokens \cup {None}]
      /\ handle \in [Procs -> {"closed", "tmp", "path", "gone"}]
  BY DEF FileTypeOK
<1> USE <1>0, ContentsAssumption DEF SaveOK
<1>1. ASSUME NEW k \in Tokens, OpenTmp(p, k) PROVE SaveOK' /\ Atomic!Begin(p)
  BY <1>1 DEF OpenTmp, Atomic!Begin
<1>2. ASSUME WriteTmp(p) PROVE SaveOK' /\ UNCHANGED Atomic!vars
  BY <1>2 DEF WriteTmp, Written, Atomic!vars
<1>3. ASSUME RenameTmp(p) PROVE SaveOK' /\ Atomic!Commit(p) /\ path' = saving[p]
  BY <1>3 DEF RenameTmp, Release, Followed, Atomic!Commit
<1>4. ASSUME SaveFails(p) PROVE SaveOK' /\ Atomic!GiveUp(p)
  BY <1>4 DEF SaveFails, Release, Atomic!GiveUp
<1>5. ASSUME Die(p) PROVE SaveOK' /\ Atomic!GiveUp(p)
  BY <1>5 DEF Die, Release, Atomic!GiveUp
<1>6. ASSUME Clear PROVE SaveOK' /\ Atomic!Remove
  BY <1>6 DEF Clear, Atomic!Remove
<1>7. ASSUME UNCHANGED fileVars PROVE SaveOK' /\ UNCHANGED Atomic!vars
  BY <1>7 DEF fileVars, Atomic!vars
<1> QED
  BY <1>1, <1>2, <1>3, <1>4, <1>5, <1>6, <1>7

SingleWriter == \A p, q \in Procs : p = q

LEMMA SingleStep ==
  SingleWriter /\ FileTypes /\ SaveOK /\ [FileNext]_fileVars
    => FileTypes' /\ SaveOK' /\ [Atomic!Next]_(Atomic!vars)
<1> SUFFICES ASSUME SingleWriter, FileTypes, SaveOK, [FileNext]_fileVars
             PROVE  FileTypes' /\ SaveOK' /\ [Atomic!Next]_(Atomic!vars)
  OBVIOUS
<1>1. ASSUME NEW p \in Procs,
             \/ \E t \in Tokens : OpenTmp(p, t)
             \/ WriteTmp(p) \/ RenameTmp(p) \/ SaveFails(p) \/ Die(p) \/ Clear \/ UNCHANGED fileVars
      PROVE  FileTypes' /\ SaveOK' /\ [Atomic!Next]_(Atomic!vars)
  <2>1. FileTypeOK /\ \A q \in Procs : q # p => stage[q] = "none"
    BY DEF SingleWriter, FileTypes
  <2> QED
    BY <1>1, <2>1, LoneSave, FileTyped DEF Atomic!Next
<1>2. CASE Procs = {} /\ (Clear \/ UNCHANGED fileVars)
  BY <1>2, ContentsAssumption
     DEF FileTypes, FileTypeOK, Contents, SaveOK, Clear, fileVars, Atomic!Next, Atomic!Remove, Atomic!vars
<1> QED
  BY <1>1, <1>2 DEF FileNext

LEMMA FileInitially == FileInit => FileTypes /\ SaveOK /\ Atomic!Init
BY ContentsAssumption DEF FileInit, FileTypes, FileTypeOK, Contents, SaveOK, Atomic!Init

(* One process, whatever fails and whenever it dies: readers never find a  *)
(* partial token (Save, store.go:76-90).                                   *)
THEOREM FileNeverTorn == SingleWriter => (FileSpec => []NeverTorn)
<1> SUFFICES ASSUME SingleWriter PROVE FileSpec => []NeverTorn
  OBVIOUS
<1>1. SaveOK => NeverTorn
  BY DEF SaveOK, NeverTorn
<1> QED
  BY <1>1, FileInitially, SingleStep, PTL DEF FileSpec

(* With one process, Save is the atomic save its comment promises          *)
(* (store.go:76-90).                                                       *)
THEOREM FileImplementsAtomic == SingleWriter => (FileSpec => SavesAtomically)
<1> SUFFICES ASSUME SingleWriter PROVE FileSpec => SavesAtomically
  OBVIOUS
<1> QED
  BY FileInitially, SingleStep, PTL DEF FileSpec, SavesAtomically, Atomic!Spec

----------------------------------------------------------------------------
(* The mutex.  Two threads of a process are never busy at a time.          *)
LEMMA OneBusy ==
  ASSUME Locking, NEW s \in Threads, NEW t \in Threads, Busy(s), Busy(t), Owner[s] = Owner[t]
  PROVE  s = t
<1>1. CASE Owner[t] \in Servers
  BY <1>1 DEF Locking
<1>2. CASE Owner[t] \notin Servers
  BY <1>2, CommandsAssumption
<1> QED
  BY <1>1, <1>2

LEMMA LockingStep == Types /\ Locking /\ [Next]_vars => Locking'
<1> SUFFICES ASSUME Types, Locking, [Next]_vars PROVE Locking'
  OBVIOUS
<1> USE DEF Locking, Busy
<1>0. /\ pc \in [Threads -> Location] /\ mutex \in [Procs -> Threads \cup {None}]
      /\ up \in [Procs -> {"down", "seeding", "up"}]
      /\ \A t \in Threads : Owner[t] \in Procs
  BY OwnerAssumption DEF Types, TypeOK
<1>1. ASSUME NEW p \in Procs, Boot(p) \/ Misread(p) PROVE Locking'
  BY <1>0, <1>1 DEF Boot, Misread, threadVars
<1>2. ASSUME NEW p \in Procs, SeedStep(p) PROVE Locking'
  BY <1>0, <1>2 DEF SeedStep, threadVars
<1>3. ASSUME NEW p \in Procs, Exit(p) \/ Kill(p) PROVE Locking'
  <2>1. Vanish(p)
    BY <1>3 DEF Exit, Kill
  <2> QED
    BY <1>0, <2>1 DEF Vanish
<1>4. ASSUME NEW a \in 1..MaxGrants, Expire(a) PROVE Locking'
  BY <1>4 DEF Expire, threadVars
<1>5. ASSUME NEW t \in Threads, Call(t) PROVE Locking'
  BY <1>0, <1>5 DEF Call
<1>6. ASSUME NEW t \in Threads, Lock(t) PROVE Locking'
  BY <1>0, <1>6, RepliesAssumption DEF Lock
<1>7. ASSUME NEW t \in Threads, Return(t), UNCHANGED up PROVE Locking'
  BY <1>0, <1>7 DEF Return
<1>8. ASSUME NEW t \in Threads, Busy(t), Busy(t)', UNCHANGED <<up, mutex>>,
             \A s \in Threads : s # t => pc'[s] = pc[s]
      PROVE  Locking'
  BY <1>0, <1>8
<1>9. ASSUME NEW t \in Threads, Check(t) \/ Ask(t) \/ Receive(t) PROVE Locking'
  <2>1. CASE Check(t) /\ Settled(t)
    BY <2>1, <1>7 DEF Check
  <2>2. CASE Check(t) /\ ~Settled(t)
    BY <1>0, <2>2, <1>8 DEF Check
  <2>3. CASE Ask(t)
    BY <1>0, <2>3, <1>8 DEF Ask
  <2>4. CASE Receive(t)
    BY <1>0, <2>4, <1>8 DEF Receive
  <2> QED
    BY <1>9, <2>1, <2>2, <2>3, <2>4
<1>10. ASSUME NEW t \in Threads, CheckFails(t) \/ Refused(t) \/ Lose(t) \/ SaveStep(t) PROVE Locking'
  <2>1. (Return(t) \/ UNCHANGED threadVars) /\ UNCHANGED up
    BY <1>10 DEF CheckFails, Refused, Lose, SaveStep, histories
  <2>2. CASE UNCHANGED threadVars
    BY <2>1, <2>2 DEF threadVars
  <2> QED
    BY <2>1, <2>2, <1>7
<1>11. ASSUME NEW t \in Threads, Login(t) PROVE Locking'
  BY <1>0, <1>11 DEF Login, FreshCommand
<1>12. ASSUME NEW t \in Threads, Logout(t) PROVE Locking'
  BY <1>12 DEF Logout, threadVars
<1>13. CASE UNCHANGED vars
  BY <1>13 DEF vars, threadVars
<1> QED
  BY <1>1, <1>2, <1>3, <1>4, <1>5, <1>6, <1>9, <1>10, <1>11, <1>12, <1>13 DEF Next

----------------------------------------------------------------------------
(* The tokens that exist.  Those that did still do.                        *)
LEMMA StillNumbered ==
  ASSUME Types, [Next]_vars
  PROVE  issued' \in {issued, issued + 1} /\ \A n : Numbered(n) => Numbered(n)'
<1>1. issued' \in {issued, issued + 1}
  BY DEF Next, vars, Boot, Misread, SeedStep, Exit, Kill, Vanish, Expire, Call, Lock, Check, Ask, Receive,
         CheckFails, Refused, Lose, SaveStep, Login, Logout, endpoint
<1>2. issued \in Nat
  BY SeedAssumption DEF Types, TypeOK
<1> QED
  BY <1>1, <1>2 DEF Numbered

LEMMA FileStaysNumbered ==
  ASSUME FileTypes, FileNumbered, NEW p \in Procs, \A n : Numbered(n) => Numbered(n)'
  PROVE  /\ \A t \in Tokens : OpenTmp(p, t) /\ Numbered(t.refresh) => FileNumbered'
         /\ WriteTmp(p) => FileNumbered'
         /\ RenameTmp(p) => FileNumbered'
         /\ SaveFails(p) => FileNumbered'
         /\ Die(p) => FileNumbered'
         /\ Clear => FileNumbered'
         /\ UNCHANGED fileVars => FileNumbered'
<1> USE ContentsAssumption DEF FileTypes, FileTypeOK, FileNumbered
<1>1. ASSUME NEW t \in Tokens, OpenTmp(p, t), Numbered(t.refresh) PROVE FileNumbered'
  BY <1>1 DEF OpenTmp
<1>2. ASSUME WriteTmp(p) PROVE FileNumbered'
  BY <1>2 DEF WriteTmp, Written
<1>3. ASSUME RenameTmp(p) PROVE FileNumbered'
  BY <1>3 DEF RenameTmp, Release
<1>4. ASSUME SaveFails(p) PROVE FileNumbered'
  BY <1>4 DEF SaveFails, Release
<1>5. ASSUME Die(p) PROVE FileNumbered'
  BY <1>5 DEF Die, Release
<1>6. ASSUME Clear PROVE FileNumbered'
  BY <1>6 DEF Clear
<1>7. ASSUME UNCHANGED fileVars PROVE FileNumbered'
  BY <1>7 DEF fileVars
<1> QED
  BY <1>1, <1>2, <1>3, <1>4, <1>5, <1>6, <1>7

LEMMA NumberedStep == Types /\ NumberedInv /\ [Next]_vars => NumberedInv'
<1> SUFFICES ASSUME Types, NumberedInv, [Next]_vars PROVE NumberedInv'
  OBVIOUS
<1>0. /\ \A n : Numbered(n) => Numbered(n)'
      /\ issued \in Nat /\ issued' \in {issued, issued + 1}
      /\ FileTypes /\ FileNumbered
      /\ \A t \in Threads : Owner[t] \in Procs
  BY StillNumbered, OwnerAssumption, SeedAssumption DEF Types, TypeOK, NumberedInv
<1>a. /\ mem \in [Procs -> Tokens] /\ superseded \in [Procs -> SUBSET (0..Seed)]
      /\ pending \in [Threads -> Tokens] /\ reply \in [Threads -> Tokens \cup Refusal]
  BY DEF Types, TypeOK
<1>b. Numbered(0)' /\ Numbered(Seed)' /\ NoToken.refresh = 0
  BY <1>0 DEF Numbered, NoToken
<1>c. None \notin Tokens /\ Unavailable \notin Tokens /\ Revoked \notin Tokens
  BY ContentsAssumption, RepliesAssumption
<1> USE DEF NumberedInv
<1>1. ASSUME NEW p \in Procs, Boot(p) \/ Misread(p) PROVE NumberedInv'
  <2>1. FileNumbered'
    BY <1>0, <1>1, FileStaysNumbered DEF Boot, Misread
  <2> QED
    BY <1>0, <1>1, <2>1 DEF Boot, Misread, threadVars, ghosts, histories
<1>2. ASSUME NEW p \in Procs, SeedStep(p) PROVE NumberedInv'
  <2>1. FileNumbered'
    <3>1. Numbered([access |-> 0, refresh |-> Seed].refresh)
      BY DEF Numbered
    <3> QED
      BY <1>0, <1>2, <3>1, FileStaysNumbered, TokenTypes DEF SeedStep
  <2> QED
    BY <1>0, <1>2, <2>1 DEF SeedStep, threadVars
<1>3. ASSUME NEW p \in Procs, Exit(p) \/ Kill(p) PROVE NumberedInv'
  <2>1. FileNumbered'
    BY <1>0, <1>3, FileStaysNumbered DEF Exit, Kill
  <2>2. Vanish(p)
    BY <1>3 DEF Exit, Kill
  <2> QED
    BY <1>0, <1>a, <1>b, <1>c, <2>1, <2>2 DEF Vanish
<1>4. ASSUME NEW a \in 1..MaxGrants, Expire(a) PROVE NumberedInv'
  <2>1. FileNumbered'
    BY <1>0, <1>4 DEF Expire, fileVars, FileNumbered
  <2> QED
    BY <1>0, <1>4, <2>1 DEF Expire, threadVars, ghosts, histories
<1>5. ASSUME NEW t \in Threads, Call(t) \/ Lock(t) \/ Logout(t) PROVE NumberedInv'
  <2>1. FileNumbered'
    BY <1>0, <1>5, FileStaysNumbered DEF Call, Lock, Logout
  <2> QED
    BY <1>0, <1>5, <2>1 DEF Call, Lock, Logout, threadVars, ghosts, histories
<1>6. ASSUME NEW t \in Threads, Return(t)
      PROVE  \A s \in Threads : /\ Numbered(pending[s].refresh)'
                                /\ reply'[s] \in Tokens => Numbered(reply[s].refresh)'
  BY <1>0, <1>a, <1>b, <1>c, <1>6 DEF Return
<1>7. ASSUME NEW t \in Threads, Check(t) PROVE NumberedInv'
  <2>1. FileNumbered'
    BY <1>0, <1>7, FileStaysNumbered DEF Check
  <2>2. \A p \in Procs : Numbered(mem[p].refresh)'
    <3>1. Numbered(Known(t).refresh)
      BY <1>0 DEF Known, Loadable, FileNumbered
    <3> QED
      BY <1>0, <1>a, <1>7, <3>1 DEF Check
  <2>3. \A s \in Threads : /\ Numbered(pending[s].refresh)'
                           /\ reply'[s] \in Tokens => Numbered(reply[s].refresh)'
    BY <1>0, <1>6, <1>7 DEF Check
  <2> QED
    BY <1>0, <1>7, <2>1, <2>2, <2>3 DEF Check, ghosts, histories
<1>8. ASSUME NEW t \in Threads, Ask(t) PROVE NumberedInv'
  <2>1. FileNumbered'
    BY <1>0, <1>8, FileStaysNumbered DEF Ask
  <2>2. \A s \in Threads : reply'[s] \in Tokens => Numbered(reply[s].refresh)'
    <3>1. ASSUME NEW how \in Replies, issued' = issued + 1
          PROVE  Granted(mem[Owner[t]].refresh, how).refresh \in 0..issued' \cup {Seed}
      <4>1. mem[Owner[t]].refresh \in 0..issued' \cup {Seed}
        <5>1. Numbered(mem[Owner[t]].refresh)
          BY <1>0
        <5> QED
          BY <1>0, <3>1, <5>1 DEF Numbered
      <4>2. (issued + 1) \in 0..issued' /\ 0 \in 0..issued'
        BY <1>0, <3>1
      <4> QED
        BY <4>1, <4>2, RepliesAssumption DEF Granted
    <3>2. ASSUME NEW s \in Threads, reply'[s] \in Tokens
          PROVE  reply'[s].refresh \in 0..issued' \cup {Seed}
      <4>1. CASE s = t
        BY <1>a, <1>c, <1>8, <3>1, <3>2, <4>1 DEF Ask
      <4>2. CASE s # t
        <5>1. reply'[s] = reply[s]
          BY <1>a, <1>8, <4>2 DEF Ask
        <5> QED
          BY <1>0, <3>2, <5>1 DEF Numbered
      <4> QED
        BY <4>1, <4>2
    <3> QED
      BY <3>2 DEF Numbered
  <2> QED
    BY <1>0, <1>8, <2>1, <2>2 DEF Ask, ghosts, histories
<1>9. ASSUME NEW t \in Threads, Receive(t) PROVE NumberedInv'
  <2>1. FileNumbered'
    BY <1>0, <1>9, FileStaysNumbered DEF Receive
  <2>2. \A p \in Procs : Numbered(mem[p].refresh)' /\ \A n \in superseded'[p] : Numbered(n)'
    BY <1>0, <1>a, <1>9 DEF Receive, Adopt
  <2>3. \A s \in Threads : Numbered(pending[s].refresh)'
    BY <1>0, <1>a, <1>9 DEF Receive, Adopt
  <2> QED
    BY <1>0, <1>9, <2>1, <2>2, <2>3 DEF Receive
<1>10. ASSUME NEW t \in Threads, CheckFails(t) \/ Refused(t) \/ Lose(t) \/ SaveStep(t) PROVE NumberedInv'
  <2>1. FileNumbered'
    <3>1. Numbered(pending[t].refresh) /\ pending[t] \in Tokens
      BY <1>a
    <3> QED
      BY <1>0, <1>10, <3>1, FileStaysNumbered DEF CheckFails, Refused, Lose, SaveStep, histories
  <2>2. \A s \in Threads : /\ Numbered(pending[s].refresh)'
                           /\ reply'[s] \in Tokens => Numbered(reply[s].refresh)'
    <3>1. Return(t) \/ UNCHANGED threadVars
      BY <1>10 DEF CheckFails, Refused, Lose, SaveStep, histories
    <3> QED
      BY <1>0, <1>6, <3>1 DEF threadVars
  <2> QED
    BY <1>0, <1>10, <2>1, <2>2 DEF CheckFails, Refused, Lose, SaveStep, ghosts, histories
<1>11. ASSUME NEW t \in Threads, Login(t) PROVE NumberedInv'
  <2>1. FileNumbered'
    BY <1>0, <1>11, FileStaysNumbered DEF Login
  <2>2. \A s \in Threads : Numbered(pending[s].refresh)'
    <3>1. Numbered(issued)'
      BY <1>0 DEF Numbered
    <3> QED
      BY <1>0, <1>a, <1>11, <3>1 DEF Login
  <2> QED
    BY <1>0, <1>11, <2>1, <2>2 DEF Login, ghosts, histories
<1>12. CASE UNCHANGED vars
  <2>1. FileNumbered'
    BY <1>0, <1>12 DEF vars, fileVars, FileNumbered
  <2> QED
    BY <1>0, <1>12, <2>1 DEF vars, threadVars, ghosts, histories
<1> QED
  BY <1>1, <1>2, <1>3, <1>4, <1>5, <1>7, <1>8, <1>9, <1>10, <1>11, <1>12 DEF Next

----------------------------------------------------------------------------
(* Replaced refresh tokens.                                                *)
LEMMA ReplayStep == IInv /\ [Next]_vars => ReplayInv'
<1> SUFFICES ASSUME IInv, [Next]_vars PROVE ReplayInv'
  OBVIOUS
<1>0. /\ mem \in [Procs -> Tokens] /\ superseded \in [Procs -> SUBSET (0..Seed)]
      /\ pc \in [Threads -> Location] /\ up \in [Procs -> {"down", "seeding", "up"}]
      /\ reply \in [Threads -> Tokens \cup Refusal] /\ issued \in 0..MaxGrants
      /\ \A t \in Threads : Owner[t] \in Procs
  BY OwnerAssumption DEF IInv, Types, TypeOK
<1>a. Types /\ Locking /\ NumberedInv /\ ReplayInv /\ NoToken.refresh = 0
  BY DEF IInv, NoToken
<1>b. None \notin Tokens /\ Unavailable \notin Tokens /\ Revoked \notin Tokens
  BY ContentsAssumption, RepliesAssumption
<1>c. MaxGrants \in Nat /\ Seed = MaxGrants + 1
  BY SeedAssumption
<1> USE DEF ReplayInv, Unreplaced
<1>1. ASSUME NEW p \in Procs, Boot(p) \/ Misread(p) PROVE ReplayInv'
  BY <1>0, <1>a, <1>1 DEF Boot, Misread, threadVars, ghosts, histories
<1>2. ASSUME NEW p \in Procs, SeedStep(p) PROVE ReplayInv'
  BY <1>0, <1>a, <1>2 DEF SeedStep, threadVars
<1>3. ASSUME NEW p \in Procs, Exit(p) \/ Kill(p) PROVE ReplayInv'
  <2>1. Vanish(p)
    BY <1>3 DEF Exit, Kill
  <2> QED
    BY <1>0, <1>a, <2>1 DEF Vanish
<1>4. ASSUME NEW a \in 1..MaxGrants, Expire(a) PROVE ReplayInv'
  BY <1>a, <1>4 DEF Expire, threadVars, ghosts, histories
<1>5. ASSUME NEW t \in Threads, Call(t) \/ Lock(t) \/ Logout(t) PROVE ReplayInv'
  BY <1>0, <1>a, <1>5 DEF Call, Lock, Logout, threadVars, ghosts, histories
<1>6. ASSUME NEW t \in Threads, Check(t) PROVE ReplayInv'
  <2>1. mem[Owner[t]].access = 0 => superseded[Owner[t]] = {}
    BY <1>0, <1>a
  <2>2. Known(t) = mem[Owner[t]] \/ superseded[Owner[t]] = {}
    BY <2>1 DEF Known, MustLoad
  <2>3. \A p \in Procs : /\ up'[p] # "up" => mem'[p] = NoToken /\ superseded'[p] = {}
                         /\ superseded'[p] # {} => mem'[p].access # 0
                         /\ mem'[p].refresh = 0 \/ mem'[p].refresh \notin superseded'[p]
    <3>1. up[Owner[t]] = "up"
      BY <1>a, <1>6 DEF Locking, Check
    <3> QED
      BY <1>0, <1>a, <1>6, <2>2, <3>1 DEF Check, ghosts, histories
  <2>4. \A s \in Threads : pc'[s] \in {"asking", "asked"} => mem'[Owner[s]].refresh # 0
    <3> SUFFICES ASSUME NEW s \in Threads, pc'[s] \in {"asking", "asked"}
                 PROVE  mem'[Owner[s]].refresh # 0
      OBVIOUS
    <3>1. CASE s = t
      BY <1>0, <1>6, <3>1 DEF Check, Settled, Return
    <3>2. CASE s # t
      <4>1. pc[s] = pc'[s]
        BY <1>0, <1>6, <3>2 DEF Check, Return
      <4>2. Owner[s] # Owner[t]
        BY <1>a, <1>6, <3>2, <4>1, OneBusy DEF Check, Busy
      <4> QED
        BY <1>0, <1>a, <1>6, <4>1, <4>2 DEF Check
    <3> QED
      BY <3>1, <3>2
  <2>5. \A s \in Threads : pc'[s] = "asked" => pc[s] = "asked" /\ reply'[s] = reply[s]
    BY <1>0, <1>6 DEF Check, Return
  <2> QED
    BY <1>0, <1>a, <1>6, <2>3, <2>4, <2>5 DEF Check, ghosts, histories
<1>7. ASSUME NEW t \in Threads, Ask(t) PROVE ReplayInv'
  <2> DEFINE r == mem[Owner[t]].refresh
  <2>1. ASSUME issued < MaxGrants, NEW how \in Replies
        PROVE  /\ Granted(r, how).access # 0
               /\ Unreplaced(Owner[t], Granted(r, how).refresh)
    <3>1. issued + 1 # 0 /\ ~Numbered(issued + 1)
      BY <1>0, <1>c, <2>1 DEF Numbered
    <3>2. (issued + 1) \notin superseded[Owner[t]]
      BY <1>0, <1>a, <3>1 DEF NumberedInv
    <3> QED
      BY <1>0, <1>a, <3>1, <3>2, RepliesAssumption DEF Granted
  <2>2. reply'[t] \in Tokens => reply'[t].access # 0 /\ Unreplaced(Owner[t], reply'[t].refresh)
    BY <1>0, <1>b, <1>7, <2>1 DEF Ask
  <2> QED
    BY <1>0, <1>a, <1>7, <2>2 DEF Ask, ghosts, histories
<1>8. ASSUME NEW t \in Threads, Receive(t) PROVE ReplayInv'
  <2>1. \A p \in Procs : /\ up'[p] # "up" => mem'[p] = NoToken /\ superseded'[p] = {}
                         /\ superseded'[p] # {} => mem'[p].access # 0
                         /\ mem'[p].refresh = 0 \/ mem'[p].refresh \notin superseded'[p]
    <3>1. up[Owner[t]] = "up"
      BY <1>a, <1>8 DEF Locking, Receive
    <3> QED
      BY <1>0, <1>a, <1>8, <3>1 DEF Receive, Adopt
  <2>2. \A s \in Threads : pc'[s] \in {"asking", "asked"} =>
           s # t /\ pc[s] = pc'[s] /\ Owner[s] # Owner[t]
    BY <1>0, <1>a, <1>8, OneBusy DEF Receive, Busy
  <2> QED
    BY <1>0, <1>a, <1>8, <2>1, <2>2 DEF Receive, Adopt
<1>9. ASSUME NEW t \in Threads, CheckFails(t) \/ Refused(t) \/ Lose(t) \/ SaveStep(t) PROVE ReplayInv'
  <2>1. (Return(t) \/ UNCHANGED threadVars) /\ UNCHANGED <<up, mem, superseded>>
    BY <1>9 DEF CheckFails, Refused, Lose, SaveStep, ghosts, histories
  <2>2. \A s \in Threads : pc'[s] \in {"asking", "asked"} => pc[s] = pc'[s] /\ reply'[s] = reply[s]
    BY <1>0, <2>1 DEF Return, threadVars
  <2> QED
    BY <1>0, <1>a, <2>1, <2>2
<1>10. ASSUME NEW t \in Threads, Login(t) PROVE ReplayInv'
  BY <1>0, <1>a, <1>10 DEF Login, ghosts, histories
<1>11. CASE UNCHANGED vars
  BY <1>a, <1>11 DEF vars, threadVars, ghosts, histories
<1> QED
  BY <1>1, <1>2, <1>3, <1>4, <1>5, <1>6, <1>7, <1>8, <1>9, <1>10, <1>11 DEF Next

----------------------------------------------------------------------------
LEMMA IInvInductive ==
  /\ Init => IInv
  /\ IInv /\ [Next]_vars => IInv'
<1>1. Init => IInv
  <2> SUFFICES ASSUME Init PROVE IInv
    OBVIOUS
  <2>1. Types
    BY TypesInitially
  <2>2. Locking
    BY DEF Init, Locking, Busy
  <2>3. Numbered(0) /\ Numbered(Seed) /\ NoToken.refresh = 0
    BY DEF Init, Numbered, NoToken
  <2>4. NumberedInv
    <3>1. FileNumbered
      BY <2>3, ContentsAssumption DEF Init, FileInit, FileNumbered
    <3> QED
      BY <2>3, <3>1, ContentsAssumption DEF Init, NumberedInv
  <2>5. ReplayInv
    BY DEF Init, ReplayInv, Unreplaced
  <2> QED
    BY <2>1, <2>2, <2>4, <2>5 DEF IInv
<1>2. IInv /\ [Next]_vars => IInv'
  <2> SUFFICES ASSUME IInv, [Next]_vars PROVE IInv'
    OBVIOUS
  <2>1. Types' /\ Locking' /\ NumberedInv'
    BY TypesStep, LockingStep, NumberedStep DEF IInv
  <2> QED
    BY <2>1, ReplayStep DEF IInv
<1> QED
  BY <1>1, <1>2

(* The types of the manager's state hold in every reachable state, however *)
(* many processes share the file (Manager, manager.go:12-18).              *)
THEOREM ManagerTypes == Spec => []TypeOK
<1>1. IInv => TypeOK
  BY DEF IInv, Types
<1> QED
  BY <1>1, IInvInductive, PTL DEF Spec

(* However many processes share the file, and whatever is lost, fails or   *)
(* dies: no process presents a refresh token whose successor it has        *)
(* received (AccessToken, manager.go:43-50).                               *)
THEOREM NeverReplays == Spec => NoReplay
<1>1. IInv => (\A t \in Threads : Ask(t) => mem[Owner[t]].refresh \notin superseded[Owner[t]])
  BY OwnerAssumption DEF IInv, ReplayInv, Unreplaced, Ask
<1> QED
  BY <1>1, IInvInductive, PTL DEF Spec, NoReplay

----------------------------------------------------------------------------
(* Processes that run one at a time.                                       *)
LEMMA OneUpStep == Exclusive /\ Types /\ OneUp /\ [Next]_vars => OneUp'
<1> SUFFICES ASSUME Exclusive, Types, OneUp, [Next]_vars PROVE OneUp'
  OBVIOUS
<1> USE DEF OneUp
<1>0. up \in [Procs -> {"down", "seeding", "up"}]
  BY DEF Types, TypeOK
<1>1. ASSUME NEW p \in Procs, Boot(p) \/ Misread(p) PROVE OneUp'
  BY <1>0, <1>1 DEF Boot, Misread
<1>2. ASSUME NEW p \in Procs, SeedStep(p) PROVE OneUp'
  BY <1>0, <1>2 DEF SeedStep
<1>3. ASSUME NEW p \in Procs, Vanish(p) PROVE OneUp'
  BY <1>0, <1>3 DEF Vanish
<1>4. ASSUME UNCHANGED up PROVE OneUp'
  BY <1>4
<1> QED
  BY <1>1, <1>2, <1>3, <1>4
     DEF Next, vars, Exit, Kill, Expire, Call, Lock, Check, Ask, Receive, CheckFails, Refused, Lose, SaveStep,
         Login, Logout

(* Then at most one thread of all is busy, and no other process saves.     *)
LEMMA Alone ==
  ASSUME Types, Locking, OneUp, WriterInv, NEW t \in Threads, up[Owner[t]] = "up"
  PROVE  /\ Owner[t] \in Procs
         /\ \A q \in Procs : q # Owner[t] => up[q] = "down" /\ stage[q] = "none"
         /\ \A s \in Threads : pc[s] # "idle" => Owner[s] = Owner[t]
         /\ Busy(t) => \A s \in Threads : Busy(s) => s = t
         /\ Owner[t] \notin Servers => \A s \in Threads : pc[s] # "idle" => s = t
<1>1. \A s \in Threads : Owner[s] \in Procs
  BY OwnerAssumption
<1>2. \A q \in Procs : q # Owner[t] => up[q] = "down" /\ stage[q] = "none"
  BY <1>1 DEF OneUp, WriterInv, Savers
<1>3. \A s \in Threads : pc[s] # "idle" => Owner[s] = Owner[t]
  BY <1>1, <1>2 DEF Locking
<1>4. \A s \in Threads : Busy(s) => pc[s] # "idle"
  BY DEF Busy
<1> QED
  BY <1>1, <1>2, <1>3, <1>4, OneBusy, CommandsAssumption

(* What each save ends with is the token of the thread that made it.       *)
LEMMA SaverIs ==
  ASSUME Types, Locking, OneUp, WriterInv, NEW t \in Threads, pc[t] = "saving",
         stage[Owner[t]] # "none"
  PROVE  saving[Owner[t]] = pending[t]
<1>1. up[Owner[t]] = "up" /\ Busy(t) /\ Owner[t] \in Procs
  BY OwnerAssumption DEF Locking, Busy
<1>2. PICK s \in Threads : Saver(Owner[t], s)
  BY <1>1 DEF WriterInv, Savers
<1>3. s = t
  BY <1>1, <1>2, Alone DEF Saver, Busy
<1> QED
  BY <1>2, <1>3 DEF Saver

(* Every step keeps the file, and is one of AtomicFile or changes nothing  *)
(* of it.                                                                  *)
LEMMA FileStep ==
  Exclusive /\ IInv /\ OneUp /\ WriterInv /\ [Next]_vars
    => SaveOK' /\ [Atomic!Next]_(Atomic!vars)
<1> SUFFICES ASSUME Exclusive, IInv, OneUp, WriterInv, [Next]_vars
             PROVE  SaveOK' /\ [Atomic!Next]_(Atomic!vars)
  OBVIOUS
<1>0. Types /\ Locking /\ SaveOK /\ \A t \in Threads : Owner[t] \in Procs
  BY OwnerAssumption DEF IInv, WriterInv
<1>a. ASSUME NEW p \in Procs, up[p] # "down" \/ \A q \in Procs : up[q] = "down"
      PROVE  \A q \in Procs : q # p => stage[q] = "none"
  BY <1>a DEF OneUp, WriterInv, Savers
<1>b. ASSUME UNCHANGED fileVars PROVE SaveOK' /\ [Atomic!Next]_(Atomic!vars)
  BY <1>b, ContentsAssumption DEF fileVars, SaveOK, WriterInv, Atomic!vars
<1>c. ASSUME NEW p \in Procs, up[p] # "down" \/ \A q \in Procs : up[q] = "down",
             \/ \E k \in Tokens : OpenTmp(p, k)
             \/ WriteTmp(p) \/ RenameTmp(p) \/ SaveFails(p) \/ Die(p) \/ Clear
      PROVE  SaveOK' /\ [Atomic!Next]_(Atomic!vars)
  <2>1. FileTypeOK
    BY <1>0 DEF Types, TypeOK
  <2> QED
    BY <1>0, <1>a, <1>c, <2>1, LoneSave DEF Atomic!Next
<1>1. ASSUME NEW p \in Procs, Boot(p) \/ Misread(p) PROVE SaveOK' /\ [Atomic!Next]_(Atomic!vars)
  BY <1>b, <1>c, <1>1, TokenTypes DEF Boot, Misread
<1>2. ASSUME NEW p \in Procs, SeedStep(p) PROVE SaveOK' /\ [Atomic!Next]_(Atomic!vars)
  BY <1>b, <1>c, <1>2, TokenTypes DEF SeedStep
<1>3. ASSUME NEW p \in Procs, Exit(p) \/ Kill(p) PROVE SaveOK' /\ [Atomic!Next]_(Atomic!vars)
  BY <1>b, <1>c, <1>3 DEF Exit, Kill
<1>4. ASSUME NEW t \in Threads, SaveStep(t) PROVE SaveOK' /\ [Atomic!Next]_(Atomic!vars)
  <2>1. up[Owner[t]] = "up" /\ pending[t] \in Tokens
    BY <1>0, <1>4 DEF Types, TypeOK, Locking, SaveStep
  <2> QED
    BY <1>0, <1>b, <1>c, <1>4, <2>1 DEF SaveStep
<1>5. ASSUME NEW t \in Threads, Logout(t) PROVE SaveOK' /\ [Atomic!Next]_(Atomic!vars)
  BY <1>0, <1>c, <1>5 DEF Logout, FreshCommand
<1> QED
  BY <1>b, <1>1, <1>2, <1>3, <1>4, <1>5
     DEF Next, vars, Expire, Call, Lock, Check, Ask, Receive, CheckFails, Refused, Lose, Login

(* Who saves.                                                              *)
LEMMA SaversStep ==
  Exclusive /\ IInv /\ OneUp /\ WriterInv /\ [Next]_vars => Savers'
<1> SUFFICES ASSUME Exclusive, IInv, OneUp, WriterInv, [Next]_vars PROVE Savers'
  OBVIOUS
<1>0. /\ Types /\ Locking /\ SaveOK /\ Savers
      /\ up \in [Procs -> {"down", "seeding", "up"}]
      /\ stage \in [Procs -> {"none", "opened", "written"}]
      /\ saving \in [Procs -> Tokens \cup {None}]
      /\ pc \in [Threads -> Location] /\ pending \in [Threads -> Tokens]
      /\ \A t \in Threads : Owner[t] \in Procs
  BY OwnerAssumption DEF IInv, WriterInv, Types, TypeOK, FileTypeOK
<1> USE DEF Savers
(* While the files and the processes stay, threads that are not saving     *)
(* come and go.                                                            *)
<1>a. ASSUME UNCHANGED <<path, stage, saving, up, misread>>,
             \A s \in Threads : pc[s] = "saving" => pc'[s] = "saving" /\ pending'[s] = pending[s]
      PROVE  Savers'
  BY <1>0, <1>a DEF Saver, Loadable
<1>1. ASSUME NEW p \in Procs, Boot(p) \/ Misread(p) PROVE Savers'
  <2>1. \A q \in Procs : up[q] = "down" /\ stage[q] = "none"
    BY <1>0, <1>1 DEF Boot, Misread
  <2>2. UNCHANGED fileVars /\ \A q \in Procs : q # p => up'[q] = up[q]
    BY <1>0, <1>1 DEF Boot, Misread
  <2>3. up'[p] = "up" \/ (up'[p] = "seeding" /\ (~Loadable \/ p \in misread'))
    BY <1>0, <1>1 DEF Boot, Misread, NeedsSeed
  <2> QED
    BY <1>0, <2>1, <2>2, <2>3 DEF fileVars, Loadable
<1>2. ASSUME NEW p \in Procs, SeedStep(p) PROVE Savers'
  <2>1. \A q \in Procs : q # p => up[q] = "down" /\ stage[q] = "none"
    BY <1>0, <1>2 DEF SeedStep, OneUp
  <2>2. CASE WriteTmp(p) /\ UNCHANGED <<up, misread>>
    <3>1. path' = path
      BY <1>0, <2>2 DEF WriteTmp, SaveOK
    <3> QED
      BY <1>0, <1>2, <2>1, <2>2, <3>1 DEF WriteTmp, SeedStep, Loadable
  <2>3. CASE RenameTmp(p) /\ up' = [up EXCEPT ![p] = "up"]
    BY <1>0, <2>1, <2>3 DEF RenameTmp, Release
  <2>4. CASE SaveFails(p) /\ up' = [up EXCEPT ![p] = "down"]
    BY <1>0, <2>1, <2>4 DEF SaveFails, Release
  <2>5. CASE OpenTmp(p, [access |-> 0, refresh |-> Seed]) /\ UNCHANGED <<up, misread>>
    BY <1>0, <1>2, <2>1, <2>5 DEF OpenTmp, SeedStep, Loadable
  <2>6. CASE stage[p] = "none" /\ UNCHANGED fileVars /\ up' = [up EXCEPT ![p] = "down"]
    BY <1>0, <2>1, <2>6 DEF fileVars
  <2> QED
    BY <1>2, <2>2, <2>3, <2>4, <2>5, <2>6 DEF SeedStep
<1>3. ASSUME NEW p \in Procs, Exit(p) \/ Kill(p) PROVE Savers'
  <2>1. up[p] # "down" /\ up' = [up EXCEPT ![p] = "down"]
    BY <1>3 DEF Exit, Kill, Vanish
  <2>2. \A q \in Procs : q # p => up[q] = "down" /\ stage[q] = "none"
    BY <1>0, <2>1 DEF OneUp
  <2>3. stage'[p] = "none" /\ \A q \in Procs : q # p => stage'[q] = stage[q]
    <3>1. CASE Exit(p)
      BY <1>0, <3>1 DEF Exit, fileVars, Saver
    <3>2. CASE Kill(p)
      BY <1>0, <3>2 DEF Kill, Die, Release, fileVars
    <3> QED
      BY <1>3, <3>1, <3>2
  <2> QED
    BY <1>0, <2>1, <2>2, <2>3
<1>4. ASSUME NEW a \in 1..MaxGrants, Expire(a) PROVE Savers'
  BY <1>a, <1>4 DEF Expire, fileVars, threadVars, ghosts, histories
<1>5. ASSUME NEW t \in Threads, Call(t) \/ Lock(t) \/ Check(t) \/ Ask(t) \/ CheckFails(t) \/ Refused(t) \/ Lose(t)
      PROVE  Savers'
  <2>1. pc[t] # "saving" /\ UNCHANGED <<path, stage, saving, up, misread>>
    BY <1>5 DEF Call, Lock, Check, Ask, CheckFails, Refused, Lose, fileVars, ghosts, histories
  <2>2. \/ Return(t)
        \/ UNCHANGED pending /\ \E l \in Location : pc' = [pc EXCEPT ![t] = l]
    BY <1>5 DEF Call, Lock, Check, Ask, CheckFails, Refused, Lose, Location
  <2>3. \A s \in Threads : pc[s] = "saving" => pc'[s] = "saving" /\ pending'[s] = pending[s]
    BY <1>0, <2>1, <2>2 DEF Return
  <2> QED
    BY <1>a, <2>1, <2>3
<1>6. ASSUME NEW t \in Threads, Receive(t) \/ Login(t) PROVE Savers'
  <2>1. pc[t] # "saving" /\ UNCHANGED <<path, stage, saving, up, misread>>
    BY <1>6 DEF Receive, Login, FreshCommand, fileVars, ghosts, histories
  <2>2. \A s \in Threads : pc[s] = "saving" => pc'[s] = "saving" /\ pending'[s] = pending[s]
    BY <1>0, <1>6, <2>1 DEF Receive, Adopt, Login
  <2> QED
    BY <1>a, <2>1, <2>2
<1>7. ASSUME NEW t \in Threads, SaveStep(t) PROVE Savers'
  <2> DEFINE p == Owner[t]
  <2>1. p \in Procs /\ up[p] = "up" /\ UNCHANGED up
    BY <1>0, <1>7 DEF Locking, SaveStep
  <2>2. \A q \in Procs : q # p => up[q] = "down" /\ stage[q] = "none"
    BY <1>0, <2>1 DEF OneUp
  <2>3. CASE OpenTmp(p, pending[t]) /\ UNCHANGED threadVars
    <3>1. Saver(p, t)'
      BY <1>0, <1>7, <2>1, <2>3 DEF OpenTmp, Saver, SaveStep, threadVars
    <3> QED
      BY <1>0, <2>1, <2>2, <2>3, <3>1 DEF OpenTmp
  <2>4. CASE WriteTmp(p) /\ UNCHANGED threadVars
    <3>1. \E s \in Threads : Saver(p, s)
      BY <1>0, <2>1, <2>4 DEF WriteTmp
    <3>2. \E s \in Threads : Saver(p, s)'
      BY <3>1, <2>4 DEF WriteTmp, threadVars, Saver
    <3> QED
      BY <1>0, <2>1, <2>2, <2>4, <3>2 DEF WriteTmp
  <2>5. CASE stage'[p] = "none" /\ \A q \in Procs : q # p => stage'[q] = stage[q]
    BY <1>0, <2>1, <2>2, <2>5
  <2>6. \/ OpenTmp(p, pending[t]) /\ UNCHANGED threadVars
        \/ WriteTmp(p) /\ UNCHANGED threadVars
        \/ RenameTmp(p) \/ SaveFails(p) \/ (stage[p] = "none" /\ UNCHANGED fileVars)
    BY <1>7 DEF SaveStep
  <2>7. CASE RenameTmp(p) \/ SaveFails(p) \/ (stage[p] = "none" /\ UNCHANGED fileVars)
    BY <1>0, <2>1, <2>5, <2>7 DEF RenameTmp, SaveFails, Release, fileVars
  <2> QED
    BY <2>3, <2>4, <2>6, <2>7
<1>8. ASSUME NEW t \in Threads, Logout(t) PROVE Savers'
  <2>1. UNCHANGED <<stage, saving, up, pc, pending>> /\ ~Loadable'
    BY <1>8, ContentsAssumption DEF Logout, Clear, threadVars, Loadable
  <2> QED
    BY <1>0, <2>1 DEF Saver
<1>9. CASE UNCHANGED vars
  BY <1>a, <1>9 DEF vars, fileVars, threadVars, ghosts, histories
<1> QED
  BY <1>1, <1>2, <1>3, <1>4, <1>5, <1>6, <1>7, <1>8, <1>9 DEF Next

----------------------------------------------------------------------------
(* The file and memory.                                                    *)
XTypes ==
  /\ Exclusive /\ IInv /\ OneUp /\ WriterInv
  /\ mem \in [Procs -> Tokens] /\ up \in [Procs -> {"down", "seeding", "up"}]
  /\ pc \in [Threads -> Location] /\ pending \in [Threads -> Tokens]
  /\ reply \in [Threads -> Tokens \cup Refusal]
  /\ stage \in [Procs -> {"none", "opened", "written"}]
  /\ saving \in [Procs -> Tokens \cup {None}]
  /\ \A t \in Threads : Owner[t] \in Procs

LEMMA XTypesHold == Exclusive /\ IInv /\ OneUp /\ WriterInv => XTypes
BY OwnerAssumption DEF XTypes, IInv, Types, TypeOK, FileTypeOK

(* A grant kills no live token of the file that memory could still         *)
(* present, and no token that exists already is the one it adds.           *)
LEMMA NewIsNew ==
  ASSUME XTypes, issued < MaxGrants
  PROVE  /\ \A n : Numbered(n) => n # issued + 1
         /\ Loadable => path.refresh # issued + 1
         /\ issued + 1 # 0
<1>1. MaxGrants \in Nat /\ Seed = MaxGrants + 1 /\ issued \in 0..MaxGrants
  BY SeedAssumption DEF XTypes, IInv, Types, TypeOK
<1>2. \A n : Numbered(n) => n # issued + 1
  BY <1>1 DEF Numbered
<1>3. Loadable => Numbered(path.refresh)
  BY DEF XTypes, IInv, NumberedInv, FileNumbered, Loadable
<1> QED
  BY <1>1, <1>2, <1>3

LEMMA FileInvStep ==
  Exclusive /\ IInv /\ OneUp /\ WriterInv /\ FileInv /\ [Next]_vars => FileInv'
<1> SUFFICES ASSUME XTypes, FileInv, [Next]_vars PROVE FileInv'
  BY XTypesHold
<1>0. Types /\ FileTypeOK /\ Locking /\ OneUp /\ WriterInv /\ SaveOK /\ Savers /\ ReplayInv
  BY DEF XTypes, IInv, WriterInv, Types, TypeOK
<1> USE DEF FileInv
(* While the file and the endpoint stay.                                   *)
<1>a. ASSUME UNCHANGED <<path, live>> PROVE \A n : InFile(n) => InFile(n)'
  BY <1>a DEF InFile, Loadable
<1>b. ASSUME UNCHANGED <<path, live, mem, up, pending, reply>>,
             \A t \in Threads : pc'[t] \in {"asked", "saving"} => pc'[t] = pc[t]
      PROVE  FileInv'
  BY <1>b DEF InFile, Loadable
<1>1. ASSUME NEW p \in Procs, Boot(p) \/ Misread(p) PROVE FileInv'
  <2>1. /\ path' = path /\ UNCHANGED <<live, mem, pc, pending, reply>>
        /\ mem[p] = NoToken /\ \A q \in Procs : q # p => up'[q] = up[q]
    BY <1>0, <1>1 DEF Boot, Misread, OpenTmp, fileVars, threadVars, endpoint, XTypes, ReplayInv
  <2> QED
    BY <2>1, <1>a DEF InFile, Loadable, NoToken, XTypes
<1>2. ASSUME NEW p \in Procs, SeedStep(p) PROVE FileInv'
  <2>1. /\ \A q \in Procs : up[q] # "up" /\ (up'[q] = "up" => q = p) /\ mem'[p] = NoToken
    BY <1>0, <1>2 DEF SeedStep, OneUp, ReplayInv, XTypes
  <2>2. \A t \in Threads : pc'[t] = "idle"
    BY <1>0, <1>2, <2>1 DEF SeedStep, threadVars, Locking, XTypes
  <2> QED
    BY <2>1, <2>2 DEF InFile, NoToken
<1>3. ASSUME NEW p \in Procs, Exit(p) \/ Kill(p) PROVE FileInv'
  <2>1. Vanish(p) /\ path' = path
    BY <1>3 DEF Exit, Kill, Die, fileVars
  <2> QED
    BY <1>a, <2>1 DEF Vanish, XTypes, InFile, Loadable, endpoint
<1>4. ASSUME NEW a \in 1..MaxGrants, Expire(a) PROVE FileInv'
  BY <1>b, <1>4 DEF Expire, fileVars, threadVars, endpoint
<1>5. ASSUME NEW t \in Threads, Call(t) \/ Lock(t) PROVE FileInv'
  BY <1>b, <1>5 DEF Call, Lock, fileVars, endpoint, XTypes
<1>6. ASSUME NEW t \in Threads, Check(t) PROVE FileInv'
  <2>1. up[Owner[t]] = "up" /\ Busy(t)
    BY <1>0, <1>6 DEF Locking, Check, Busy
  <2>2. \A s \in Threads : Busy(s) => s = t
    BY <1>0, <2>1, Alone
  <2>3. \A s \in Threads : pc'[s] \notin {"asked", "saving"}
    BY <1>6, <2>2 DEF Check, Return, Busy, XTypes
  <2>4. InFile(Known(t).refresh)
    BY <2>1 DEF Known, InFile, XTypes
  <2> QED
    BY <1>6, <2>3, <2>4 DEF Check, InFile, Loadable, endpoint, fileVars, XTypes
<1>7. ASSUME NEW t \in Threads, Ask(t) PROVE FileInv'
  <2> DEFINE r == mem[Owner[t]].refresh
  <2>1. up[Owner[t]] = "up" /\ Busy(t) /\ r # 0
    BY <1>0, <1>7 DEF Locking, Ask, Busy, ReplayInv
  <2>2. \A s \in Threads : pc'[s] \in {"asked", "saving"} => s = t
    BY <1>0, <1>7, <2>1, Alone DEF Ask, Busy, XTypes
  <2>3. /\ pc'[t] = "asked" /\ UNCHANGED <<path, mem, up>>
    BY <1>7 DEF Ask, fileVars, XTypes
  <2>4. \A q \in Procs : up[q] = "up" => q = Owner[t]
    BY <2>1, <1>0 DEF OneUp, XTypes
  <2>5. InFile(r)
    BY <2>1 DEF XTypes
  <2>6. ASSUME NEW how \in Replies, issued < MaxGrants, reply' = [reply EXCEPT ![t] = Granted(r, how)],
               live' = IF how = "rotate" THEN (live \ {r}) \cup {issued + 1} ELSE live
        PROVE  InFile(r)' /\ InFile(reply[t].refresh)' /\ reply'[t] # Revoked
    <3>1. reply'[t] = Granted(r, how)
      BY <2>6 DEF XTypes
    <3>2. reply'[t] # Revoked
      BY <1>0, <2>6, <3>1, GrantedTyped, RepliesAssumption
    <3>3. InFile(r)'
      <4>1. CASE how = "rotate"
        BY <2>1, <2>3, <2>5, <2>6, <4>1, NewIsNew DEF InFile, Loadable
      <4>2. CASE how # "rotate"
        BY <2>3, <2>5, <2>6, <4>2 DEF InFile, Loadable
      <4> QED
        BY <4>1, <4>2
    <3>4. InFile(reply[t].refresh)'
      <4>1. CASE how = "rotate"
        <5>1. ~(Loadable' /\ path'.refresh \in live')
          BY <2>1, <2>3, <2>5, <2>6, <4>1, NewIsNew DEF InFile, Loadable
        <5> QED
          BY <5>1 DEF InFile
      <4>2. CASE how = "keep"
        <5>1. reply'[t].refresh = r
          BY <3>1, <4>2 DEF Granted
        <5> QED
          BY <2>3, <2>5, <2>6, <4>2, <5>1 DEF InFile, Loadable
      <4>3. CASE how = "omit"
        <5>1. reply'[t].refresh = 0
          BY <3>1, <4>3 DEF Granted
        <5> QED
          BY <5>1 DEF InFile
      <4> QED
        BY <4>1, <4>2, <4>3, RepliesAssumption
    <3> QED
      BY <3>2, <3>3, <3>4
  <2>7. ASSUME UNCHANGED endpoint,
               reply' = [reply EXCEPT ![t] = IF r \in live THEN Unavailable ELSE Revoked]
        PROVE  InFile(r)' /\ reply'[t] \notin Tokens /\ (reply'[t] = Revoked => r \notin live')
    BY <2>3, <2>5, <2>7, RepliesAssumption DEF InFile, Loadable, endpoint, XTypes
  <2> QED
    BY <1>7, <2>2, <2>3, <2>4, <2>6, <2>7 DEF Ask
<1>8. ASSUME NEW t \in Threads, Receive(t) PROVE FileInv'
  <2>1. up[Owner[t]] = "up" /\ Busy(t) /\ InFile(reply[t].refresh)
    BY <1>0, <1>8 DEF Locking, Receive, Busy
  <2>2. \A s \in Threads : pc'[s] \in {"asked", "saving"} => s = t
    BY <1>0, <1>8, <2>1, Alone DEF Receive, Busy, XTypes
  <2> QED
    BY <1>8, <2>1, <2>2 DEF Receive, Adopt, InFile, Loadable, endpoint, fileVars, XTypes
<1>9. ASSUME NEW t \in Threads, CheckFails(t) \/ Refused(t) \/ Lose(t) PROVE FileInv'
  BY <1>9 DEF CheckFails, Refused, Lose, Return, InFile, Loadable, endpoint, fileVars, XTypes
<1>10. ASSUME NEW t \in Threads, SaveStep(t) PROVE FileInv'
  <2> DEFINE p == Owner[t]
  <2>1. up[p] = "up" /\ Busy(t) /\ UNCHANGED <<up, mem, live>>
    BY <1>0, <1>10 DEF Locking, SaveStep, Busy, endpoint
  <2>2. \A s \in Threads : pc[s] \in {"asked", "saving"} => s = t
    BY <1>0, <1>10, <2>1, Alone DEF Busy
  <2>3. \A q \in Procs : q # p => stage[q] = "none" /\ up[q] = "down"
    BY <1>0, <2>1, Alone
  <2>4. CASE RenameTmp(p) /\ Return(t)
    <3>1. path' = pending[t]
      BY <1>0, <1>10, <2>3, <2>4, LoneSave, SaverIs DEF RenameTmp, SaveStep, XTypes
    <3>2. \A s \in Threads : pc'[s] \notin {"asked", "saving"}
      BY <2>2, <2>4 DEF Return, XTypes
    <3> QED
      BY <1>10, <2>1, <2>3, <3>1, <3>2 DEF SaveStep, InFile, XTypes
  <2>5. CASE path' = path /\ (Return(t) \/ UNCHANGED threadVars)
    <3>1. CASE Return(t)
      <4>1. \A s \in Threads : pc'[s] \notin {"asked", "saving"}
        BY <2>2, <3>1 DEF Return, XTypes
      <4> QED
        BY <2>1, <2>5, <4>1, <1>a
    <3>2. CASE UNCHANGED threadVars
      BY <1>b, <2>1, <2>5, <3>2 DEF threadVars
    <3> QED
      BY <2>5, <3>1, <3>2
  <2>6. WriteTmp(p) \/ SaveFails(p) => path' = path
    BY <1>0 DEF SaveOK, WriteTmp, SaveFails, XTypes
  <2> QED
    BY <1>10, <2>4, <2>5, <2>6 DEF SaveStep, OpenTmp, fileVars
<1>11. ASSUME NEW t \in Threads, Login(t) PROVE FileInv'
  <2>1. up[Owner[t]] = "up" /\ mem[Owner[t]] = NoToken /\ pc[t] = "idle"
    BY <1>11 DEF Login, FreshCommand
  <2>2. \A s \in Threads : pc'[s] \in {"asked", "saving"} => s = t
    BY <1>0, <1>11, <2>1, Alone DEF Login, FreshCommand, XTypes
  <2>3. \A n : InFile(n) => InFile(n)'
    BY <1>11, NewIsNew DEF Login, InFile, Loadable, fileVars
  <2> QED
    BY <1>11, <2>1, <2>2, <2>3 DEF Login, NoToken, XTypes
<1>12. ASSUME NEW t \in Threads, Logout(t) PROVE FileInv'
  <2>1. ~Loadable' /\ UNCHANGED <<up, mem, pc, pending, reply, live>>
    BY <1>12, ContentsAssumption DEF Logout, Clear, threadVars, endpoint, Loadable
  <2> QED
    BY <2>1 DEF InFile
<1>13. CASE UNCHANGED vars
  BY <1>b, <1>13 DEF vars, fileVars, threadVars, endpoint
<1> QED
  BY <1>1, <1>2, <1>3, <1>4, <1>5, <1>6, <1>7, <1>8, <1>9, <1>10, <1>11, <1>12, <1>13 DEF Next

(* What the file will hold, as long as nothing was lost, failed or died.   *)
LEMMA LastingStep ==
  Exclusive /\ IInv /\ OneUp /\ WriterInv /\ LastingInv /\ [Next]_vars => LastingInv'
<1> SUFFICES ASSUME XTypes, LastingInv, [Next]_vars, mishaps' = 0 PROVE Lasts'
  BY XTypesHold DEF LastingInv
<1>0. Types /\ FileTypeOK /\ Locking /\ OneUp /\ WriterInv /\ SaveOK /\ Savers /\ ReplayInv
  BY DEF XTypes, IInv, WriterInv, Types, TypeOK
<1>m. Lasts /\ ~Mishap
  <2>1. mishaps' = mishaps \/ Mishap
    BY DEF Next, vars, Boot, Misread, SeedStep, Exit, Kill, Expire, Call, Lock, Check, Ask, Receive,
           CheckFails, Refused, Lose, SaveStep, Login, Logout, ghosts, histories
  <2>2. mishaps \in Nat
    BY <1>0, SeedAssumption DEF Types, TypeOK
  <2> QED
    BY <2>1, <2>2 DEF LastingInv, Mishap
<1> USE DEF Lasts, Delivers
(* While nobody gets or delivers a token.                                  *)
<1>a. ASSUME UNCHANGED <<path, live, omitted>>,
             \A s \in Threads : pc[s] \in {"asked", "saving"} \/ pc'[s] \in {"asked", "saving"} =>
               pc'[s] = pc[s] /\ pending'[s] = pending[s] /\ reply'[s] = reply[s]
      PROVE  Lasts'
  BY <1>m, <1>a DEF Lasting, Loadable
<1>1. ASSUME NEW p \in Procs, Boot(p) \/ Misread(p) PROVE Lasts'
  BY <1>a, <1>1 DEF Boot, Misread, fileVars, threadVars, endpoint, ghosts, histories
<1>2. ASSUME NEW p \in Procs, SeedStep(p) PROVE Lasts'
  <2>1. /\ UNCHANGED <<live, omitted, pc, pending, reply>>
    BY <1>2 DEF SeedStep, threadVars, endpoint
  <2>2. CASE WriteTmp(p)
    BY <1>0, <1>a, <2>1, <2>2 DEF WriteTmp, SaveOK
  <2>3. CASE RenameTmp(p)
    <3>1. path' = [access |-> 0, refresh |-> Seed]
      BY <1>0, <1>2, <2>3 DEF SeedStep, RenameTmp, SaveOK, Savers
    <3>2. Lasting(path)'
      BY <3>1 DEF Lasting
    <3> QED
      BY <1>m, <2>1, <3>2 DEF Lasting
  <2>4. CASE path' = path
    BY <1>a, <2>1, <2>4
  <2> QED
    BY <1>2, <1>m, <2>2, <2>3, <2>4 DEF SeedStep, OpenTmp, fileVars
<1>3. ASSUME NEW p \in Procs, Exit(p) \/ Kill(p) PROVE Lasts'
  <2>1. Exit(p)
    BY <1>3, <1>m DEF Kill
  <2>2. pc' = pc /\ \A s \in Threads : pc[s] # "idle" => pending'[s] = pending[s] /\ reply'[s] = reply[s]
    BY <2>1 DEF Exit, Vanish, XTypes
  <2> QED
    BY <1>a, <2>1, <2>2 DEF Exit, Vanish, fileVars, endpoint, ghosts, histories
<1>4. ASSUME NEW a \in 1..MaxGrants, Expire(a) PROVE Lasts'
  BY <1>a, <1>4 DEF Expire, fileVars, threadVars, endpoint, ghosts, histories
<1>5. ASSUME NEW t \in Threads, Call(t) \/ Lock(t) \/ Check(t) PROVE Lasts'
  BY <1>a, <1>5 DEF Call, Lock, Check, Return, fileVars, endpoint, ghosts, histories, XTypes
<1>6. ASSUME NEW t \in Threads, Ask(t) PROVE Lasts'
  <2> DEFINE r == mem[Owner[t]].refresh
  <2>1. up[Owner[t]] = "up" /\ Busy(t) /\ pc[t] = "asking" /\ UNCHANGED path
    BY <1>0, <1>6 DEF Locking, Ask, Busy, fileVars
  <2>2. \A s \in Threads : s # t => pc[s] \notin {"asked", "saving"} /\ pc'[s] \notin {"asked", "saving"}
    BY <1>0, <1>6, <2>1, Alone DEF Ask, Busy, XTypes
  <2>3. pc'[t] = "asked"
    BY <1>6 DEF Ask, XTypes
  <2>4. Loadable => Lasting(path)
    BY <1>m, <2>1, <2>2
  <2>5. ASSUME NEW how \in Replies, issued < MaxGrants, r \in live,
               reply' = [reply EXCEPT ![t] = Granted(r, how)],
               live' = IF how = "rotate" THEN (live \ {r}) \cup {issued + 1} ELSE live,
               omitted' = IF how = "omit" THEN omitted \cup {issued + 1} ELSE omitted
        PROVE  reply'[t] \in Tokens /\ Lasting(reply[t])'
    <3>1. reply'[t] = Granted(r, how)
      BY <2>5 DEF XTypes
    <3>2. reply'[t] \in Tokens
      BY <1>0, <2>5, <3>1, GrantedTyped
    <3>3. reply'[t].refresh \in live' \/ reply'[t].access \in omitted'
      BY <2>5, <3>1, RepliesAssumption DEF Granted
    <3> QED
      BY <3>2, <3>3 DEF Lasting
  <2>6. ASSUME UNCHANGED <<endpoint, omitted>>,
               reply' = [reply EXCEPT ![t] = IF r \in live THEN Unavailable ELSE Revoked]
        PROVE  reply'[t] \notin Tokens /\ live' = live /\ omitted' = omitted
    BY <2>6, RepliesAssumption DEF endpoint, XTypes
  <2>7. CASE reply'[t] \in Tokens /\ Lasting(reply[t])'
    BY <2>2, <2>3, <2>7
  <2>8. CASE reply'[t] \notin Tokens /\ live' = live /\ omitted' = omitted
    BY <2>1, <2>2, <2>3, <2>4, <2>8 DEF Lasting, Loadable
  <2> QED
    BY <1>6, <2>5, <2>6, <2>7, <2>8 DEF Ask
<1>7. ASSUME NEW t \in Threads, Receive(t) PROVE Lasts'
  BY <1>m, <1>7 DEF Receive, Adopt, Lasting, Loadable, endpoint, fileVars, ghosts, histories, XTypes
<1>8. ASSUME NEW t \in Threads, Refused(t) \/ CheckFails(t) PROVE Lasts'
  BY <1>m, <1>8 DEF CheckFails, Refused, Return, Lasting, Loadable, endpoint, fileVars, ghosts, histories, XTypes
<1>9. ASSUME NEW t \in Threads, Lose(t) PROVE Lasts'
  BY <1>m, <1>9 DEF Lose
<1>10. ASSUME NEW t \in Threads, SaveStep(t) PROVE Lasts'
  <2> DEFINE p == Owner[t]
  <2>1. up[p] = "up" /\ Busy(t) /\ live' = live /\ omitted' = omitted /\ pc[t] = "saving"
    BY <1>0, <1>10 DEF Locking, SaveStep, Busy, endpoint, histories
  <2>2. \A s \in Threads : pc[s] \in {"asked", "saving"} => s = t
    BY <1>0, <1>10, <2>1, Alone DEF Busy
  <2>3. CASE RenameTmp(p) /\ Return(t)
    <3>1. path' = pending[t]
      BY <1>0, <2>1, <2>3, LoneSave, Alone, SaverIs DEF RenameTmp, XTypes
    <3>2. \A s \in Threads : pc'[s] \notin {"asked", "saving"}
      BY <2>2, <2>3 DEF Return, XTypes
    <3> QED
      BY <1>m, <2>1, <3>1, <3>2 DEF Lasting
  <2>4. CASE path' = path /\ UNCHANGED threadVars
    BY <1>a, <2>1, <2>4 DEF threadVars
  <2>5. ~(SaveFails(p) /\ tmp = Absent /\ stage[p] = "written")
    BY <1>0, ContentsAssumption DEF SaveOK, XTypes
  <2>6. WriteTmp(p) => path' = path
    BY <1>0 DEF SaveOK, WriteTmp, XTypes
  <2> QED
    BY <1>10, <1>m, <2>3, <2>4, <2>5, <2>6 DEF SaveStep, OpenTmp, fileVars
<1>11. ASSUME NEW t \in Threads, Login(t) PROVE Lasts'
  BY <1>m, <1>11 DEF Login, Lasting, Loadable, fileVars, ghosts, histories, XTypes
<1>12. ASSUME NEW t \in Threads, Logout(t) PROVE Lasts'
  BY <1>m, <1>12, ContentsAssumption DEF Logout, Clear, threadVars, endpoint, ghosts, histories, Loadable, Lasting
<1>13. CASE UNCHANGED vars
  BY <1>a, <1>13 DEF vars, fileVars, threadVars, endpoint, ghosts, histories
<1> QED
  BY <1>1, <1>2, <1>3, <1>4, <1>5, <1>6, <1>7, <1>8, <1>9, <1>10, <1>11, <1>12, <1>13 DEF Next

----------------------------------------------------------------------------
LEMMA XInvInductive ==
  /\ Init => XInv
  /\ Exclusive /\ XInv /\ [Next]_vars => XInv'
<1>1. Init => XInv
  <2> SUFFICES ASSUME Init PROVE XInv
    OBVIOUS
  <2>1. IInv
    BY IInvInductive
  <2>2. OneUp /\ FileInv
    BY DEF Init, OneUp, FileInv, InFile
  <2>3. WriterInv
    BY TokenTypes, ContentsAssumption DEF Init, FileInit, WriterInv, SaveOK, Savers
  <2>4. LastingInv
    BY ContentsAssumption DEF Init, LastingInv, Lasts, Lasting, Loadable
  <2> QED
    BY <2>1, <2>2, <2>3, <2>4 DEF XInv
<1>2. Exclusive /\ XInv /\ [Next]_vars => XInv'
  <2> SUFFICES ASSUME Exclusive, XInv, [Next]_vars PROVE XInv'
    OBVIOUS
  <2>1. IInv' /\ OneUp'
    BY IInvInductive, OneUpStep DEF XInv, IInv
  <2>2. WriterInv'
    BY FileStep, SaversStep DEF XInv, WriterInv
  <2>3. FileInv' /\ LastingInv'
    BY FileInvStep, LastingStep DEF XInv
  <2> QED
    BY <2>1, <2>2, <2>3 DEF XInv
<1> QED
  BY <1>1, <1>2

(* Where the processes run one at a time, a process is told that its       *)
(* refresh token is revoked only when the file has no live one: "it        *)
(* transparently refreshes it when expired" (manager.go:10-11).            *)
THEOREM RevokedForGood == Exclusive => (Spec => []RefusedForGood)
<1> SUFFICES ASSUME Exclusive PROVE Spec => []RefusedForGood
  OBVIOUS
<1>1. XInv => RefusedForGood
  <2> SUFFICES ASSUME XInv, NEW t \in Threads, pc[t] = "asked", reply[t] = Revoked,
                      Loadable, path.refresh \in live
               PROVE  FALSE
    BY DEF RefusedForGood
  <2>1. up[Owner[t]] = "up" /\ mem[Owner[t]].refresh # 0 /\ mem[Owner[t]].refresh \notin live
    BY DEF XInv, IInv, Locking, ReplayInv, FileInv
  <2>2. InFile(mem[Owner[t]].refresh)
    BY <2>1, OwnerAssumption DEF XInv, FileInv
  <2> QED
    BY <2>1, <2>2 DEF InFile
<1> QED
  BY <1>1, XInvInductive, PTL DEF Spec

(* Where the processes run one at a time and nothing was lost, failed or   *)
(* died, the token in the file can be refreshed between refreshes, unless  *)
(* it came without a refresh token (AccessToken, manager.go:25-52).        *)
THEOREM StoredStaysLive == Exclusive => (Spec => []StoredIsLive)
<1> SUFFICES ASSUME Exclusive PROVE Spec => []StoredIsLive
  OBVIOUS
<1>1. XInv => StoredIsLive
  BY DEF XInv, LastingInv, Lasts, Delivers, Lasting, StoredIsLive
<1> QED
  BY <1>1, XInvInductive, PTL DEF Spec

(* Where the processes run one at a time, no reader of the token file ever *)
(* finds a partial token, though logins, refreshes, boots and logouts use  *)
(* it, and fail and die (Save, store.go:76-90).                            *)
THEOREM ManagerNeverTears == Exclusive => (Spec => []NeverTorn)
<1> SUFFICES ASSUME Exclusive PROVE Spec => []NeverTorn
  OBVIOUS
<1>1. XInv => NeverTorn
  BY DEF XInv, WriterInv, SaveOK, NeverTorn
<1> QED
  BY <1>1, XInvInductive, PTL DEF Spec

(* Where the processes run one at a time, a complete token is replaced by  *)
(* the seed only by a server that failed to read it: "an existing token    *)
(* file wins" but for that (main.go:90-102).                               *)
THEOREM SeedYields == Exclusive => (Spec => ExistingFileWins)
<1> SUFFICES ASSUME Exclusive PROVE Spec => ExistingFileWins
  OBVIOUS
<1>1. XInv => (\A p \in Procs : SeedStep(p) /\ path \in Tokens => path' = path \/ p \in misread)
  BY DEF XInv, WriterInv, Savers, Loadable, SeedStep
<1> QED
  BY <1>1, XInvInductive, PTL DEF Spec, ExistingFileWins

(* Where the processes run one at a time, everything the program does to   *)
(* the token file implements the atomic save that the store promises       *)
(* (store.go:76-99).                                                       *)
THEOREM ManagerImplementsAtomic == Exclusive => (Spec => SavesAtomically)
<1> SUFFICES ASSUME Exclusive PROVE Spec => SavesAtomically
  OBVIOUS
<1>1. Init => Atomic!Init
  BY DEF Init, FileInit, Atomic!Init
<1>2. XInv /\ [Next]_vars => [Atomic!Next]_(Atomic!vars)
  BY FileStep DEF XInv
<1> QED
  BY <1>1, <1>2, XInvInductive, PTL DEF Spec, SavesAtomically, Atomic!Spec
=============================================================================
