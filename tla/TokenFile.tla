----------------------------- MODULE TokenFile -----------------------------
(***************************************************************************)
(* The token file of internal/auth/store.go as processes see it: the       *)
(* server, and the command-line program when it is pointed at the same     *)
(* TOKEN_FILE (scripts/dev.sh).  Save creates or truncates <path>.tmp -    *)
(* one fixed name -, writes it, and renames it over <path>; each of these  *)
(* is a step, each can fail, and a process can die after any of them.      *)
(* The file system is external; its state is the contents of the two names *)
(* and what an open file descriptor still points at after a rename.        *)
(***************************************************************************)
EXTENDS Naturals

CONSTANTS Procs,   \* processes that share the file
          Tokens,  \* complete tokens
          Absent,  \* no file of that name
          Empty,   \* a file just created or truncated
          Torn,    \* a file no JSON parser accepts
          None     \* no token is being saved

ASSUME ContentsAssumption ==
  /\ Absent \notin Tokens /\ Empty \notin Tokens /\ Torn \notin Tokens /\ None \notin Tokens
  /\ Absent # Empty /\ Absent # Torn

Contents == Tokens \cup {Absent, Empty, Torn}

VARIABLES path,    \* contents of Store.Path
          tmp,     \* contents of Store.Path + ".tmp"
          stage,   \* how far each process is in Save
          saving,  \* the token it saves
          handle   \* what its descriptor points at: the file now named tmp,
                   \* the one now named path, or one without a name

fileVars == <<path, tmp, stage, saving, handle>>

FileInit ==
  /\ path \in Tokens \cup {Absent}
  /\ tmp \in Contents
  /\ stage = [p \in Procs |-> "none"]
  /\ saving = [p \in Procs |-> None]
  /\ handle = [p \in Procs |-> "closed"]

(* What Load can succeed on; reading it may fail all the same.             *)
Loadable == path \in Tokens

----------------------------------------------------------------------------
OpenPath(p, t) ==  \* mutant: no temporary file
  /\ stage[p] = "none"
  /\ path' = Empty
  /\ stage' = [stage EXCEPT ![p] = "opened"]
  /\ saving' = [saving EXCEPT ![p] = t]
  /\ handle' = [handle EXCEPT ![p] = "path"]
  /\ UNCHANGED tmp

(* os.WriteFile(tmp): open with O_CREATE|O_TRUNC ...                       *)
OpenTmp(p, t) ==
  /\ stage[p] = "none"
  /\ tmp' = Empty
  /\ stage' = [stage EXCEPT ![p] = "opened"]
  /\ saving' = [saving EXCEPT ![p] = t]
  /\ handle' = [handle EXCEPT ![p] = "tmp"]
  /\ UNCHANGED path

(* ... then write at offset 0: over an empty file this yields the token,   *)
(* over another writer's bytes perhaps a mixture of both.                  *)
Written(old, t) == IF old = Empty THEN {t} ELSE {t, Torn}

WriteTmp(p) ==
  /\ stage[p] = "opened"
  /\ tmp' \in IF handle[p] = "tmp" THEN Written(tmp, saving[p]) ELSE {tmp}
  /\ path' \in IF handle[p] = "path" THEN Written(path, saving[p]) ELSE {path}
  /\ stage' = [stage EXCEPT ![p] = "written"]
  /\ handle' = [handle EXCEPT ![p] = "closed"]
  /\ UNCHANGED saving

Release(p) ==
  /\ stage' = [stage EXCEPT ![p] = "none"]
  /\ saving' = [saving EXCEPT ![p] = None]

(* os.Rename(tmp, path): descriptors follow their files.                   *)
Followed(h) == CASE h = "tmp" -> "path" [] h = "path" -> "gone" [] OTHER -> h

RenameEarly(p) ==  \* mutant: renames before the token is written
  /\ stage[p] = "opened"
  /\ path' = tmp
  /\ tmp' = Absent
  /\ handle' = [q \in Procs |-> Followed(handle[q])]
  /\ Release(p)

RenameTmp(p) ==
  /\ stage[p] = "written"
  /\ tmp # Absent
  /\ path' = tmp
  /\ tmp' = Absent
  /\ handle' = [q \in Procs |-> Followed(handle[q])]
  /\ Release(p)

(* Save returns an error: the write fails, perhaps half done, or the       *)
(* rename does - as it must when the other process has renamed the file.   *)
SaveFails(p) ==
  /\ stage[p] # "none"
  /\ tmp' \in IF stage[p] = "opened" /\ handle[p] = "tmp" THEN {tmp, Torn} ELSE {tmp}
  /\ path' \in IF stage[p] = "opened" /\ handle[p] = "path" THEN {path, Torn} ELSE {path}
  /\ handle' = [handle EXCEPT ![p] = "closed"]
  /\ Release(p)

(* The process dies wherever it is; the files stay as they are.            *)
Die(p) ==
  /\ stage[p] # "none"
  /\ handle' = [handle EXCEPT ![p] = "closed"]
  /\ Release(p)
  /\ UNCHANGED <<path, tmp>>

(* Clear (logout).                                                         *)
Clear ==
  /\ path' = Absent
  /\ handle' = [q \in Procs |-> IF handle[q] = "path" THEN "gone" ELSE handle[q]]
  /\ UNCHANGED <<tmp, stage, saving>>

FileNext ==
  \/ Clear
  \/ \E p \in Procs :
       \/ \E t \in Tokens : OpenTmp(p, t)
       \/ WriteTmp(p)
       \/ RenameTmp(p)
       \/ SaveFails(p)
       \/ Die(p)

FileSpec == FileInit /\ [][FileNext]_fileVars

----------------------------------------------------------------------------
(* The types of the file's names and of each process's progress (Store,    *)
(* store.go:50-99).                                                        *)
FileTypeOK ==
  /\ path \in Contents /\ tmp \in Contents
  /\ stage \in [Procs -> {"none", "opened", "written"}]
  /\ saving \in [Procs -> Tokens \cup {None}]
  /\ handle \in [Procs -> {"closed", "tmp", "path", "gone"}]

(* A reader of the file never finds a partial token, wherever a writer     *)
(* fails or dies ("writes the token atomically", store.go:76-90).          *)
NeverTorn == path \in Tokens \cup {Absent}

Atomic == INSTANCE AtomicFile WITH content <- path, offer <- saving

(* Saving is atomic in full: the file changes from one stored token to the *)
(* one being saved, or not at all (store.go:76-90).                        *)
SavesAtomically == Atomic!Spec
=============================================================================
