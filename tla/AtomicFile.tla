----------------------------- MODULE AtomicFile -----------------------------
(***************************************************************************)
(* What "Save writes the token atomically" (internal/auth/store.go:76)     *)
(* promises a reader of the token file: at every instant the file is       *)
(* absent or holds one complete token, namely one that a process asked to  *)
(* store; a save that fails, or whose process dies, changes nothing.       *)
(***************************************************************************)
CONSTANTS Procs, Tokens, Absent, None

VARIABLES content,  \* what a reader finds
          offer     \* the token each process is storing, or None

vars == <<content, offer>>

Init == content \in Tokens \cup {Absent} /\ offer = [p \in Procs |-> None]

Begin(p) ==
  /\ offer[p] = None
  /\ \E t \in Tokens : offer' = [offer EXCEPT ![p] = t]
  /\ UNCHANGED content

Commit(p) ==
  /\ offer[p] # None
  /\ content' = offer[p]
  /\ offer' = [offer EXCEPT ![p] = None]

GiveUp(p) ==
  /\ offer' = [offer EXCEPT ![p] = None]
  /\ UNCHANGED content

Remove ==
  /\ content' = Absent
  /\ UNCHANGED offer

Next == Remove \/ \E p \in Procs : Begin(p) \/ Commit(p) \/ GiveUp(p)

Spec == Init /\ [][Next]_vars
=============================================================================
