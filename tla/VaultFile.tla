------------------------------ MODULE VaultFile ------------------------------
(***************************************************************************)
(* What the vault promises its users, whatever happens to temporary files: *)
(* the vault is absent, reserved by a running `create`, or one complete    *)
(* set of entries; each session works on its own copy of the entries; a    *)
(* change is first made to that copy and then either committed, replacing  *)
(* the whole vault at once, or reported as failed.                         *)
(*                                                                         *)
(* The detailed counterpart is VaultStore, which refines this module when  *)
(* no two sessions save at the same time (VaultStore!SerialSpec).          *)
(***************************************************************************)
EXTENDS Naturals

CONSTANTS Sessions, \* processes that may hold the vault open
          Names,    \* names of secrets
          Vals,     \* values of secrets
          NoVal,    \* "this name has no entry"
          Absent,   \* there is no vault file
          Reserved  \* the vault file exists and is empty

VARIABLES disk,   \* the vault as a reader of the file sees it
          phase,  \* what each session is doing
          view,   \* each session's in-memory copy of the entries
          reply   \* what its last change was answered

vars == <<disk, phase, view, reply>>

Entries == [Names -> Vals \cup {NoVal}]
NoEntries == [n \in Names |-> NoVal]

Phases == {"locked", "creating", "loading", "ready", "pending"}

Init ==
  /\ disk \in {Absent} \cup Entries
  /\ phase = [s \in Sessions |-> "locked"]
  /\ view = [s \in Sessions |-> NoEntries]
  /\ reply = [s \in Sessions |-> "none"]

Goto(s, p, e, r) ==
  /\ phase' = [phase EXCEPT ![s] = p]
  /\ view' = [view EXCEPT ![s] = e]
  /\ reply' = [reply EXCEPT ![s] = r]

(* A creator claims the path; only a path nobody holds can be claimed.     *)
Reserve(s) ==
  /\ phase[s] = "locked" /\ disk = Absent
  /\ disk' = Reserved
  /\ Goto(s, "creating", NoEntries, "none")

(* A session reads the vault; its copy is the vault at this very moment.   *)
Load(s) ==
  /\ phase[s] = "locked" /\ disk \in Entries
  /\ Goto(s, "loading", disk, "none")
  /\ UNCHANGED disk

Unlock(s) ==
  /\ phase[s] = "loading"
  /\ Goto(s, "ready", view[s], "none")
  /\ UNCHANGED disk

(* A change touches one name of the session's own copy.                    *)
Edit(s, n, v) ==
  /\ phase[s] = "ready"
  /\ Goto(s, "pending", [view[s] EXCEPT ![n] = v], "none")
  /\ UNCHANGED disk

(* The whole vault is replaced at once: by the copy of a session with a    *)
(* pending change, or by the empty vault of the creator that reserved it.  *)
Commit(s) ==
  /\ \/ phase[s] = "pending" /\ disk \in Entries
     \/ phase[s] = "creating" /\ disk = Reserved
  /\ disk' = view[s]
  /\ Goto(s, "ready", view[s], "ok")

(* A save that fails leaves the vault alone and the change in memory.      *)
Fail(s) ==
  /\ phase[s] = "pending"
  /\ Goto(s, "ready", view[s], "err")
  /\ UNCHANGED disk

(* Lock, a failed open or create, the end of the process, a crash.         *)
Leave(s) ==
  /\ phase[s] # "locked"
  /\ Goto(s, "locked", NoEntries, "none")
  /\ UNCHANGED disk

Next ==
  \E s \in Sessions :
    \/ Reserve(s) \/ Load(s) \/ Unlock(s) \/ Commit(s) \/ Fail(s) \/ Leave(s)
    \/ \E n \in Names, v \in Vals \cup {NoVal} : Edit(s, n, v)

Spec == Init /\ [][Next]_vars
=============================================================================
