------------------------------ MODULE Clipboard ------------------------------
(***************************************************************************)
(* Copying a secret from the terminal UI (src/ui/clipboard.rs): the first  *)
(* clipboard tool that seems to work gets the secret, and a thread of the  *)
(* same process sleeps CLEAR_AFTER and has that tool write nothing.        *)
(*                                                                         *)
(* Abstracted: the value copied, and the tools: one is missing, works, or  *)
(* is broken (it starts, and exits without touching the clipboard, for     *)
(* example wl-copy without a Wayland session).  Writing to the pipe of a   *)
(* broken tool may still succeed, and its exit status is not looked at.    *)
(* Time is counted in ticks; a thread that is due runs before the next.    *)
(***************************************************************************)
EXTENDS Naturals

CONSTANTS NTools,     \* length of CANDIDATES
          ClearAfter, \* CLEAR_AFTER in ticks
          MaxCopies   \* bound on the number of copies

(* What the constants may be.                                              *)
InputsAreSound == NTools \in Nat /\ ClearAfter \in Nat \ {0} /\ MaxCopies \in Nat

Tools == 1..NTools

VARIABLES tool,    \* what each candidate does on this machine
          running, \* the process of the UI
          board,   \* what the clipboard holds
          age,     \* ticks since the secret on it was copied
          timers,  \* the sleeping threads: ticks left, tool, and copy
          status,  \* the answer to the last copy
          copies   \* number of copies so far

vars == <<tool, running, board, age, timers, status, copies>>

TypeOK ==
  /\ tool \in [Tools -> {"missing", "works", "broken"}]
  /\ running \in BOOLEAN
  /\ board \in {"secret", "other", "empty"}
  /\ age \in 0..(ClearAfter + 1)
  /\ timers \subseteq [left : 0..ClearAfter, tool : Tools, copy : 1..MaxCopies]
  /\ status \in {"none", "copied", "error"}
  /\ copies \in 0..MaxCopies

Init ==
  /\ tool \in [Tools -> {"missing", "works", "broken"}]
  /\ running = TRUE /\ board = "other" /\ age = 0
  /\ timers = {} /\ status = "none" /\ copies = 0

(* spawn_write can answer Ok, or can answer Err.                           *)
WriteOk(t) == tool[t] \in {"works", "broken"}
WriteErr(t) == tool[t] \in {"missing", "broken"}

(* write_clipboard takes the first tool whose write answers Ok.            *)
TakenBy(t) == WriteOk(t) /\ \A u \in 1..(t - 1) : WriteErr(u)

(* copy_with_autoclear.                                                    *)
Copy ==
  /\ running /\ copies < MaxCopies
  /\ copies' = copies + 1
  /\ \/ \E t \in Tools :
          /\ TakenBy(t)
          /\ IF tool[t] = "works" THEN board' = "secret" /\ age' = 0 ELSE UNCHANGED <<board, age>>
          /\ timers' = timers \cup {[left |-> ClearAfter, tool |-> t, copy |-> copies']}
          /\ status' = "copied"
     \/ /\ \A t \in Tools : WriteErr(t)
        /\ status' = "error" /\ UNCHANGED <<board, age, timers>>
  /\ UNCHANGED <<tool, running>>

(* Mutated: the thread always uses the first candidate to clear.           *)
ClearWithFirst ==
  \E x \in timers :
    /\ running /\ x.left = 0
    /\ timers' = timers \ {x}
    /\ IF tool[1] = "works" THEN board' = "empty" /\ age' = 0 ELSE UNCHANGED <<board, age>>
    /\ UNCHANGED <<tool, running, status, copies>>

(* A thread wakes and clears whatever the clipboard holds.                 *)
Clear ==
  \E x \in timers :
    /\ running /\ x.left = 0
    /\ timers' = timers \ {x}
    /\ IF tool[x.tool] = "works" THEN board' = "empty" /\ age' = 0 ELSE UNCHANGED <<board, age>>
    /\ UNCHANGED <<tool, running, status, copies>>

(* Another program puts something on the clipboard.                        *)
OtherCopies ==
  /\ board # "other"
  /\ board' = "other" /\ age' = 0
  /\ UNCHANGED <<tool, running, timers, status, copies>>

(* Quitting the UI ends its threads.                                       *)
Quit ==
  /\ running
  /\ running' = FALSE /\ timers' = {}
  /\ UNCHANGED <<tool, board, age, status, copies>>

Tick ==
  /\ \A x \in timers : x.left > 0
  /\ timers' = {[x EXCEPT !.left = @ - 1] : x \in timers}
  /\ age' = IF board = "secret" /\ age <= ClearAfter THEN age + 1 ELSE age
  /\ UNCHANGED <<tool, running, board, status, copies>>

Next == Copy \/ Clear \/ OtherCopies \/ Quit \/ Tick

Spec == Init /\ [][Next]_vars

-----------------------------------------------------------------------------
(* While the UI runs, a secret it copied is gone from the clipboard after  *)
(* CLEAR_AFTER, however many copies and other programs come in between.    *)
ClearedWhileRunning == running /\ board = "secret" => age <= ClearAfter
=============================================================================
