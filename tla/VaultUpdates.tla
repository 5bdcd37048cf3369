---------------------------- MODULE VaultUpdates ----------------------------
(***************************************************************************)
(* What becomes of a change once it is in the vault file: VaultStore with  *)
(* two history variables.  A session writes back the whole of the copy it  *)
(* read, so the later of two savers takes the changes of the earlier one   *)
(* out of the file again; the module says which changes can be lost that   *)
(* way, and which cannot.                                                  *)
(***************************************************************************)
EXTENDS VaultStore

VARIABLES dirty,  \* names a session has changed since it and the file agreed
          fresh   \* names others have changed in the file since a session read it

uvars == <<vars, dirty, fresh>>

UInit ==
  /\ Init
  /\ dirty = [s \in Sessions |-> {}]
  /\ fresh = [s \in Sessions |-> {}]

(* The entries of the vault file that a step changes.                      *)
ChangedInFile ==
  {n \in Names : VaultWhole /\ VaultWhole' /\ VaultContent[n] # VaultContent'[n]}

Commits(s) == pc[s] = "rename" /\ reply'[s] = "ok"
Gone(s) == pc'[s] = "none"

Record ==
  /\ dirty' = [s \in Sessions |->
       IF Gone(s) \/ Commits(s) THEN {}
       ELSE IF pc[s] = "idle" THEN dirty[s] \cup {n \in Names : mem'[s][n] # mem[s][n]}
       ELSE dirty[s]]
  /\ fresh' = [s \in Sessions |->
       IF Gone(s) \/ Commits(s) \/ pc[s] = "none" THEN {}
       ELSE fresh[s] \cup ChangedInFile]

UNext == Next /\ Record

USpec == UInit /\ [][UNext]_uvars

(* VaultStore's SerialSpec, with the history.                              *)
SerialUpdates == UInit /\ [][UNext /\ OneSaver']_uvars

-----------------------------------------------------------------------------
(* An entry of the vault file changes only when a session that changed it  *)
(* saves, or one whose copy is older than the last change of that entry:   *)
(* nobody loses an update to a session that was opened after it, and no    *)
(* save, failed save, crash or reopening touches another entry.            *)
LosesOnlyUnseen ==
  [][\A n \in ChangedInFile : \E s \in Sessions : Commits(s) /\ n \in dirty[s] \cup fresh[s]]_uvars
=============================================================================
