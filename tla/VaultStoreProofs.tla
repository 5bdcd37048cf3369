-------------------------- MODULE VaultStoreProofs --------------------------
(***************************************************************************)
(* Theorems about VaultStore and VaultUpdates, for any number of sessions, *)
(* names, values and inodes.                                               *)
(***************************************************************************)
EXTENDS VaultUpdates, TLAPS

-----------------------------------------------------------------------------
(* Type correctness.                                                       *)

LEMMA NoEntriesType == NoEntries \in Entries
  BY DEF NoEntries, Entries

LEMMA ReclaimType ==
  ASSUME NEW d \in [Inodes -> Contents], NEW nd, NEW f
  PROVE  Reclaim(d, nd, f) \in [Inodes -> Contents]
  BY DEF Reclaim, Contents

LEMMA OverlayType ==
  ASSUME NEW e \in Entries, NEW c \in Contents
  PROVE  Overlay(e, c) \subseteq Contents
  BY DEF Overlay, Contents

LEMMA SaveErrType ==
  ASSUME TypeOK, NEW s \in Sessions, SaveErr(s)
  PROVE  /\ pc' \in [Sessions -> Places]
         /\ op' \in [Sessions -> Ops]
         /\ mem' \in [Sessions -> Entries]
         /\ reply' \in [Sessions -> {"none", "ok", "err"}]
  <1>1. CASE op[s] = "create" /\ Drop(s)
    BY <1>1, NoEntriesType DEF TypeOK, Drop, Goto, Places, Ops
  <1>2. CASE /\ op[s] = "change"
             /\ Goto(s, "idle")
             /\ reply' = [reply EXCEPT ![s] = "err"]
             /\ UNCHANGED <<op, mem>>
    BY <1>2 DEF TypeOK, Goto, Places
  <1> QED BY <1>1, <1>2 DEF SaveErr

LEMMA CloseType ==
  ASSUME TypeOK, NEW s \in Sessions, NEW c,
         fd[s] \in Inodes => c \in Contents,
         Close(s, [data EXCEPT ![fd[s]] = c])
  PROVE  /\ data' \in [Inodes -> Contents]
         /\ fd' \in [Sessions -> Inodes \cup {NoInode}]
  <1>1. [data EXCEPT ![fd[s]] = c] \in [Inodes -> Contents]
    BY DEF TypeOK
  <1> QED BY <1>1, ReclaimType DEF TypeOK, Close

LEMMA CutShortType ==
  ASSUME TypeOK, NEW s \in Sessions, CutShort(s)
  PROVE  /\ data' \in [Inodes -> Contents]
         /\ fd' \in [Sessions -> Inodes \cup {NoInode}]
  <1>1. PICK c \in {data[fd[s]], Torn} : Close(s, [data EXCEPT ![fd[s]] = c])
    BY DEF CutShort
  <1>2. fd[s] \in Inodes => c \in Contents
    BY DEF TypeOK, Contents
  <1> QED BY <1>1, <1>2, CloseType

LEMMA StepType ==
  ASSUME TypeOK, NEW s \in Sessions, Step(s)
  PROVE  TypeOK'
  <1> USE NoEntriesType
  <1>1. CASE Reserve(s)
    BY <1>1 DEF TypeOK, Reserve, Free, Goto, Places, Ops, Contents
  <1>2. CASE CreateDerived(s)
    BY <1>2 DEF TypeOK, CreateDerived, Goto, Places
  <1>3. CASE CreateDeriveFails(s) \/ WrongPassphrase(s) \/ Lock(s)
    BY <1>3 DEF TypeOK, CreateDeriveFails, WrongPassphrase, Lock, Drop, Goto, Places, Ops
  <1>4. CASE ReadVault(s)
    BY <1>4 DEF TypeOK, ReadVault, VaultWhole, VaultContent, Goto, Places
  <1>5. CASE Unlock(s)
    BY <1>5 DEF TypeOK, Unlock, Goto, Places
  <1>6. ASSUME NEW n \in Names, Delete(s, n) PROVE TypeOK'
    BY <1>6 DEF TypeOK, Delete, Goto, Places, Entries
  <1>7. ASSUME NEW n \in Names, NEW v \in Vals, Put(s, n, v) PROVE TypeOK'
    BY <1>7 DEF TypeOK, Put, Goto, Places, Entries
  <1>8. CASE OpenTmp(s)
    BY <1>8 DEF TypeOK, OpenTmp, Free, Goto, Places, Contents
  <1>9. CASE OpenTmpFails(s)
    BY <1>9, SaveErrType DEF TypeOK, OpenTmpFails
  <1>10. CASE WriteTmp(s)
    <2>1. PICK c \in Overlay(mem[s], data[fd[s]]) : Close(s, [data EXCEPT ![fd[s]] = c])
      BY <1>10 DEF WriteTmp
    <2>2. fd[s] \in Inodes => c \in Contents
      BY <2>1, OverlayType DEF TypeOK
    <2> QED BY <2>1, <2>2, <1>10, CloseType DEF WriteTmp, TypeOK, Goto, Places
  <1>11. CASE WriteFails(s)
    BY <1>11, SaveErrType, CutShortType DEF WriteFails, TypeOK
  <1>12. CASE Rename(s)
    BY <1>12, ReclaimType DEF Rename, TypeOK, SaveOk, Goto, Places, Ops
  <1>13. CASE RenameFails(s)
    BY <1>13, ReclaimType, SaveErrType DEF RenameFails, TypeOK
  <1>14. CASE Crash(s)
    <2>1. data' \in [Inodes -> Contents] /\ fd' \in [Sessions -> Inodes \cup {NoInode}]
      BY <1>14, CutShortType DEF Crash, TypeOK
    <2> QED BY <2>1, <1>14 DEF Crash, TypeOK, Drop, Goto, Places, Ops
  <1> QED
    BY <1>1, <1>2, <1>3, <1>4, <1>5, <1>6, <1>7, <1>8, <1>9, <1>10, <1>11,
       <1>12, <1>13, <1>14 DEF Step, Save

(* Every variable keeps its type, however the sessions interleave, fail    *)
(* and crash: no read or write ever goes through a descriptor or directory *)
(* entry that is not an inode, and no memory holds anything but entries.   *)
THEOREM TypeCorrect == Spec => []TypeOK
  <1>1. Init => TypeOK
    BY NoEntriesType DEF Init, TypeOK, Places, Ops, Contents
  <1>2. TypeOK /\ [Next]_vars => TypeOK'
    BY StepType DEF Next, vars, TypeOK
  <1> QED BY <1>1, <1>2, PTL DEF Spec

-----------------------------------------------------------------------------
(* The creator is alone.  The invariant is inductive only together with    *)
(* who holds a descriptor, which operation a session is in, and the fact   *)
(* that before there is a vault nobody does anything.                      *)

Apart == node.tmp # NoInode => node.tmp # node.vault

WriterHolds == \A t \in Sessions : fd[t] # NoInode <=> pc[t] = "write"

NobodyBefore == ~VaultExists => \A t \in Sessions : pc[t] = "none"

OpKnown ==
  \A t \in Sessions :
    /\ pc[t] \in {"none", "read", "idle"} => op[t] = "change"
    /\ pc[t] = "derive" => op[t] = "create"

CreatorWritesTmp ==
  \A t \in Sessions : op[t] = "create" /\ pc[t] = "write" => fd[t] = node.tmp

CInv == TypeOK /\ Apart /\ WriterHolds /\ NobodyBefore /\ OpKnown
        /\ CreatorWritesTmp /\ CreatorIsAlone

LEMMA CloseKeepsReservation ==
  ASSUME CInv, NEW s \in Sessions, pc[s] = "write", UNCHANGED node,
         NEW c, Close(s, [data EXCEPT ![fd[s]] = c]), NEW t \in Sessions, Creating(t)
  PROVE  VaultExists' /\ VaultContent' = Blank
  <1>1. t = s /\ op[s] = "create"
    BY DEF CInv, CreatorIsAlone, Creating, Saving
  <1>2. VaultExists /\ VaultContent = Blank
    BY DEF CInv, CreatorIsAlone
  <1>3. fd[s] # NoInode /\ fd[s] = node.tmp /\ fd[s] # node.vault
    BY <1>1 DEF CInv, CreatorWritesTmp, WriterHolds, Apart
  <1>4. node.vault \in Inodes /\ [data EXCEPT ![fd[s]] = c][node.vault] = Blank
    BY <1>2, <1>3 DEF CInv, TypeOK, VaultExists, VaultContent
  <1> QED BY <1>2, <1>4 DEF VaultExists, VaultContent, Close, Reclaim, LinkedIn

LEMMA CInvStep ==
  ASSUME CInv, NEW s \in Sessions, Step(s)
  PROVE  CInv'
  <1>0. TypeOK /\ TypeOK'
    BY StepType DEF CInv
  <1> USE <1>0
  <1>1. CASE Reserve(s)
    BY <1>1 DEF CInv, TypeOK, Apart, WriterHolds, NobodyBefore, OpKnown, CreatorWritesTmp,
      CreatorIsAlone, Creating, Saving, VaultExists, VaultContent, Reserve, Goto, Free, LinkedIn, HeldIn
  <1>2. CASE CreateDerived(s)
    BY <1>2 DEF CInv, TypeOK, Apart, WriterHolds, NobodyBefore, OpKnown, CreatorWritesTmp,
      CreatorIsAlone, Creating, Saving, VaultExists, VaultContent, CreateDerived, Goto
  <1>3. CASE CreateDeriveFails(s) \/ WrongPassphrase(s) \/ Lock(s)
    BY <1>3 DEF CInv, TypeOK, Apart, WriterHolds, NobodyBefore, OpKnown, CreatorWritesTmp,
      CreatorIsAlone, Creating, Saving, VaultExists, VaultContent, CreateDeriveFails, WrongPassphrase, Lock, Drop, Goto
  <1>4. CASE ReadVault(s)
    BY <1>4, SentinelsAssumption DEF CInv, TypeOK, Apart, WriterHolds, NobodyBefore, OpKnown, CreatorWritesTmp,
      CreatorIsAlone, Creating, Saving, VaultExists, VaultContent, ReadVault, VaultWhole, Goto
  <1>5. CASE Unlock(s)
    BY <1>5 DEF CInv, TypeOK, Apart, WriterHolds, NobodyBefore, OpKnown, CreatorWritesTmp,
      CreatorIsAlone, Creating, Saving, VaultExists, VaultContent, Unlock, Goto
  <1>6. ASSUME NEW n \in Names, Delete(s, n) PROVE CInv'
    BY <1>6 DEF CInv, TypeOK, Apart, WriterHolds, NobodyBefore, OpKnown, CreatorWritesTmp,
      CreatorIsAlone, Creating, Saving, VaultExists, VaultContent, Delete, Goto
  <1>7. ASSUME NEW n \in Names, NEW v \in Vals, Put(s, n, v) PROVE CInv'
    BY <1>7 DEF CInv, TypeOK, Apart, WriterHolds, NobodyBefore, OpKnown, CreatorWritesTmp,
      CreatorIsAlone, Creating, Saving, VaultExists, VaultContent, Put, Goto
  <1>8. CASE OpenTmp(s)
    BY <1>8 DEF CInv, TypeOK, Apart, WriterHolds, NobodyBefore, OpKnown, CreatorWritesTmp,
      CreatorIsAlone, Creating, Saving, VaultExists, VaultContent, OpenTmp, Goto, Free, LinkedIn, HeldIn
  <1>9. CASE OpenTmpFails(s)
    BY <1>9 DEF CInv, TypeOK, Apart, WriterHolds, NobodyBefore, OpKnown, CreatorWritesTmp,
      CreatorIsAlone, Creating, Saving, VaultExists, VaultContent, OpenTmpFails, SaveErr, Drop, Goto
  <1>10. CASE WriteTmp(s)
    <2>1. PICK c \in Overlay(mem[s], data[fd[s]]) : Close(s, [data EXCEPT ![fd[s]] = c])
      BY <1>10 DEF WriteTmp
    <2>2. fd' = [fd EXCEPT ![s] = NoInode]
      BY <2>1 DEF Close
    <2>3. \A t \in Sessions : Creating(t) => VaultExists' /\ VaultContent' = Blank
      BY <2>1, <1>10, CloseKeepsReservation DEF WriteTmp
    <2> QED
      BY <2>2, <2>3, <1>10 DEF CInv, TypeOK, Apart, WriterHolds, NobodyBefore, OpKnown,
        CreatorWritesTmp, CreatorIsAlone, Creating, Saving, VaultExists, WriteTmp, Goto
  <1>11. CASE WriteFails(s)
    <2>1. PICK c \in {data[fd[s]], Torn} : Close(s, [data EXCEPT ![fd[s]] = c])
      BY <1>11 DEF WriteFails, CutShort
    <2>2. fd' = [fd EXCEPT ![s] = NoInode]
      BY <2>1 DEF Close
    <2>3. \A t \in Sessions : Creating(t) => VaultExists' /\ VaultContent' = Blank
      BY <2>1, <1>11, CloseKeepsReservation DEF WriteFails
    <2> QED
      BY <2>2, <2>3, <1>11 DEF CInv, TypeOK, Apart, WriterHolds, NobodyBefore, OpKnown,
        CreatorWritesTmp, CreatorIsAlone, Creating, Saving, VaultExists, WriteFails, SaveErr, Drop, Goto
  <1>12. CASE Rename(s)
    BY <1>12 DEF CInv, TypeOK, Apart, WriterHolds, NobodyBefore, OpKnown, CreatorWritesTmp,
      CreatorIsAlone, Creating, Saving, VaultExists, VaultContent, Rename, SaveOk, Reclaim, LinkedIn, Goto
  <1>13. CASE RenameFails(s)
    BY <1>13 DEF CInv, TypeOK, Apart, WriterHolds, NobodyBefore, OpKnown, CreatorWritesTmp,
      CreatorIsAlone, Creating, Saving, VaultExists, VaultContent, RenameFails, SaveErr, Drop, Reclaim, LinkedIn, Goto
  <1>14. CASE Crash(s)
    BY <1>14 DEF CInv, TypeOK, Apart, WriterHolds, NobodyBefore, OpKnown, CreatorWritesTmp,
      CreatorIsAlone, Creating, Saving, VaultExists, VaultContent, Crash, CutShort, Close, Reclaim, LinkedIn, Drop, Goto
  <1> QED
    BY <1>1, <1>2, <1>3, <1>4, <1>5, <1>6, <1>7, <1>8, <1>9, <1>10, <1>11,
       <1>12, <1>13, <1>14 DEF Step, Save

LEMMA CInvInit == Init => CInv
  BY NoEntriesType DEF Init, CInv, TypeOK, Places, Ops, Contents, Apart, WriterHolds,
    NobodyBefore, OpKnown, CreatorWritesTmp, CreatorIsAlone, Creating, Saving, VaultExists

LEMMA CInvInductive == Spec => []CInv
  <1>1. Init => CInv
    BY CInvInit
  <1>2. CInv /\ Next => CInv'
    BY CInvStep DEF Next
  <1>3. CInv /\ UNCHANGED vars => CInv'
    BY DEF vars, CInv, TypeOK, Apart, WriterHolds, NobodyBefore, OpKnown, CreatorWritesTmp,
      CreatorIsAlone, Creating, Saving, VaultExists, VaultContent
  <1> QED BY <1>1, <1>2, <1>3, PTL DEF Spec

(* While one session creates the vault, the path holds its reservation and *)
(* nobody else has a store: whoever runs `init` or the UI's create at the  *)
(* same time, the empty vault that create saves replaces no one's secrets. *)
THEOREM CreateClobbersNothing == Spec => []CreatorIsAlone
  <1>1. CInv => CreatorIsAlone
    BY DEF CInv
  <1> QED BY <1>1, CInvInductive, PTL
-----------------------------------------------------------------------------
(* One save at a time.  Then .tmp belongs to the session that saves: it is *)
(* blank until that session writes it and holds the session's memory when  *)
(* it is renamed.                                                          *)

WriterOwnsTmp ==
  \A t \in Sessions : pc[t] = "write" => fd[t] = node.tmp /\ data[fd[t]] = Blank

TmpIsMemory ==
  \A t \in Sessions : pc[t] = "rename" => node.tmp # NoInode /\ data[node.tmp] = mem[t]

WholeBehind ==
  \A t \in Sessions :
    pc[t] \in {"read", "idle"} \/ (Saving(t) /\ op[t] = "change") => VaultWhole

Fresh ==
  \A t \in Sessions :
    /\ pc[t] = "none" \/ Creating(t) => mem[t] = NoEntries
    /\ pc[t] # "idle" => reply[t] = "none"

SInv == CInv /\ OneSaver /\ WriterOwnsTmp /\ TmpIsMemory /\ WholeBehind /\ Fresh

(* Closing .tmp leaves the vault alone.                                    *)
LEMMA CloseKeepsVault ==
  ASSUME SInv, NEW s \in Sessions, pc[s] = "write", UNCHANGED node,
         NEW c, Close(s, [data EXCEPT ![fd[s]] = c])
  PROVE  /\ fd' = [fd EXCEPT ![s] = NoInode]
         /\ VaultExists => VaultContent' = VaultContent
         /\ data'[node.tmp] = c
  <1>1. fd[s] = node.tmp /\ fd[s] # NoInode /\ fd[s] \in Inodes
    BY DEF SInv, WriterOwnsTmp, CInv, WriterHolds, TypeOK
  <1>2. VaultExists => node.vault \in Inodes /\ [data EXCEPT ![fd[s]] = c][node.vault] = VaultContent
    BY <1>1 DEF SInv, CInv, TypeOK, Apart, VaultExists, VaultContent
  <1>3. [data EXCEPT ![fd[s]] = c][node.tmp] = c
    BY <1>1 DEF SInv, CInv, TypeOK
  <1> QED BY <1>1, <1>2, <1>3 DEF Close, Reclaim, LinkedIn, VaultExists, VaultContent

(* Only the rename of a save and the reservation of a create change what a *)
(* reader of the vault's path finds.                                       *)
LEMMA VaultKept ==
  ASSUME SInv, NEW s \in Sessions, Step(s), ~Rename(s), VaultExists
  PROVE  node'.vault = node.vault /\ VaultContent' = VaultContent
  <1>1. CASE UNCHANGED <<node, data>>
    BY <1>1 DEF VaultContent
  <1>2. CASE OpenTmp(s)
    BY <1>2 DEF SInv, CInv, TypeOK, Apart, OpenTmp, Free, LinkedIn, VaultExists, VaultContent
  <1>3. CASE WriteTmp(s)
    BY <1>3, CloseKeepsVault DEF WriteTmp
  <1>4. CASE WriteFails(s)
    BY <1>4, CloseKeepsVault DEF WriteFails, CutShort
  <1>5. CASE RenameFails(s)
    BY <1>5 DEF SInv, CInv, TypeOK, RenameFails, Reclaim, LinkedIn, VaultExists, VaultContent
  <1>6. CASE Crash(s)
    BY <1>6, CloseKeepsVault DEF Crash, CutShort, VaultContent
  <1> QED
    BY <1>1, <1>2, <1>3, <1>4, <1>5, <1>6 DEF Step, Save, Reserve, CreateDerived,
      CreateDeriveFails, ReadVault, Unlock, WrongPassphrase, Delete, Put, OpenTmpFails, Lock,
      VaultExists

LEMMA RenameInstalls ==
  ASSUME SInv, NEW s \in Sessions, Rename(s)
  PROVE  VaultWhole' /\ VaultContent' = mem[s] /\ mem' = mem
  <1>1. node.tmp \in Inodes /\ data[node.tmp] = mem[s] /\ mem[s] \in Entries
    BY DEF SInv, CInv, TypeOK, TmpIsMemory, Rename
  <1> QED
    BY <1>1, SentinelsAssumption
    DEF Rename, SaveOk, Reclaim, LinkedIn, VaultWhole, VaultExists, VaultContent

LEMMA SInvStep ==
  ASSUME SInv, NEW s \in Sessions, Step(s), OneSaver'
  PROVE  SInv'
  <1>1. CInv' /\ TypeOK /\ TypeOK'
    BY CInvStep DEF SInv, CInv
  <1>2. VaultWhole => VaultWhole'
    BY VaultKept, RenameInstalls, SentinelsAssumption DEF VaultWhole, VaultExists
  <1>3. WholeBehind'
    <2>1. CASE Rename(s)
      BY <2>1, RenameInstalls DEF WholeBehind
    <2>2. CASE ReadVault(s)
      BY <2>2, <1>2 DEF WholeBehind, ReadVault
    <2>3. CASE ~Rename(s) /\ ~ReadVault(s)
      BY <1>1, <1>2, <2>3 DEF SInv, CInv, TypeOK, OpKnown, WholeBehind, Saving, Goto, Drop,
        SaveErr, Step, Save, Reserve, CreateDerived, CreateDeriveFails, Unlock,
        WrongPassphrase, Delete, Put, OpenTmp, OpenTmpFails, WriteTmp, WriteFails,
        RenameFails, Lock, Crash
    <2> QED BY <2>1, <2>2, <2>3
  <1>4. Fresh'
    <2>1. CASE Save(s)
      BY <1>1, <2>1 DEF SInv, CInv, TypeOK, Fresh, Creating, Saving, Goto, Drop, SaveOk, SaveErr,
        Save, OpenTmp, OpenTmpFails, WriteTmp, WriteFails, Rename, RenameFails
    <2>2. CASE ~Save(s)
      BY <1>1, <2>2 DEF SInv, CInv, TypeOK, OpKnown, Fresh, Creating, Saving, Goto, Drop, Step,
        Reserve, CreateDerived, CreateDeriveFails, ReadVault, Unlock, WrongPassphrase,
        Delete, Put, Lock, Crash
    <2> QED BY <2>1, <2>2
  <1>5. WriterOwnsTmp'
    <2>1. CASE OpenTmp(s)
      BY <1>1, <2>1 DEF SInv, TypeOK, OneSaver, Saving, OpenTmp, Goto, Free, WriterOwnsTmp
    <2>2. CASE Saving(s) /\ ~OpenTmp(s)
      BY <1>1, <2>2 DEF SInv, TypeOK, OneSaver, Saving, Goto, Drop, SaveOk, SaveErr,
        Step, Save, OpenTmpFails, WriteTmp, WriteFails, Rename, RenameFails, Crash,
        WriterOwnsTmp, Reserve, CreateDerived, CreateDeriveFails, ReadVault, Unlock,
        WrongPassphrase, Delete, Put, Lock
    <2>3. CASE Reserve(s)
      BY <1>1, <2>3 DEF SInv, CInv, TypeOK, NobodyBefore, Reserve, Goto, WriterOwnsTmp
    <2>4. CASE ~Saving(s) /\ ~Reserve(s)
      BY <1>1, <2>4 DEF SInv, TypeOK, OneSaver, Saving, Goto, Drop, WriterOwnsTmp,
        Step, Save, OpenTmp, OpenTmpFails, WriteTmp, WriteFails, Rename, RenameFails, Crash,
        CreateDerived, CreateDeriveFails, ReadVault, Unlock, WrongPassphrase, Delete, Put, Lock
    <2> QED BY <2>1, <2>2, <2>3, <2>4
  <1>6. TmpIsMemory'
    <2>1. CASE WriteTmp(s)
      <3>1. Overlay(mem[s], data[fd[s]]) = {mem[s]}
        BY <2>1 DEF SInv, WriterOwnsTmp, WriteTmp, Overlay
      <3>2. Close(s, [data EXCEPT ![fd[s]] = mem[s]])
        BY <2>1, <3>1 DEF WriteTmp
      <3>3. data'[node.tmp] = mem[s] /\ node.tmp # NoInode
        BY <2>1, <3>2, CloseKeepsVault DEF WriteTmp, SInv, CInv, WriterOwnsTmp, WriterHolds
      <3> QED
        BY <1>1, <2>1, <3>3 DEF SInv, TypeOK, OneSaver, Saving, WriteTmp, Goto, TmpIsMemory
    <2>2. CASE Saving(s) /\ ~WriteTmp(s)
      BY <1>1, <2>2 DEF SInv, TypeOK, OneSaver, Saving, Goto, Drop, SaveOk, SaveErr,
        Step, Save, OpenTmp, OpenTmpFails, WriteFails, Rename, RenameFails, Crash,
        TmpIsMemory, Reserve, CreateDerived, CreateDeriveFails, ReadVault, Unlock,
        WrongPassphrase, Delete, Put, Lock
    <2>3. CASE Reserve(s)
      BY <1>1, <2>3 DEF SInv, CInv, TypeOK, NobodyBefore, Reserve, Goto, TmpIsMemory
    <2>4. CASE ~Saving(s) /\ ~Reserve(s)
      BY <1>1, <2>4 DEF SInv, TypeOK, OneSaver, Saving, Goto, Drop, TmpIsMemory,
        Step, Save, OpenTmp, OpenTmpFails, WriteTmp, WriteFails, Rename, RenameFails, Crash,
        CreateDerived, CreateDeriveFails, ReadVault, Unlock, WrongPassphrase, Delete, Put, Lock
    <2> QED BY <2>1, <2>2, <2>3, <2>4
  <1> QED BY <1>1, <1>3, <1>4, <1>5, <1>6 DEF SInv

LEMMA SInvInductive == SerialSpec => []SInv
  <1>1. Init => SInv
    <2>1. Init => CInv
      BY CInvInit
    <2> QED
      BY <2>1 DEF Init, SInv, OneSaver, Saving, Creating, WriterOwnsTmp, TmpIsMemory, WholeBehind, Fresh
  <1>2. SInv /\ Next /\ OneSaver' => SInv'
    BY SInvStep DEF Next
  <1>3. SInv /\ UNCHANGED vars => SInv'
    BY DEF vars, SInv, CInv, TypeOK, Apart, WriterHolds, NobodyBefore, OpKnown,
      CreatorWritesTmp, CreatorIsAlone, Creating, Saving, VaultExists, VaultContent, VaultWhole,
      OneSaver, WriterOwnsTmp, TmpIsMemory, WholeBehind, Fresh
  <1> QED BY <1>1, <1>2, <1>3, PTL DEF SerialSpec

(* A whole vault stays whole: with one save at a time, no failed write,    *)
(* failed rename or crash at any point of a save can leave the vault       *)
(* truncated or torn.                                                      *)
THEOREM SerialSavesKeepTheVault == SerialSpec => VaultStaysWhole
  <1>1. ASSUME SInv, [Next /\ OneSaver']_vars, VaultWhole PROVE VaultWhole'
    <2>1. CASE UNCHANGED vars
      BY <1>1, <2>1 DEF vars, VaultWhole, VaultExists, VaultContent
    <2>2. ASSUME NEW s \in Sessions, Step(s) PROVE VaultWhole'
      BY <1>1, <2>2, VaultKept, RenameInstalls DEF VaultWhole, VaultExists
    <2> QED BY <1>1, <2>1, <2>2 DEF Next
  <1>2. SInv /\ [Next /\ OneSaver']_vars => [VaultWhole => VaultWhole']_vars
    BY <1>1
  <1> QED BY <1>2, SInvInductive, PTL DEF SerialSpec, VaultStaysWhole

(* "ok" means the vault is exactly the memory of the session that was      *)
(* answered; "err" means the vault did not change.                         *)
THEOREM SerialRepliesAreTrue == SerialSpec => ReplyTellsTheDisk
  <1> DEFINE Good ==
        \A s \in Sessions :
          /\ reply[s] # "ok" /\ reply'[s] = "ok" => VaultWhole' /\ VaultContent' = mem'[s]
          /\ reply[s] # "err" /\ reply'[s] = "err" => VaultContent' = VaultContent
  <1>1. ASSUME SInv, NEW s \in Sessions, Step(s) PROVE Good
    <2>1. CASE Rename(s)
      BY <1>1, <2>1, RenameInstalls DEF Rename, SaveOk, SInv, CInv, TypeOK
    <2>2. CASE ~Rename(s)
      <3>1. \A t \in Sessions : reply'[t] = reply[t] \/ reply'[t] = "none"
                                \/ (t = s /\ SaveErr(s) /\ op[s] = "change" /\ Saving(s) /\ reply'[t] = "err")
        BY <1>1, <2>2 DEF SInv, CInv, TypeOK, Drop, SaveErr, Saving, Step, Save, Reserve, CreateDerived,
          CreateDeriveFails, ReadVault, Unlock, WrongPassphrase, Delete, Put, OpenTmp, OpenTmpFails,
          WriteTmp, WriteFails, RenameFails, Lock, Crash
      <3>2. op[s] = "change" /\ Saving(s) => VaultContent' = VaultContent
        BY <1>1, <2>2, VaultKept DEF SInv, WholeBehind, VaultWhole
      <3> QED BY <3>1, <3>2
    <2> QED BY <2>1, <2>2
  <1>2. SInv /\ [Next /\ OneSaver']_vars => [Good]_vars
    BY <1>1 DEF Next
  <1> QED BY <1>2, SInvInductive, PTL DEF SerialSpec, ReplyTellsTheDisk

-----------------------------------------------------------------------------
(* The refinement.  Every step of VaultStore is a step of VaultFile or     *)
(* leaves what VaultFile sees unchanged; the rename is the commit.         *)

LEMMA PhaseStep ==
  ASSUME SInv, NEW s \in Sessions, Step(s), OneSaver'
  PROVE  \A t \in Sessions \ {s} : PhaseView'[t] = PhaseView[t]
  <1>1. \A t \in Sessions \ {s} : pc'[t] = pc[t] /\ op'[t] = op[t]
    BY DEF SInv, CInv, TypeOK, Goto, Drop, SaveOk, SaveErr, Step, Save, Reserve, CreateDerived,
      CreateDeriveFails, ReadVault, Unlock, WrongPassphrase, Delete, Put, OpenTmp, OpenTmpFails,
      WriteTmp, WriteFails, Rename, RenameFails, Lock, Crash
  <1> QED BY <1>1 DEF PhaseView, Creating, Saving

(* Dropping a store is leaving, as VaultFile sees it.                      *)
LEMMA DropLeaves ==
  ASSUME SInv, NEW s \in Sessions, Step(s), OneSaver', Drop(s), pc[s] # "none", DiskView' = DiskView
  PROVE  File!Leave(s)
  <1>1. PhaseView[s] # "locked" /\ PhaseView'[s] = "locked"
    BY DEF SInv, CInv, TypeOK, Places, Ops, OpKnown, Drop, Goto, PhaseView, Creating, Saving
  <1>2. PhaseView' = [PhaseView EXCEPT ![s] = "locked"]
    BY <1>1, PhaseStep DEF PhaseView
  <1> QED
    BY <1>1, <1>2 DEF File!Leave, File!Goto, File!NoEntries, NoEntries, Drop

LEMMA VaultSeenKept ==
  ASSUME SInv, NEW s \in Sessions, Step(s), ~Rename(s), pc[s] # "none"
  PROVE  DiskView' = DiskView
  <1>1. VaultExists
    BY DEF SInv, CInv, NobodyBefore
  <1>2. node'.vault = node.vault /\ VaultContent' = VaultContent
    BY <1>1, VaultKept
  <1> QED BY <1>1, <1>2 DEF DiskView, VaultExists

LEMMA RefineStep ==
  ASSUME SInv, NEW s \in Sessions, Step(s), OneSaver'
  PROVE  [File!Next]_File!vars
  <1>0. /\ TypeOK
        /\ \A p : PhaseView'[s] = p => PhaseView' = [PhaseView EXCEPT ![s] = p]
    BY PhaseStep DEF SInv, CInv, PhaseView
  <1> USE <1>0
  <1>1. CASE Reserve(s)
    <2>1. PhaseView[s] = "locked" /\ PhaseView'[s] = "creating"
      BY <1>1 DEF SInv, CInv, TypeOK, Reserve, Goto, PhaseView, Creating, Saving
    <2>2. reply' = [reply EXCEPT ![s] = "none"] /\ mem' = [mem EXCEPT ![s] = File!NoEntries]
      BY <1>1 DEF SInv, Fresh, Reserve, TypeOK, NoEntries, File!NoEntries
    <2>3. DiskView = NoInode /\ DiskView' = Blank
      BY <1>1, SentinelsAssumption DEF Reserve, Free, DiskView, VaultExists, VaultContent, TypeOK
    <2>4. File!Reserve(s)
      BY <2>1, <2>2, <2>3 DEF File!Reserve, File!Goto
    <2> QED BY <2>4 DEF File!Next
  <1>2. CASE CreateDerived(s)
    <2>1. PhaseView'[s] = PhaseView[s] /\ PhaseView'[s] = "creating"
      BY <1>2 DEF SInv, CInv, TypeOK, OpKnown, CreateDerived, Goto, PhaseView, Creating, Saving
    <2>2. DiskView' = DiskView /\ UNCHANGED <<mem, reply>>
      BY <1>2 DEF CreateDerived, DiskView, VaultExists, VaultContent
    <2>3. PhaseView' = PhaseView
      BY <2>1 DEF PhaseView
    <2> QED BY <2>2, <2>3 DEF File!vars
  <1>3. CASE CreateDeriveFails(s) \/ WrongPassphrase(s) \/ Lock(s)
    <2>1. DiskView' = DiskView
      BY <1>3 DEF CreateDeriveFails, WrongPassphrase, Lock, DiskView, VaultExists, VaultContent
    <2>2. Drop(s) /\ pc[s] # "none"
      BY <1>3 DEF CreateDeriveFails, WrongPassphrase, Lock
    <2> QED BY <2>1, <2>2, DropLeaves DEF File!Next
  <1>4. CASE ReadVault(s)
    <2>1. PhaseView[s] = "locked" /\ PhaseView'[s] = "loading"
      BY <1>4 DEF SInv, CInv, TypeOK, ReadVault, Goto, PhaseView, Creating, Saving
    <2>2. reply' = [reply EXCEPT ![s] = "none"] /\ mem' = [mem EXCEPT ![s] = DiskView]
      BY <1>4 DEF SInv, Fresh, ReadVault, TypeOK, VaultWhole, DiskView
    <2>3. DiskView' = DiskView /\ DiskView \in File!Entries
      BY <1>4 DEF ReadVault, VaultWhole, DiskView, VaultExists, VaultContent, Entries, File!Entries
    <2>4. File!Load(s)
      BY <2>1, <2>2, <2>3 DEF File!Load, File!Goto
    <2> QED BY <2>4 DEF File!Next
  <1>5. CASE Unlock(s)
    <2>1. PhaseView[s] = "loading" /\ PhaseView'[s] = "ready"
      BY <1>5 DEF SInv, CInv, TypeOK, Unlock, Goto, PhaseView, Creating, Saving
    <2>2. reply' = [reply EXCEPT ![s] = "none"] /\ mem' = [mem EXCEPT ![s] = mem[s]]
      BY <1>5 DEF SInv, Fresh, Unlock, TypeOK
    <2>3. DiskView' = DiskView
      BY <1>5 DEF Unlock, DiskView, VaultExists, VaultContent
    <2>4. File!Unlock(s)
      BY <2>1, <2>2, <2>3 DEF File!Unlock, File!Goto
    <2> QED BY <2>4 DEF File!Next
  <1>6. ASSUME NEW n \in Names, Delete(s, n) PROVE File!Next
    <2>1. PhaseView[s] = "ready" /\ PhaseView'[s] = "pending"
      BY <1>6 DEF SInv, CInv, TypeOK, OpKnown, Delete, Goto, PhaseView, Creating, Saving
    <2>2. /\ reply' = [reply EXCEPT ![s] = "none"]
          /\ mem' = [mem EXCEPT ![s] = [mem[s] EXCEPT ![n] = NoVal]]
      BY <1>6 DEF Delete, TypeOK
    <2>3. DiskView' = DiskView
      BY <1>6 DEF Delete, DiskView, VaultExists, VaultContent
    <2>4. File!Edit(s, n, NoVal)
      BY <2>1, <2>2, <2>3 DEF File!Edit, File!Goto
    <2> QED BY <2>4 DEF File!Next
  <1>7. ASSUME NEW n \in Names, NEW v \in Vals, Put(s, n, v) PROVE File!Next
    <2>1. PhaseView[s] = "ready" /\ PhaseView'[s] = "pending"
      BY <1>7 DEF SInv, CInv, TypeOK, OpKnown, Put, Goto, PhaseView, Creating, Saving
    <2>2. /\ reply' = [reply EXCEPT ![s] = "none"]
          /\ mem' = [mem EXCEPT ![s] = [mem[s] EXCEPT ![n] = v]]
      BY <1>7 DEF Put, TypeOK
    <2>3. DiskView' = DiskView
      BY <1>7 DEF Put, DiskView, VaultExists, VaultContent
    <2>4. File!Edit(s, n, v)
      BY <2>1, <2>2, <2>3 DEF File!Edit, File!Goto
    <2> QED BY <2>4 DEF File!Next
  <1>8. CASE OpenTmp(s) \/ WriteTmp(s)
    <2>1. PhaseView'[s] = PhaseView[s]
      BY <1>8 DEF SInv, CInv, TypeOK, OpenTmp, WriteTmp, Goto, PhaseView, Creating, Saving
    <2>2. PhaseView' = PhaseView
      BY <2>1 DEF PhaseView
    <2>3. UNCHANGED <<mem, reply>>
      BY <1>8 DEF OpenTmp, WriteTmp
    <2>4. DiskView' = DiskView
      BY <1>8, VaultSeenKept DEF OpenTmp, WriteTmp, Rename
    <2> QED BY <2>2, <2>3, <2>4 DEF File!vars
  <1>9. CASE OpenTmpFails(s) \/ WriteFails(s) \/ RenameFails(s)
    <2>0. ~Rename(s)
      BY <1>9 DEF SInv, CInv, TypeOK, OpenTmpFails, WriteFails, RenameFails, Rename, SaveOk, SaveErr, Drop, Goto
    <2>1. DiskView' = DiskView
      BY <2>0, <1>9, VaultSeenKept DEF OpenTmpFails, WriteFails, RenameFails
    <2>2. SaveErr(s) /\ Saving(s)
      BY <1>9 DEF OpenTmpFails, WriteFails, RenameFails, Saving
    <2>3. CASE op[s] = "create" /\ Drop(s)
      BY <2>1, <2>2, <2>3, DropLeaves DEF File!Next, Saving
    <2>4. CASE op[s] = "change" /\ ~Drop(s)
      <3>1. PhaseView[s] = "pending" /\ PhaseView'[s] = "ready"
        BY <2>2, <2>4 DEF SInv, CInv, TypeOK, SaveErr, Goto, PhaseView, Creating, Saving
      <3>2. reply' = [reply EXCEPT ![s] = "err"] /\ mem' = [mem EXCEPT ![s] = mem[s]]
        BY <2>2, <2>4 DEF SaveErr, TypeOK
      <3>3. File!Fail(s)
        BY <3>1, <3>2, <2>1 DEF File!Fail, File!Goto
      <3> QED BY <3>3 DEF File!Next
    <2> QED BY <2>2, <2>3, <2>4 DEF SaveErr, Drop, Goto, TypeOK
  <1>10. CASE Rename(s)
    <2>1. PhaseView'[s] = "ready"
      BY <1>10 DEF SInv, CInv, TypeOK, Rename, SaveOk, Goto, PhaseView, Creating, Saving
    <2>2. reply' = [reply EXCEPT ![s] = "ok"] /\ mem' = [mem EXCEPT ![s] = mem[s]]
      BY <1>10 DEF Rename, SaveOk, TypeOK
    <2>3. DiskView' = mem[s]
      BY <1>10, RenameInstalls DEF VaultWhole, DiskView
    <2>4. \/ PhaseView[s] = "pending" /\ DiskView \in File!Entries
          \/ PhaseView[s] = "creating" /\ DiskView = Blank
      BY <1>10 DEF SInv, CInv, TypeOK, Ops, CreatorIsAlone, WholeBehind, VaultWhole, DiskView, Rename,
        PhaseView, Creating, Saving, Entries, File!Entries
    <2>5. File!Commit(s)
      BY <2>1, <2>2, <2>3, <2>4 DEF File!Commit, File!Goto
    <2> QED BY <2>5 DEF File!Next
  <1>11. CASE Crash(s)
    <2>1. DiskView' = DiskView
      BY <1>11, VaultSeenKept DEF Crash, Rename, Drop, SaveOk, Goto, TypeOK
    <2> QED BY <2>1, <1>11, DropLeaves DEF Crash, File!Next
  <1> QED
    BY <1>1, <1>2, <1>3, <1>4, <1>5, <1>6, <1>7, <1>8, <1>9, <1>10, <1>11 DEF Step, Save

(* VaultStore, with one save at a time, implements VaultFile: every change *)
(* replaces the vault at once or not at all, and is answered accordingly.  *)
THEOREM VaultStoreRefinesVaultFile == SerialSpec => ImplementsVaultFile
  <1>1. Init => File!Init
    BY SentinelsAssumption DEF Init, File!Init, File!NoEntries, File!Entries, NoEntries, Entries,
      DiskView, VaultExists, VaultContent, PhaseView, Creating, Saving
  <1>2. SInv /\ [Next /\ OneSaver']_vars => [File!Next]_File!vars
    <2>1. SInv /\ Next /\ OneSaver' => [File!Next]_File!vars
      BY RefineStep DEF Next
    <2>2. UNCHANGED vars => UNCHANGED File!vars
      BY DEF vars, File!vars, DiskView, VaultExists, VaultContent, PhaseView, Creating, Saving
    <2> QED BY <2>1, <2>2
  <1> QED BY <1>1, <1>2, SInvInductive, PTL DEF SerialSpec, ImplementsVaultFile, File!Spec

-----------------------------------------------------------------------------
(* What becomes of a change, one save at a time.                           *)

(* A session's copy and the vault file differ only in what the session has *)
(* changed and in what others have changed since it read the file.         *)
NothingBefore == \A t \in Sessions : pc[t] = "none" => dirty[t] = {} /\ fresh[t] = {}

CopyIsFile ==
  \A t \in Sessions : pc[t] # "none" /\ VaultWhole =>
    \A n \in Names \ (dirty[t] \cup fresh[t]) : mem[t][n] = VaultContent[n]

UInv == SInv /\ NothingBefore /\ CopyIsFile

-----------------------------------------------------------------------------
(* A step is one session's: what the others are doing stays as it is.      *)
LEMMA OthersKeepCopies ==
  ASSUME SInv, NEW s \in Sessions, Step(s), NEW t \in Sessions, t # s
  PROVE  pc'[t] = pc[t] /\ mem'[t] = mem[t] /\ reply'[t] = reply[t]
  <1> USE DEF SInv, CInv, TypeOK
  <1>1. CASE Reserve(s) \/ CreateDerived(s) \/ CreateDeriveFails(s)
    BY <1>1 DEF Reserve, CreateDerived, CreateDeriveFails, Drop, Goto
  <1>2. CASE ReadVault(s) \/ Unlock(s) \/ WrongPassphrase(s)
    BY <1>2 DEF ReadVault, Unlock, WrongPassphrase, Drop, Goto
  <1>3. CASE \E n \in Names : Delete(s, n) \/ \E v \in Vals : Put(s, n, v)
    BY <1>3 DEF Delete, Put, Goto
  <1>4. CASE Save(s)
    BY <1>4 DEF Save, OpenTmp, OpenTmpFails, WriteTmp, WriteFails, Rename, RenameFails,
                SaveOk, SaveErr, Drop, Goto
  <1>5. CASE Lock(s) \/ Crash(s)
    BY <1>5 DEF Lock, Crash, Drop, Goto
  <1> QED BY <1>1, <1>2, <1>3, <1>4, <1>5 DEF Step

(* Only the session that renames its file into place commits.              *)
LEMMA OnlyRenameCommits ==
  ASSUME SInv, NEW s \in Sessions, Step(s), NEW t \in Sessions
  PROVE  Commits(t) <=> t = s /\ Rename(s)
  <1>1. ASSUME Rename(s) PROVE Commits(s)
    BY <1>1 DEF Commits, Rename, SaveOk, SInv, CInv, TypeOK
  <1>2. ASSUME Commits(t), t # s PROVE FALSE
    BY <1>2, OthersKeepCopies DEF Commits, SInv, Fresh
  <1>3. ASSUME Commits(s), ~Rename(s) PROVE FALSE
    <2>1. pc[s] = "rename" /\ reply'[s] = "ok"
      BY <1>3 DEF Commits
    <2>2. RenameFails(s) \/ Crash(s)
      BY <1>3, <2>1 DEF Step, Save, Reserve, CreateDerived, CreateDeriveFails, ReadVault, Unlock,
        WrongPassphrase, Delete, Put, OpenTmp, OpenTmpFails, WriteTmp, WriteFails, Lock
    <2> QED BY <2>1, <2>2 DEF RenameFails, SaveErr, Crash, Drop, SInv, CInv, TypeOK
  <1> QED BY <1>1, <1>2, <1>3

(* Nobody but a creator finds no whole vault behind it.                    *)
LEMMA RenameOrKept ==
  ASSUME SInv, NEW s \in Sessions, Step(s), VaultWhole', ~Rename(s)
  PROVE  VaultWhole /\ VaultContent' = VaultContent
  <1>1. CASE VaultExists
    <2>1. node'.vault = node.vault /\ VaultContent' = VaultContent
      BY <1>1, VaultKept
    <2> QED BY <1>1, <2>1 DEF VaultWhole
  <1>2. CASE ~VaultExists
    <2>1. pc[s] = "none"
      BY <1>2 DEF SInv, CInv, NobodyBefore
    <2>2. Reserve(s)
      BY <1>2, <2>1 DEF Step, Save, CreateDerived, CreateDeriveFails, ReadVault, VaultWhole, Unlock,
        WrongPassphrase, Delete, Put, OpenTmp, OpenTmpFails, WriteTmp, WriteFails, Rename,
        RenameFails, Lock, Crash
    <2>3. VaultContent' = Blank
      BY <2>2, SentinelsAssumption
      DEF Reserve, Free, VaultContent, SInv, CInv, TypeOK
    <2> QED BY <2>3, SentinelsAssumption DEF VaultWhole
  <1> QED BY <1>1, <1>2

-----------------------------------------------------------------------------
LEMMA OthersCopies ==
  ASSUME UInv, NEW s \in Sessions, Step(s), Record, NEW t \in Sessions, t # s,
         pc'[t] # "none", VaultWhole'
  PROVE  \A n \in Names \ (dirty'[t] \cup fresh'[t]) : mem'[t][n] = VaultContent'[n]
  <1>1. pc[t] = pc'[t] /\ mem'[t] = mem[t] /\ ~Commits(t) /\ ~Gone(t)
    BY OthersKeepCopies, OnlyRenameCommits DEF UInv, Gone
  <1>2. dirty[t] \subseteq dirty'[t] /\ fresh'[t] = fresh[t] \cup ChangedInFile
    BY <1>1 DEF Record
  <1>3. VaultWhole
    <2>1. CASE Rename(s)
      <3>1. ~Creating(t) => VaultWhole
        BY <1>1 DEF UInv, SInv, CInv, TypeOK, WholeBehind, Creating, Saving, Places, Ops
      <3>2. ~Creating(t)
        BY <2>1 DEF UInv, SInv, CInv, CreatorIsAlone, Rename
      <3> QED BY <3>1, <3>2
    <2> QED BY <2>1, RenameOrKept DEF UInv
  <1>4. ASSUME NEW n \in Names \ (dirty'[t] \cup fresh'[t])
        PROVE  mem'[t][n] = VaultContent'[n]
    <2>1. mem[t][n] = VaultContent[n]
      BY <1>1, <1>2, <1>3 DEF UInv, CopyIsFile
    <2>2. VaultContent[n] = VaultContent'[n]
      BY <1>2, <1>3 DEF ChangedInFile
    <2> QED BY <1>1, <2>1, <2>2
  <1> QED BY <1>4

LEMMA OwnCopy ==
  ASSUME UInv, NEW s \in Sessions, Step(s), Record, pc'[s] # "none", VaultWhole'
  PROVE  \A n \in Names \ (dirty'[s] \cup fresh'[s]) : mem'[s][n] = VaultContent'[n]
  <1>0. TypeOK /\ SInv
    BY DEF UInv, SInv, CInv
  <1>1. CASE Rename(s)
    BY <1>0, <1>1, RenameInstalls
  <1>2. CASE ReadVault(s)
    <2>1. mem'[s] = VaultContent
      BY <1>0, <1>2 DEF ReadVault, TypeOK
    <2>2. VaultContent' = VaultContent
      BY <1>2 DEF ReadVault, VaultContent
    <2> QED BY <2>1, <2>2
  <1>3. CASE Reserve(s)
    <2>1. VaultContent' = Blank
      BY <1>0, <1>3, SentinelsAssumption DEF Reserve, Free, VaultContent, TypeOK
    <2> QED BY <2>1, SentinelsAssumption DEF VaultWhole
  <1>4. CASE ~Rename(s) /\ ~ReadVault(s) /\ ~Reserve(s)
    <2>1. pc[s] # "none" /\ VaultWhole /\ VaultContent' = VaultContent /\ ~Commits(s) /\ ~Gone(s)
      <3>1. pc[s] # "none"
        BY <1>4 DEF Step, Save, CreateDerived, CreateDeriveFails, Unlock, WrongPassphrase, Delete,
          Put, OpenTmp, OpenTmpFails, WriteTmp, WriteFails, RenameFails, Lock, Crash
      <3> QED BY <1>0, <1>4, <3>1, RenameOrKept, OnlyRenameCommits DEF Gone
    <2>2. fresh[s] \subseteq fresh'[s] /\ dirty[s] \subseteq dirty'[s]
      BY <2>1 DEF Record
    <2>3. mem'[s] = mem[s] \/ pc[s] = "idle"
      <3>1. CASE CreateDerived(s) \/ Unlock(s)
        BY <3>1 DEF CreateDerived, Unlock
      <3>2. CASE CreateDeriveFails(s) \/ WrongPassphrase(s) \/ Lock(s) \/ Crash(s)
        BY <1>0, <2>1, <3>2 DEF CreateDeriveFails, WrongPassphrase, Lock, Crash, Drop, Goto, TypeOK, Gone
      <3>3. CASE \E n \in Names : Delete(s, n) \/ \E v \in Vals : Put(s, n, v)
        BY <3>3 DEF Delete, Put
      <3>4. CASE Save(s)
        BY <1>0, <1>4, <2>1, <3>4
        DEF Save, OpenTmp, OpenTmpFails, WriteTmp, WriteFails, RenameFails,
            SaveErr, Drop, Goto, TypeOK, Gone
      <3> QED BY <1>4, <3>1, <3>2, <3>3, <3>4 DEF Step
    <2>4. ASSUME NEW n \in Names \ (dirty'[s] \cup fresh'[s])
          PROVE  mem'[s][n] = VaultContent'[n]
      <3>1. mem[s][n] = VaultContent[n]
        BY <2>1, <2>2 DEF UInv, CopyIsFile
      <3>2. mem'[s][n] = mem[s][n]
        BY <2>1, <2>3 DEF Record
      <3> QED BY <2>1, <3>1, <3>2
    <2> QED BY <2>4
  <1> QED BY <1>1, <1>2, <1>3, <1>4

LEMMA UInvStep ==
  ASSUME UInv, NEW s \in Sessions, Step(s), OneSaver', Record
  PROVE  UInv'
  <1>1. SInv'
    BY SInvStep DEF UInv
  <1>2. NothingBefore'
    BY DEF NothingBefore, Record, Gone
  <1>3. CopyIsFile'
    BY OthersCopies, OwnCopy DEF CopyIsFile
  <1> QED BY <1>1, <1>2, <1>3 DEF UInv

LEMMA UInvInductive == SerialUpdates => []UInv
  <1>1. UInit => UInv
    <2>1. UInit => SInv
      <3>1. Init => CInv
        BY CInvInit
      <3> QED BY <3>1 DEF UInit, Init, SInv, OneSaver, Saving, Creating, WriterOwnsTmp,
                          TmpIsMemory, WholeBehind, Fresh
    <2> QED BY <2>1 DEF UInit, Init, UInv, NothingBefore, CopyIsFile
  <1>2. UInv /\ UNext /\ OneSaver' => UInv'
    BY UInvStep DEF UNext, Next
  <1>3. UInv /\ UNCHANGED uvars => UInv'
    BY DEF uvars, vars, UInv, NothingBefore, CopyIsFile, SInv, CInv, TypeOK, Apart, WriterHolds,
      NobodyBefore, OpKnown, CreatorWritesTmp, CreatorIsAlone, Creating, Saving, VaultExists,
      VaultContent, VaultWhole, OneSaver, WriterOwnsTmp, TmpIsMemory, WholeBehind, Fresh
  <1> QED BY <1>1, <1>2, <1>3, PTL DEF SerialUpdates

-----------------------------------------------------------------------------
(* An entry of the vault file changes only through a session that changed  *)
(* it, or one that read the file before others last did.                   *)
THEOREM SavesLoseOnlyUnseen == SerialUpdates => LosesOnlyUnseen
  <1> DEFINE Seen ==
        \A n \in ChangedInFile : \E s \in Sessions : Commits(s) /\ n \in dirty[s] \cup fresh[s]
  <1>1. ASSUME UInv, NEW s \in Sessions, Step(s), NEW n \in ChangedInFile
        PROVE  Commits(s) /\ n \in dirty[s] \cup fresh[s]
    <2>1. n \in Names /\ VaultWhole /\ VaultWhole' /\ VaultContent[n] # VaultContent'[n]
      BY <1>1 DEF ChangedInFile
    <2>2. Rename(s)
      BY <1>1, <2>1, RenameOrKept DEF UInv
    <2>3. VaultContent' = mem[s] /\ pc[s] = "rename" /\ Commits(s)
      BY <1>1, <2>2, RenameInstalls, OnlyRenameCommits DEF UInv, Rename
    <2> QED BY <1>1, <2>1, <2>3 DEF UInv, CopyIsFile
  <1>2. UInv /\ [UNext /\ OneSaver']_uvars => [Seen]_uvars
    BY <1>1 DEF UNext, Next
  <1> QED BY <1>2, UInvInductive, PTL DEF SerialUpdates, LosesOnlyUnseen
=============================================================================
