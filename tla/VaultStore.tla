----------------------------- MODULE VaultStore -----------------------------
(***************************************************************************)
(* The encrypted vault file and the processes that work on it:             *)
(* src/storage/local_store.rs (LocalStore) with the lifecycle operations   *)
(* of src/core/manager.rs (SecretManager).                                 *)
(*                                                                         *)
(* A session is one process (agent, `init`, terminal UI).  It reads the    *)
(* whole vault into memory when it opens it, changes its own copy, and     *)
(* writes the whole copy back on every change: to the sibling `<vault>.tmp`*)
(* (one fixed name for every process), which it then renames over the      *)
(* vault.  Directory entries, inodes and open descriptors are explicit,    *)
(* because a writer that still holds a descriptor writes to the inode and  *)
(* not to the name it opened.                                              *)
(*                                                                         *)
(* Abstracted: bytes.  The content of a file is Blank (no byte), Torn (a   *)
(* prefix of a vault, or a mixture of two) or the entries a whole vault    *)
(* decrypts to; the length of a vault is its number of entries.  A torn    *)
(* file does not authenticate, so no session ever loads one.               *)
(***************************************************************************)
EXTENDS Naturals, FiniteSets

CONSTANTS Sessions, Names, Vals,
          NoVal,      \* "no entry of this name"
          Inodes,     \* enough of them for every file that can be live
          NoInode,    \* "no such directory entry" / "no open descriptor"
          Blank,      \* content of a file of length zero
          Torn,       \* content of a file that is not a whole vault
          MaxVault    \* MAX_VAULT_LEN, the longest file `open` accepts

Entries == [Names -> Vals \cup {NoVal}]
NoEntries == [n \in Names |-> NoVal]
Contents == Entries \cup {Blank, Torn}

ASSUME SentinelsAssumption ==
  /\ NoVal \notin Vals
  /\ NoInode \notin Inodes
  /\ Blank \notin Entries /\ Torn \notin Entries /\ Blank # Torn

VARIABLES node,  \* directory: the inode of the vault and of its .tmp
          data,  \* content of every inode
          pc,    \* where each session is
          op,    \* the operation whose save is running
          mem,   \* LocalStore.entries of each session
          fd,    \* the inode a session is writing to
          reply  \* Result of the last save: "ok", "err"; "none" before

vars == <<node, data, pc, op, mem, fd, reply>>

(* pc: "none" no store held; "derive" create has reserved the path and     *)
(* derives the key; "read" open has read the file and derives the key;     *)
(* "idle" unlocked; "save" memory changed, save about to open .tmp;        *)
(* "write" .tmp open and truncated; "rename" .tmp written and closed.      *)
Places == {"none", "derive", "read", "idle", "save", "write", "rename"}
Ops == {"create", "change"}

TypeOK ==
  /\ node \in [vault : Inodes \cup {NoInode}, tmp : Inodes \cup {NoInode}]
  /\ data \in [Inodes -> Contents]
  /\ pc \in [Sessions -> Places]
  /\ op \in [Sessions -> Ops]
  /\ mem \in [Sessions -> Entries]
  /\ fd \in [Sessions -> Inodes \cup {NoInode}]
  /\ reply \in [Sessions -> {"none", "ok", "err"}]

-----------------------------------------------------------------------------
Present(e) == {n \in Names : e[n] # NoVal}
Size(c) == IF c \in Entries THEN Cardinality(Present(c)) ELSE 0

(* What may be in a file after a descriptor at offset 0 writes e over the  *)
(* content c: a longer old content keeps its tail.                         *)
Overlay(e, c) ==
  IF c = Blank THEN {e}
  ELSE IF c = Torn THEN {e, Torn}
  ELSE IF Size(e) >= Size(c) THEN {e} ELSE {Torn}

Saving(s) == pc[s] \in {"save", "write", "rename"}

VaultExists == node.vault # NoInode
VaultContent == data[node.vault]
VaultWhole == VaultExists /\ VaultContent \in Entries

LinkedIn(nd, i) == i = nd.vault \/ i = nd.tmp
HeldIn(f, i) == \E s \in Sessions : f[s] = i
Free == {i \in Inodes : ~LinkedIn(node, i) /\ ~HeldIn(fd, i)}

(* An inode without name and descriptor is reclaimed.                      *)
Reclaim(d, nd, f) ==
  [i \in Inodes |-> IF LinkedIn(nd, i) \/ HeldIn(f, i) THEN d[i] ELSE Blank]

-----------------------------------------------------------------------------
Init ==
  /\ \/ /\ node = [vault |-> NoInode, tmp |-> NoInode]
        /\ data = [i \in Inodes |-> Blank]
     \/ \E i \in Inodes, e \in Entries :
          /\ Size(e) <= MaxVault
          /\ node = [vault |-> i, tmp |-> NoInode]
          /\ data = [j \in Inodes |-> IF j = i THEN e ELSE Blank]
  /\ pc = [s \in Sessions |-> "none"]
  /\ op = [s \in Sessions |-> "change"]
  /\ mem = [s \in Sessions |-> NoEntries]
  /\ fd = [s \in Sessions |-> NoInode]
  /\ reply = [s \in Sessions |-> "none"]

Goto(s, p) == pc' = [pc EXCEPT ![s] = p]

(* The store is dropped: nothing of the session is left.                   *)
Drop(s) ==
  /\ Goto(s, "none")
  /\ op' = [op EXCEPT ![s] = "change"]
  /\ mem' = [mem EXCEPT ![s] = NoEntries]
  /\ reply' = [reply EXCEPT ![s] = "none"]

(* Result of a save: a failed one drops the store of a `create` and keeps  *)
(* the changed memory of a `put` or `delete`.                              *)
SaveOk(s) ==
  /\ Goto(s, "idle")
  /\ op' = [op EXCEPT ![s] = "change"]
  /\ reply' = [reply EXCEPT ![s] = "ok"]
  /\ UNCHANGED mem

SaveErr(s) ==
  \/ op[s] = "create" /\ Drop(s)
  \/ /\ op[s] = "change"
     /\ Goto(s, "idle")
     /\ reply' = [reply EXCEPT ![s] = "err"]
     /\ UNCHANGED <<op, mem>>

-----------------------------------------------------------------------------
(* Mutated: create without O_EXCL truncates a vault that is already there. *)
ReserveAny(s) ==
  /\ pc[s] = "none"
  /\ \E i \in IF VaultExists THEN {node.vault} ELSE Free :
       /\ node' = [node EXCEPT !.vault = i]
       /\ data' = [data EXCEPT ![i] = Blank]
  /\ Goto(s, "derive")
  /\ op' = [op EXCEPT ![s] = "create"]
  /\ UNCHANGED <<mem, fd, reply>>

(* create: O_EXCL claims the path with an empty file, which stays there if *)
(* anything after it fails.                                                *)
Reserve(s) ==
  /\ pc[s] = "none" /\ ~VaultExists
  /\ \E i \in Free :
       /\ node' = [node EXCEPT !.vault = i]
       /\ data' = [data EXCEPT ![i] = Blank]
  /\ Goto(s, "derive")
  /\ op' = [op EXCEPT ![s] = "create"]
  /\ UNCHANGED <<mem, fd, reply>>

CreateDerived(s) ==
  /\ pc[s] = "derive"
  /\ Goto(s, "save")
  /\ UNCHANGED <<node, data, op, mem, fd, reply>>

CreateDeriveFails(s) ==
  /\ pc[s] = "derive"
  /\ Drop(s)
  /\ UNCHANGED <<node, data, fd>>

(* Mutated: one entry of the vault is passed over.                         *)
ReadSkipsEntry(s) ==
  /\ pc[s] = "none" /\ VaultWhole /\ Size(VaultContent) <= MaxVault
  /\ \E n \in Names : mem' = [mem EXCEPT ![s] = [VaultContent EXCEPT ![n] = NoVal]]
  /\ Goto(s, "read")
  /\ UNCHANGED <<node, data, op, fd, reply>>

(* open: refuses a file that is too long, a file too short for a header    *)
(* and one that does not authenticate; the key derivation comes after the  *)
(* read and takes long.                                                    *)
ReadVault(s) ==
  /\ pc[s] = "none" /\ VaultWhole /\ Size(VaultContent) <= MaxVault
  /\ mem' = [mem EXCEPT ![s] = VaultContent]
  /\ Goto(s, "read")
  /\ UNCHANGED <<node, data, op, fd, reply>>

Unlock(s) ==
  /\ pc[s] = "read"
  /\ Goto(s, "idle")
  /\ UNCHANGED <<node, data, op, mem, fd, reply>>

WrongPassphrase(s) ==
  /\ pc[s] = "read"
  /\ Drop(s)
  /\ UNCHANGED <<node, data, fd>>

(* put_secret and delete_secret change the memory first and save after;    *)
(* deleting a name memory does not have answers Ok(false), without a save, *)
(* and changes nothing here (TuiApp: DeletedIsGone).                       *)
Put(s, n, v) ==
  /\ pc[s] = "idle"
  /\ mem' = [mem EXCEPT ![s][n] = v]
  /\ Goto(s, "save")
  /\ reply' = [reply EXCEPT ![s] = "none"]
  /\ UNCHANGED <<node, data, op, fd>>

(* Mutated: delete forgets to save.                                        *)
DeleteUnsaved(s, n) ==
  /\ pc[s] = "idle" /\ mem[s][n] # NoVal
  /\ mem' = [mem EXCEPT ![s][n] = NoVal]
  /\ reply' = [reply EXCEPT ![s] = "ok"]
  /\ UNCHANGED <<node, data, pc, op, fd>>

Delete(s, n) ==
  /\ pc[s] = "idle" /\ mem[s][n] # NoVal
  /\ mem' = [mem EXCEPT ![s][n] = NoVal]
  /\ Goto(s, "save")
  /\ reply' = [reply EXCEPT ![s] = "none"]
  /\ UNCHANGED <<node, data, op, fd>>

-----------------------------------------------------------------------------
(* Mutated: save writes the vault in place.                                *)
OpenInPlace(s) ==
  /\ pc[s] = "save"
  /\ fd' = [fd EXCEPT ![s] = node.vault]
  /\ data' = [data EXCEPT ![node.vault] = Blank]
  /\ Goto(s, "write")
  /\ UNCHANGED <<node, op, mem, reply>>

(* save, system call by system call.  fs::write opens .tmp, creating it or *)
(* truncating the one that is there, whoever left it or is writing it.     *)
OpenTmp(s) ==
  /\ pc[s] = "save"
  /\ \E i \in IF node.tmp # NoInode THEN {node.tmp} ELSE Free :
       /\ node' = [node EXCEPT !.tmp = i]
       /\ data' = [data EXCEPT ![i] = Blank]
       /\ fd' = [fd EXCEPT ![s] = i]
  /\ Goto(s, "write")
  /\ UNCHANGED <<op, mem, reply>>

OpenTmpFails(s) ==
  /\ pc[s] = "save"
  /\ SaveErr(s)
  /\ UNCHANGED <<node, data, fd>>

Close(s, d) ==
  /\ fd' = [fd EXCEPT ![s] = NoInode]
  /\ data' = Reclaim(d, node, fd')

WriteTmp(s) ==
  /\ pc[s] = "write"
  /\ \E c \in Overlay(mem[s], data[fd[s]]) : Close(s, [data EXCEPT ![fd[s]] = c])
  /\ Goto(s, "rename")
  /\ UNCHANGED <<node, op, mem, reply>>

(* The write stops short; .tmp stays behind.                               *)
CutShort(s) == \E c \in {data[fd[s]], Torn} : Close(s, [data EXCEPT ![fd[s]] = c])

(* Mutated: the error of a short write is ignored.                         *)
WriteErrorIgnored(s) ==
  /\ pc[s] = "write"
  /\ CutShort(s)
  /\ Goto(s, "rename")
  /\ UNCHANGED <<node, op, mem, reply>>

WriteFails(s) ==
  /\ pc[s] = "write"
  /\ CutShort(s)
  /\ SaveErr(s)
  /\ UNCHANGED node

Rename(s) ==
  /\ pc[s] = "rename" /\ node.tmp # NoInode
  /\ node' = [vault |-> node.tmp, tmp |-> NoInode]
  /\ data' = Reclaim(data, node', fd)
  /\ SaveOk(s)
  /\ UNCHANGED fd

(* The rename fails, or .tmp has been renamed away by someone else.  The   *)
(* handler removes whatever .tmp is there.                                 *)
RenameFails(s) ==
  /\ pc[s] = "rename"
  /\ node' = [node EXCEPT !.tmp = NoInode]
  /\ data' = Reclaim(data, node', fd)
  /\ SaveErr(s)
  /\ UNCHANGED fd

-----------------------------------------------------------------------------
(* SecretManager::lock, the agent's exit, the UI's auto-lock.              *)
Lock(s) ==
  /\ pc[s] = "idle"
  /\ Drop(s)
  /\ UNCHANGED <<node, data, fd>>

(* The process dies anywhere: killed, panic, or the agent's watchdog       *)
(* calling process::exit while the main thread is inside a save.           *)
Crash(s) ==
  /\ pc[s] # "none"
  /\ IF pc[s] = "write" THEN CutShort(s) ELSE UNCHANGED <<data, fd>>
  /\ Drop(s)
  /\ UNCHANGED node

Save(s) ==
  \/ OpenTmp(s) \/ OpenTmpFails(s)
  \/ WriteTmp(s) \/ WriteFails(s)
  \/ Rename(s) \/ RenameFails(s)

Step(s) ==
  \/ Reserve(s) \/ CreateDerived(s) \/ CreateDeriveFails(s)
  \/ ReadVault(s) \/ Unlock(s) \/ WrongPassphrase(s)
  \/ \E n \in Names : Delete(s, n) \/ \E v \in Vals : Put(s, n, v)
  \/ Save(s)
  \/ Lock(s) \/ Crash(s)

Next == \E s \in Sessions : Step(s)

Spec == Init /\ [][Next]_vars

(* One save at a time.  Nothing in the code enforces it: it is what a user *)
(* does who makes changes from one place at a time.                        *)
OneSaver == \A s, t \in Sessions : Saving(s) /\ Saving(t) => s = t

SerialSpec == Init /\ [][Next /\ OneSaver']_vars

-----------------------------------------------------------------------------
Creating(s) == pc[s] = "derive" \/ (Saving(s) /\ op[s] = "create")

(* While a session creates the vault (a key derivation and a save long),   *)
(* the path holds its empty reservation and nobody else has a store: the   *)
(* creator's save of an empty vault can replace nobody's secrets, however  *)
(* many processes run `init`, `signin` and the UI's create at once.        *)
CreatorIsAlone ==
  \A s \in Sessions : Creating(s) =>
    /\ VaultExists /\ VaultContent = Blank
    /\ \A t \in Sessions \ {s} : pc[t] = "none"

(* A vault that was once whole stays whole through every later save,       *)
(* failed write, failed rename and crash (the promise of the comment at    *)
(* local_store.rs:259-260 and of ui/mod.rs:8-10).                          *)
VaultStaysWhole == [][VaultWhole => VaultWhole']_vars

(* A change is answered "ok" only when the vault holds exactly the memory  *)
(* of the session that made it; answered "err", it did not touch the vault.*)
ReplyTellsTheDisk ==
  [][\A s \in Sessions :
       /\ reply[s] # "ok" /\ reply'[s] = "ok" => VaultWhole' /\ VaultContent' = mem'[s]
       /\ reply[s] # "err" /\ reply'[s] = "err" => VaultContent' = VaultContent]_vars

(* local_store.rs:25-26 takes a vault longer than MAX_VAULT_LEN for        *)
(* "corruption or a denial-of-service attempt": a save that is answered    *)
(* "ok" leaves a vault that open accepts.                                  *)
SavedVaultOpens ==
  \A s \in Sessions : pc[s] = "idle" /\ reply[s] = "ok" => Size(VaultContent) <= MaxVault

(* The vault as VaultFile sees it.                                         *)
DiskView ==
  IF ~VaultExists THEN NoInode ELSE VaultContent

PhaseView ==
  [s \in Sessions |->
     IF Creating(s) THEN "creating"
     ELSE IF Saving(s) THEN "pending"
     ELSE IF pc[s] = "read" THEN "loading"
     ELSE IF pc[s] = "idle" THEN "ready" ELSE "locked"]

File == INSTANCE VaultFile
          WITH Absent <- NoInode, Reserved <- Blank, disk <- DiskView,
               phase <- PhaseView, view <- mem

(* With one save at a time, temporary files, failed writes, failed renames *)
(* and crashes are invisible: every change replaces the vault at once or   *)
(* not at all, and is answered accordingly.                                *)
ImplementsVaultFile == File!Spec
=============================================================================
