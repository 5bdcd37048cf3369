------------------------------- MODULE TuiApp -------------------------------
(***************************************************************************)
(* The terminal UI (src/ui/mod.rs): one App driven by key presses and by   *)
(* the half-second poll of run_app.  Every key is an action, or one        *)
(* alternative of an action; `step` takes the mode apart, changes the App  *)
(* and puts the next mode in its place.                                    *)
(*                                                                         *)
(* Abstracted: text.  A line of input is what the program makes of it: a   *)
(* name typed is a name, NoName (nothing) or BadName (a name               *)
(* validate_secret_name refuses); a passphrase or a seed is "empty",       *)
(* "right" or "wrong"; a run of typed characters is one action.  The vault *)
(* file is the one this App works on alone (VaultStore has several         *)
(* writers); a call to it succeeds or is answered with an error.  Time is  *)
(* counted in ticks of the poll.                                           *)
(***************************************************************************)
EXTENDS Naturals, FiniteSets

CONSTANTS Names,     \* numbers: secret_names is kept sorted
          NoName, BadName,
          Vals,      \* values of secrets
          Uris,      \* the values that are otpauth:// URIs
          Empty,     \* the empty value
          NoVal,     \* "no entry of this name"
          Closed,    \* no vault is open
          NoFile,    \* no file at vault_path
          Reserved,  \* the empty file a failed create leaves there
          IdleTicks, \* idle_timeout; 0 disables the auto-lock
          RevealTicks

Entries == [Names -> Vals \cup {NoVal}]

ASSUME NamesAssumption ==
  /\ Names \subseteq Nat /\ IsFiniteSet(Names)
  /\ NoName \notin Names /\ BadName \notin Names /\ NoName # BadName
ASSUME ValuesAssumption == Empty \in Vals /\ Uris \subseteq Vals /\ NoVal \notin Vals
ASSUME SentinelsAssumption ==
  Closed \notin Entries /\ NoFile \notin Entries /\ Reserved \notin Entries /\ NoFile # Reserved
ASSUME TicksAssumption == IdleTicks \in Nat /\ RevealTicks \in Nat \ {0}

VARIABLES mode, form, isNew,     \* Mode, the name and is_new it carries
          typed, again,          \* the hidden line of the mode, and its repetition
          index,                 \* the tab
          editor, mem, disk,     \* SecureEditor, manager's vault, the vault file
          names, selected,       \* secret_names as a set, the selected position
          pairing, qr,           \* a pairing session exists; the overlay
          reveal, idle,          \* ticks left to reveal_until; since last_activity
          failed,                \* history: names whose change could not be
                                 \* saved since the last good save
          heap                   \* history: plaintext the last step freed unwiped

vars == <<mode, form, isNew, typed, again, index, editor, mem, disk, names,
          selected, pairing, qr, reveal, idle, failed, heap>>
modeVars == <<mode, form, isNew, typed, again>>
store == <<mem, disk, failed>>
list == <<names, selected>>
overlay == <<pairing, qr>>

Prompts == {"CreateVault", "ConfirmVault", "Unlock"}
Naming == {"AddName", "AddTotpName"}
Modes == Prompts \cup Naming \cup
         {"Browse", "AddTotpSeed", "EditValue", "Generate", "ConfirmDelete", "ConfirmImport", "quit"}
Lines == {"empty", "wrong", "right"}

TypeOK ==
  /\ mode \in Modes /\ form \in Names \cup {NoName, BadName} /\ isNew \in BOOLEAN
  /\ typed \in Lines /\ again \in Lines
  /\ index \in {"vault", "network"} /\ editor \in Vals
  /\ mem \in Entries \cup {Closed} /\ disk \in Entries \cup {NoFile, Reserved}
  /\ names \subseteq Names /\ selected \in Nat
  /\ pairing \in BOOLEAN /\ qr \in {"none", "code", "seed"}
  /\ reveal \in 0..RevealTicks /\ idle \in 0..IdleTicks
  /\ failed \subseteq Names
  /\ heap \subseteq {"passphrase", "seed", "secret"}

Unlocked == mode \notin Prompts \cup {"quit"}

-----------------------------------------------------------------------------
Present(e) == {n \in Names : e[n] # NoVal}
Rank(n, S) == Cardinality({x \in S : x < n})
IsSelected(n) == n \in names /\ Rank(n, names) = selected

(* What render draws in clear: the selected entry, on the vault tab, until *)
(* reveal_until.  (An otpauth:// value, never drawn, is not told apart.)   *)
Revealed ==
  {n \in names : /\ IsSelected(n) /\ reveal > 0
                 /\ Unlocked /\ qr = "none" /\ index = "vault"
                 /\ mode \notin {"EditValue", "Generate"} /\ mem[n] # NoVal}

(* refresh_names: the sorted names of the store, the selection kept inside.*)
Clamp(i, S) == IF i < Cardinality(S) THEN i ELSE IF S = {} THEN 0 ELSE Cardinality(S) - 1
(* Mutated: the selection is left where it was.                            *)
RefreshUnclamped(i) ==
  /\ names' = Present(mem')
  /\ selected' = i

Refresh(i) ==
  /\ names' = Present(mem')
  /\ selected' = Clamp(i, names')

(* select_name, after refresh_names.                                       *)
RefreshAndSelect(n) ==
  /\ names' = Present(mem')
  /\ selected' = Rank(n, names')

(* The plaintext the current mode holds in ordinary memory.                *)
Held ==
  {k \in {"passphrase", "seed", "secret"} :
     \/ k = "passphrase" /\ mode \in Prompts /\ (typed # "empty" \/ again # "empty")
     \/ k = "seed" /\ mode = "AddTotpSeed" /\ typed # "empty"
     \/ k = "secret" /\ mode = "ConfirmImport"}

(* The next mode and what it carries.                                      *)
Go(m, n, new) ==
  /\ mode' = m /\ form' = n /\ isNew' = new
  /\ typed' = "empty" /\ again' = "empty"
ToBrowse == Go("Browse", NoName, FALSE)

Forget ==
  /\ mem' = Closed /\ failed' = {} /\ editor' = Empty /\ names' = {} /\ selected' = 0
  /\ pairing' = FALSE /\ qr' = "none" /\ reveal' = 0

(* Mutated: the overlay and the pairing session outlive the vault.         *)
LockVaultOnly ==
  /\ mem' = Closed /\ failed' = {} /\ editor' = Empty /\ names' = {} /\ selected' = 0
  /\ heap' = Held
  /\ Go("Unlock", NoName, FALSE)
  /\ UNCHANGED <<index, disk, overlay, reveal>>

(* lock: what the old mode holds is dropped and not wiped.                 *)
LockApp ==
  /\ Forget
  /\ heap' = Held
  /\ Go("Unlock", NoName, FALSE)
  /\ UNCHANGED <<index, disk>>

(* Mutated: a change never reaches the file.                               *)
SavedNowhere == UNCHANGED disk /\ failed' = {}

(* put_secret: a refused name changes nothing; otherwise memory changes    *)
(* first and the save succeeds or not.                                     *)
Saved == disk' = mem' /\ failed' = {}
PutOk(n, v) == n \in Names /\ mem' = [mem EXCEPT ![n] = v] /\ Saved
PutFails(n, v) ==
  /\ IF n \in Names THEN mem' = [mem EXCEPT ![n] = v] /\ failed' = failed \cup {n}
                    ELSE UNCHANGED <<mem, failed>>
  /\ UNCHANGED <<disk, list>>

Init ==
  /\ disk \in Entries \cup {NoFile, Reserved}
  /\ mode = IF disk = NoFile THEN "CreateVault" ELSE "Unlock"
  /\ form = NoName /\ isNew = FALSE /\ typed = "empty" /\ again = "empty"
  /\ index = "vault" /\ editor = Empty /\ mem = Closed
  /\ names = {} /\ selected = 0 /\ pairing = FALSE /\ qr = "none"
  /\ reveal = 0 /\ idle = 0 /\ failed = {} /\ heap = {}

-----------------------------------------------------------------------------
(* A key that reaches the handler of mode m.                               *)
Press(m) == mode = m /\ qr = "none" /\ idle' = 0 /\ heap' = {}

(* Ctrl-C anywhere, Esc at a prompt or in Browse, an error of the terminal:*)
(* the App is dropped, and Drop wipes what the mode holds.                 *)
Quit ==
  /\ mode # "quit"
  /\ Forget /\ Go("quit", NoName, FALSE) /\ idle' = 0 /\ heap' = {}
  /\ UNCHANGED <<index, disk>>

(* Ctrl-L, in every mode and through the overlay.                          *)
CtrlL == mode # "quit" /\ idle' = 0 /\ LockApp

DismissOverlay ==
  /\ mode # "quit" /\ qr # "none"
  /\ qr' = "none" /\ idle' = 0 /\ heap' = {}
  /\ UNCHANGED <<modeVars, index, editor, store, list, pairing, reveal>>

(* A key its mode has no use for, a refused Enter, or a failed call that   *)
(* only shows an error.                                                    *)
OtherKey ==
  /\ mode # "quit" /\ qr = "none" /\ idle' = 0 /\ heap' = {}
  /\ UNCHANGED <<modeVars, index, editor, store, list, overlay, reveal>>

-----------------------------------------------------------------------------
TypeLine ==
  /\ \E m \in Prompts \cup {"AddTotpSeed"} : Press(m)
  /\ IF mode = "ConfirmVault"
       THEN again' \in Lines /\ UNCHANGED typed
       ELSE typed' \in (IF mode = "CreateVault" THEN {"empty", "right"} ELSE Lines) /\ UNCHANGED again
  /\ UNCHANGED <<mode, form, isNew, index, editor, store, list, overlay, reveal>>

(* A key derivation that outlasts idle_timeout is followed by the auto-lock*)
(* of the same turn of the loop.                                           *)
OutlastedByKdf == IdleTicks > 0

UnlockEnter ==
  /\ Press("Unlock")
  /\ \/ /\ typed = "right" /\ disk \in Entries
        /\ mem' = disk
        /\ ToBrowse /\ Refresh(selected)
     \/ Go("Unlock", NoName, FALSE) /\ UNCHANGED <<mem, list>>
  /\ UNCHANGED <<index, editor, disk, failed, overlay, reveal>>

CreateEnter ==
  /\ Press("CreateVault")
  /\ mode' = "ConfirmVault" /\ again' = "empty"
  /\ UNCHANGED <<form, isNew, typed, index, editor, store, list, overlay, reveal>>

ConfirmEnter ==
  /\ Press("ConfirmVault")
  /\ \/ /\ typed # "empty" /\ again = "right" /\ disk = NoFile
        /\ \/ /\ disk' = [n \in Names |-> NoVal]
              /\ \/ mem' = disk' /\ ToBrowse /\ Refresh(selected)
                 \/ OutlastedByKdf /\ Go("Unlock", NoName, FALSE) /\ UNCHANGED <<mem, list>>
           \/ disk' = Reserved /\ Go("CreateVault", NoName, FALSE) /\ UNCHANGED <<mem, list>>
     \/ Go("CreateVault", NoName, FALSE) /\ UNCHANGED <<mem, disk, list>>
  /\ UNCHANGED <<index, editor, failed, overlay, reveal>>

-----------------------------------------------------------------------------
SwitchTab ==
  /\ Press("Browse")
  /\ index' \in {"vault", "network"} \ {index}
  /\ UNCHANGED <<modeVars, editor, store, list, overlay, reveal>>

(* Mutated: the value stays in clear until its time is over.               *)
MoveSelectionUnmasked ==
  /\ Press("Browse") /\ index = "vault"
  /\ selected' \in {IF selected = 0 THEN 0 ELSE selected - 1,
                    IF selected + 1 < Cardinality(names) THEN selected + 1 ELSE selected}
  /\ UNCHANGED <<modeVars, index, editor, store, names, overlay, reveal>>

(* Up and Down re-mask.                                                    *)
MoveSelection ==
  /\ Press("Browse") /\ index = "vault"
  /\ selected' \in {IF selected = 0 THEN 0 ELSE selected - 1,
                    IF selected + 1 < Cardinality(names) THEN selected + 1 ELSE selected}
  /\ reveal' = 0
  /\ UNCHANGED <<modeVars, index, editor, store, names, overlay>>

RevealKey ==
  /\ Press("Browse") /\ index = "vault"
  /\ reveal' = RevealTicks
  /\ UNCHANGED <<modeVars, index, editor, store, list, overlay>>

(* a, t, and d on a selected name.                                         *)
StartForm ==
  /\ Press("Browse") /\ index = "vault"
  /\ \/ \E m \in Naming : Go(m, NoName, FALSE)
     \/ \E n \in names : IsSelected(n) /\ Go("ConfirmDelete", n, FALSE)
  /\ UNCHANGED <<index, editor, store, list, overlay, reveal>>

(* begin_edit; a name memory no longer has is OtherKey.                    *)
BeginEdit ==
  /\ Press("Browse") /\ index = "vault"
  /\ \E n \in names :
       /\ IsSelected(n) /\ mem[n] # NoVal
       /\ editor' = mem[n]
       /\ Go("EditValue", n, FALSE)
  /\ UNCHANGED <<index, store, list, overlay, reveal>>

(* Mutated: the name in the bundle is not looked up.                       *)
BeginImportUnchecked ==
  /\ Press("Browse") /\ index = "network"
  /\ IF pairing
       THEN /\ \E n \in Names : Go("ConfirmImport", n, FALSE)
            /\ UNCHANGED overlay
       ELSE pairing' = TRUE /\ UNCHANGED <<modeVars, qr>>
  /\ UNCHANGED <<index, editor, store, list, reveal>>

(* r: a bundle sealed for the pairing session of this App opens; without   *)
(* one, a session is made (or not) and no bundle fits it.                  *)
BeginImport ==
  /\ Press("Browse") /\ index = "network"
  /\ IF pairing
       THEN /\ \E n \in Names \ names : Go("ConfirmImport", n, FALSE)
            /\ UNCHANGED overlay
       ELSE pairing' = TRUE /\ UNCHANGED <<modeVars, qr>>
  /\ UNCHANGED <<index, editor, store, list, reveal>>

(* q shows the code, w writes it to a file.                                *)
ShowCode ==
  /\ Press("Browse") /\ index = "network"
  /\ pairing' = TRUE /\ qr' \in {"none", "code"}
  /\ UNCHANGED <<modeVars, index, editor, store, list, reveal>>

-----------------------------------------------------------------------------
TypeName ==
  /\ \E m \in Naming : Press(m)
  /\ form' \in Names \cup {NoName, BadName}
  /\ UNCHANGED <<mode, isNew, typed, again, index, editor, store, list, overlay, reveal>>

(* A non-empty name that is not in the list goes on to its value or seed.  *)
NameEnter ==
  /\ form \notin names \cup {NoName}
  /\ \/ /\ Press("AddName")
        /\ editor' = Empty /\ index' = "vault"
        /\ Go("EditValue", form, TRUE)
     \/ /\ Press("AddTotpName")
        /\ Go("AddTotpSeed", form, FALSE)
        /\ UNCHANGED <<editor, index>>
  /\ UNCHANGED <<store, list, overlay, reveal>>

(* Mutated: only a confirmed import is wiped.                              *)
CancelUnwiped ==
  /\ mode \in Naming \cup {"AddTotpSeed", "EditValue", "ConfirmDelete", "ConfirmImport"}
  /\ qr = "none" /\ idle' = 0
  /\ ToBrowse
  /\ IF mode = "EditValue" THEN editor' = Empty /\ index' = "vault" ELSE UNCHANGED <<editor, index>>
  /\ heap' = Held
  /\ UNCHANGED <<store, list, overlay, reveal>>

(* Esc, or any key but y at a confirmation; a seed or a received secret is *)
(* wiped.                                                                  *)
Cancel ==
  /\ \E m \in Naming \cup {"AddTotpSeed", "EditValue", "ConfirmDelete", "ConfirmImport"} : Press(m)
  /\ ToBrowse
  /\ IF mode = "EditValue" THEN editor' = Empty /\ index' = "vault" ELSE UNCHANGED <<editor, index>>
  /\ UNCHANGED <<store, list, overlay, reveal>>

(* A seed that parses is stored as its URI; Ctrl-G mints one and shows it. *)
AddTotp ==
  /\ Press("AddTotpSeed") /\ ToBrowse
  /\ \E v \in Uris :
       \/ PutOk(form, v) /\ RefreshAndSelect(form)
          /\ \/ typed = "right" /\ UNCHANGED qr
             \/ qr' = "seed"
       \/ PutFails(form, v) /\ UNCHANGED qr
  /\ UNCHANGED <<index, editor, pairing, reveal>>

-----------------------------------------------------------------------------
TypeValue ==
  /\ Press("EditValue")
  /\ editor' \in Vals
  /\ UNCHANGED <<modeVars, index, store, list, overlay, reveal>>

(* Ctrl-S: a failed save stays in the editor.                              *)
SaveValue ==
  /\ Press("EditValue")
  /\ \/ /\ PutOk(form, editor) /\ RefreshAndSelect(form)
        /\ editor' = Empty /\ index' = "vault" /\ ToBrowse
     \/ PutFails(form, editor) /\ UNCHANGED <<editor, index, modeVars>>
  /\ UNCHANGED <<overlay, reveal>>

(* Ctrl-G, and back with Esc or with a generated value.                    *)
Generator ==
  /\ \/ Press("EditValue") /\ mode' = "Generate" /\ UNCHANGED editor
     \/ Press("Generate") /\ mode' = "EditValue" /\ editor' \in Vals
  /\ UNCHANGED <<form, isNew, typed, again, index, store, list, overlay, reveal>>

(* y: a delete that fails has removed the name from memory only, and the   *)
(* list is not refreshed; deleting it again finds it absent and saves      *)
(* nothing.                                                                *)
ConfirmDelete ==
  /\ Press("ConfirmDelete") /\ ToBrowse
  /\ mem' = [mem EXCEPT ![form] = NoVal]
  /\ \/ /\ IF mem[form] = NoVal THEN UNCHANGED <<disk, failed>> ELSE Saved
        /\ Refresh(IF selected = 0 THEN 0 ELSE selected - 1)
     \/ mem[form] # NoVal /\ failed' = failed \cup {form} /\ UNCHANGED <<disk, list>>
  /\ UNCHANGED <<index, editor, overlay, reveal>>

ConfirmImport ==
  /\ Press("ConfirmImport") /\ ToBrowse
  /\ \E v \in Vals :
       \/ PutOk(form, v) /\ RefreshAndSelect(form) /\ index' = "vault"
       \/ PutFails(form, v) /\ UNCHANGED index
  /\ UNCHANGED <<editor, overlay, reveal>>

-----------------------------------------------------------------------------
Wait ==
  /\ reveal' = IF reveal = 0 THEN 0 ELSE reveal - 1
  /\ heap' = {}
  /\ UNCHANGED <<modeVars, index, editor, store, list, overlay>>

(* Mutated: with the editor open the loop waits for a key.                 *)
TickOutsideEditor ==
  /\ mode \notin {"quit", "EditValue"}
  /\ idle' = IF idle = IdleTicks THEN idle ELSE idle + 1
  /\ IF IdleTicks > 0 /\ Unlocked /\ idle' = IdleTicks THEN LockApp ELSE Wait

(* Time passes; the loop looks at the idle deadline at least once per poll.*)
Tick ==
  /\ mode # "quit"
  /\ idle' = IF idle = IdleTicks THEN idle ELSE idle + 1
  /\ IF IdleTicks > 0 /\ Unlocked /\ idle' = IdleTicks THEN LockApp ELSE Wait

Key ==
  \/ Quit \/ CtrlL \/ DismissOverlay \/ OtherKey
  \/ TypeLine \/ UnlockEnter \/ CreateEnter \/ ConfirmEnter
  \/ SwitchTab \/ MoveSelection \/ RevealKey \/ StartForm \/ BeginEdit
  \/ BeginImport \/ ShowCode
  \/ TypeName \/ NameEnter \/ Cancel \/ AddTotp
  \/ TypeValue \/ SaveValue \/ Generator \/ ConfirmDelete \/ ConfirmImport

Next == Key \/ Tick

Spec == Init /\ [][Next]_vars

(* run_app never blocks longer than one poll.                              *)
FairSpec == Spec /\ WF_vars(Tick)

-----------------------------------------------------------------------------
(* The highlighted entry is one of the list: what Enter, e, c, s and d act *)
(* on is what the user sees, also after deletes that failed and lists that *)
(* shrank behind the selection.                                            *)
SelectionIsShown == selected < Cardinality(names) \/ (names = {} /\ selected = 0)

(* The list shows the names the vault file has, and no other name, but for *)
(* those whose last change failed.                                         *)
ListIsStored ==
  Unlocked => (names \ Present(disk)) \cup (Present(disk) \ names) \subseteq failed

(* A secret that is being added (typed, scanned, received) is never one    *)
(* the vault file has: however long the form stays open and whatever       *)
(* failed before, saving it replaces nothing but a secret whose own last   *)
(* change failed.                                                          *)
AddsReplaceNothing ==
  (mode \in {"EditValue", "Generate"} /\ isNew) \/ mode \in {"AddTotpSeed", "ConfirmImport"}
  => form \notin Present(disk) \ failed

(* A locked, a not yet unlocked and an ended App holds nothing of a vault: *)
(* no key, no name, no value in the editor, no QR code, no pairing session.*)
LockedHoldsNothing ==
  ~Unlocked => /\ mem = Closed /\ editor = Empty /\ names = {} /\ selected = 0
               /\ ~pairing /\ qr = "none" /\ reveal = 0

(* Passphrases, seeds and received secrets are wiped however their mode    *)
(* ends, unless a lock ends it.                                            *)
OnlyLockLeavesPlaintext == [][heap' # {} => LockApp]_vars

(* What is on the screen in clear is the secret s was pressed on, or one   *)
(* that a change of the list put in its place: as long as no secret is     *)
(* added or deleted, nothing the user does shows another one.              *)
RevealsOnlySelected ==
  [][Revealed' \subseteq {n \in names : IsSelected(n)} \/ names' # names]_vars

(* Time can pass in every mode of an unlocked App, whatever it waits for.  *)
TickIsEnabled == IdleTicks > 0 /\ Unlocked => ENABLED <<Tick>>_vars

(* An unlocked vault that is left alone is locked, in every mode.          *)
IdleVaultLocks == IdleTicks > 0 => []<>~Unlocked \/ []<><<Key>>_vars

(* LocalStore::delete_secret "Removes the entry `name` and persists the    *)
(* vault": a name that a delete takes off the list is off the vault file.  *)
DeletedIsGone ==
  [][mode = "ConfirmDelete" /\ mode' = "Browse" /\ form \in names \ names'
       => disk'[form] = NoVal]_vars
=============================================================================
