---------------------------- MODULE TuiAppProofs ----------------------------
(***************************************************************************)
(* Theorems about TuiApp, for any names, values and URIs and any length of *)
(* idle_timeout and REVEAL_DURATION.                                       *)
(***************************************************************************)
EXTENDS TuiApp, FiniteSetTheorems, NaturalsInduction, WellFoundedInduction, TLAPS

-----------------------------------------------------------------------------
(* The strengthening.  An open App has a map and a file that differ at most*)
(* where a save failed; a form that edits or deletes is about the selected *)
(* name, and one that adds is about a name that is not on the list.        *)
OpenInv ==
  Unlocked => /\ mem \in Entries /\ disk \in Entries
              /\ \A n \in Names \ failed : mem[n] = disk[n]

Adding == (mode \in {"EditValue", "Generate"} /\ isNew) \/ mode \in {"AddTotpSeed", "ConfirmImport"}
Changing == (mode \in {"EditValue", "Generate"} /\ ~isNew) \/ mode = "ConfirmDelete"
FormInv == (Adding => form \notin names) /\ (Changing => IsSelected(form))

IInv ==
  TypeOK /\ OpenInv /\ FormInv /\ SelectionIsShown /\ ListIsStored /\ LockedHoldsNothing

-----------------------------------------------------------------------------
(* Ranks and sizes.                                                        *)

LEMMA SizeType ==
  ASSUME NEW S \in SUBSET Names
  PROVE  /\ IsFiniteSet(S) /\ Cardinality(S) \in Nat
         /\ Cardinality(S) = 0 <=> S = {}
  <1>1. IsFiniteSet(S)
    BY NamesAssumption, FS_Subset
  <1> QED BY <1>1, FS_CardinalityType, FS_EmptySet

(* A member's rank is a position of the list.                              *)
LEMMA RankIsAPosition ==
  ASSUME NEW S \in SUBSET Names, NEW n \in Names
  PROVE  /\ Rank(n, S) \in Nat
         /\ n \in S => Rank(n, S) < Cardinality(S)
  <1> DEFINE T == {x \in S : x < n}
  <1>1. T \in SUBSET S /\ T \in SUBSET Names
    OBVIOUS
  <1>2. Cardinality(T) \in Nat /\ Cardinality(S) \in Nat /\ IsFiniteSet(S)
    BY <1>1, SizeType
  <1>3. Cardinality(T) <= Cardinality(S) /\ (Cardinality(S) = Cardinality(T) => S = T)
    BY <1>1, <1>2, FS_Subset
  <1>4. n \notin T
    BY NamesAssumption
  <1> HIDE DEF T
  <1>5. n \in S => Cardinality(T) < Cardinality(S)
    BY <1>2, <1>3, <1>4
  <1> QED BY <1>2, <1>5 DEF Rank, T

LEMMA ClampIsAPosition ==
  ASSUME NEW S \in SUBSET Names, NEW i \in Nat
  PROVE  /\ Clamp(i, S) \in Nat
         /\ Clamp(i, S) < Cardinality(S) \/ (S = {} /\ Clamp(i, S) = 0)
  <1>1. CASE i < Cardinality(S)
    BY <1>1 DEF Clamp
  <1>2. CASE ~(i < Cardinality(S)) /\ S = {}
    BY <1>2 DEF Clamp
  <1>3. CASE ~(i < Cardinality(S)) /\ S # {}
    <2>1. Cardinality(S) \in Nat /\ Cardinality(S) # 0
      BY <1>3, SizeType
    <2>2. Clamp(i, S) = Cardinality(S) - 1
      BY <1>3 DEF Clamp
    <2> QED BY <2>1, <2>2
  <1> QED BY <1>1, <1>2, <1>3

LEMMA PresentType == \A e : Present(e) \in SUBSET Names
  BY DEF Present

(* refresh_names and select_name leave a list that is the store's and a    *)
(* selection that is in it.                                                *)
LEMMA RefreshIsSound ==
  ASSUME NEW i \in Nat, Refresh(i)
  PROVE  /\ names' = Present(mem') /\ names' \subseteq Names /\ selected' \in Nat
         /\ SelectionIsShown'
  <1>1. names' \in SUBSET Names /\ names' = Present(mem') /\ selected' = Clamp(i, names')
    BY PresentType DEF Refresh
  <1>2. selected' \in Nat /\ (selected' < Cardinality(names') \/ (names' = {} /\ selected' = 0))
    BY <1>1, ClampIsAPosition
  <1> QED BY <1>1, <1>2 DEF SelectionIsShown

LEMMA StoreAndSelectIsSound ==
  ASSUME NEW n, NEW v \in Vals, mem \in Entries, PutOk(n, v), RefreshAndSelect(n)
  PROVE  /\ n \in Names /\ mem' \in Entries /\ disk' = mem' /\ failed' = {}
         /\ names' = Present(mem') /\ names' \subseteq Names /\ n \in names'
         /\ selected' = Rank(n, names') /\ selected' \in Nat
         /\ SelectionIsShown'
  <1>1. n \in Names /\ mem' = [mem EXCEPT ![n] = v] /\ disk' = mem' /\ failed' = {}
    BY DEF PutOk, Saved
  <1>2. mem' \in Entries /\ mem'[n] # NoVal
    BY <1>1, ValuesAssumption DEF Entries
  <1>3. names' = Present(mem') /\ selected' = Rank(n, names')
    BY DEF RefreshAndSelect
  <1>4. names' \in SUBSET Names /\ n \in names'
    BY <1>1, <1>2, <1>3 DEF Present
  <1>5. selected' \in Nat /\ selected' < Cardinality(names')
    BY <1>1, <1>3, <1>4, RankIsAPosition
  <1> QED BY <1>1, <1>2, <1>3, <1>4, <1>5 DEF SelectionIsShown

LEMMA FailedPutIsSound ==
  ASSUME NEW n, NEW v \in Vals, mem \in Entries, disk \in Entries, failed \subseteq Names,
         \A x \in Names \ failed : mem[x] = disk[x],
         PutFails(n, v)
  PROVE  /\ mem' \in Entries /\ disk' = disk /\ names' = names /\ selected' = selected
         /\ failed \subseteq failed' /\ failed' \subseteq Names
         /\ \A x \in Names \ failed' : mem'[x] = disk'[x]
  <1>1. CASE n \in Names
    BY <1>1 DEF PutFails, Entries, list
  <1>2. CASE n \notin Names
    BY <1>2 DEF PutFails, list
  <1> QED BY <1>1, <1>2

LEMMA ListedIsStored ==
  ASSUME NEW m, NEW d, NEW f, \A x \in Names \ f : m[x] = d[x]
  PROVE  (Present(m) \ Present(d)) \cup (Present(d) \ Present(m)) \subseteq f
  BY DEF Present

-----------------------------------------------------------------------------
(* Init and the steps, one lemma per kind of step.                         *)

LEMMA InitInv == Init => IInv
  <1> SUFFICES ASSUME Init PROVE IInv
    OBVIOUS
  <1>1. TypeOK
    <2>1. mode \in Modes /\ form \in Names \cup {NoName, BadName} /\ isNew \in BOOLEAN
          /\ typed \in Lines /\ again \in Lines
      BY DEF Init, Modes, Prompts, Lines
    <2>2. editor \in Vals /\ reveal \in 0..RevealTicks /\ idle \in 0..IdleTicks
      BY ValuesAssumption, TicksAssumption DEF Init
    <2> QED BY <2>1, <2>2 DEF Init, TypeOK
  <1>2. ~Unlocked /\ mode \in {"CreateVault", "Unlock"}
    BY DEF Init, Unlocked, Prompts
  <1>3. SelectionIsShown /\ LockedHoldsNothing
    BY DEF Init, SelectionIsShown, LockedHoldsNothing
  <1> QED BY <1>1, <1>2, <1>3 DEF IInv, OpenInv, FormInv, ListIsStored, Adding, Changing

(* Quit and lock, in every mode.                                           *)
LEMMA ForgetInv ==
  ASSUME IInv, Forget, UNCHANGED <<index, disk>>, idle' \in 0..IdleTicks,
         heap' \subseteq {"passphrase", "seed", "secret"},
         NEW m \in {"quit", "Unlock"}, Go(m, NoName, FALSE)
  PROVE  IInv'
  <1>1. TypeOK'
    <2>1. mode' \in Modes /\ form' \in Names \cup {NoName, BadName} /\ isNew' \in BOOLEAN
          /\ typed' \in Lines /\ again' \in Lines
      BY DEF Go, Modes, Prompts, Lines
    <2>2. editor' \in Vals /\ reveal' \in 0..RevealTicks
      BY ValuesAssumption, TicksAssumption DEF Forget
    <2> QED BY <2>1, <2>2 DEF Forget, IInv, TypeOK
  <1>2. ~Unlocked' /\ mode' \in {"quit", "Unlock"}
    BY DEF Go, Unlocked, Prompts
  <1>3. SelectionIsShown' /\ LockedHoldsNothing'
    BY DEF Forget, SelectionIsShown, LockedHoldsNothing
  <1> QED BY <1>1, <1>2, <1>3 DEF IInv, OpenInv, FormInv, ListIsStored, Adding, Changing

LEMMA LockInv ==
  ASSUME IInv, LockApp, idle' \in 0..IdleTicks
  PROVE  IInv'
  <1>1. heap' \subseteq {"passphrase", "seed", "secret"}
    BY DEF LockApp, Held
  <1> QED BY <1>1, ForgetInv DEF LockApp

(* Steps that leave the vault, the list and the form as they are.          *)
LEMMA StillInv ==
  ASSUME IInv, TypeOK', UNCHANGED <<mode, form, isNew, store, list>>,
         LockedHoldsNothing'
  PROVE  IInv'
  <1>1. mode' = mode /\ form' = form /\ isNew' = isNew /\ mem' = mem /\ disk' = disk
        /\ failed' = failed /\ names' = names /\ selected' = selected
    BY DEF store, list
  <1>2. OpenInv' /\ ListIsStored' /\ SelectionIsShown'
    BY <1>1 DEF IInv, OpenInv, ListIsStored, SelectionIsShown, Unlocked
  <1>3. FormInv'
    BY <1>1 DEF IInv, FormInv, Adding, Changing, IsSelected
  <1> QED BY <1>2, <1>3 DEF IInv

LEMMA StillSteps ==
  ASSUME IInv,
         DismissOverlay \/ OtherKey \/ TypeLine \/ SwitchTab \/ RevealKey \/ ShowCode \/ TypeValue
  PROVE  IInv'
  <1> USE ValuesAssumption, TicksAssumption DEF Press, modeVars, store, list, overlay
  <1>1. CASE DismissOverlay
    <2>1. TypeOK' /\ LockedHoldsNothing'
      BY <1>1 DEF DismissOverlay, IInv, TypeOK, LockedHoldsNothing, Unlocked
    <2> QED BY <1>1, <2>1, StillInv DEF DismissOverlay
  <1>2. CASE OtherKey
    <2>1. TypeOK' /\ LockedHoldsNothing'
      BY <1>2 DEF OtherKey, IInv, TypeOK, LockedHoldsNothing, Unlocked
    <2> QED BY <1>2, <2>1, StillInv DEF OtherKey
  <1>3. CASE TypeLine
    <2>1. typed' \in Lines /\ again' \in Lines
      BY <1>3 DEF TypeLine, IInv, TypeOK, Lines
    <2>2. TypeOK' /\ LockedHoldsNothing'
      BY <1>3, <2>1 DEF TypeLine, IInv, TypeOK, LockedHoldsNothing, Unlocked
    <2> QED BY <1>3, <2>2, StillInv DEF TypeLine
  <1>4. CASE SwitchTab
    <2>1. TypeOK' /\ LockedHoldsNothing'
      BY <1>4 DEF SwitchTab, IInv, TypeOK, LockedHoldsNothing, Unlocked
    <2> QED BY <1>4, <2>1, StillInv DEF SwitchTab
  <1>5. CASE RevealKey
    <2>1. TypeOK' /\ LockedHoldsNothing'
      BY <1>5 DEF RevealKey, IInv, TypeOK, LockedHoldsNothing, Unlocked, Prompts
    <2> QED BY <1>5, <2>1, StillInv DEF RevealKey
  <1>6. CASE ShowCode
    <2>1. TypeOK' /\ LockedHoldsNothing'
      BY <1>6 DEF ShowCode, IInv, TypeOK, LockedHoldsNothing, Unlocked, Prompts
    <2> QED BY <1>6, <2>1, StillInv DEF ShowCode
  <1>7. CASE TypeValue
    <2>1. TypeOK' /\ LockedHoldsNothing'
      BY <1>7 DEF TypeValue, IInv, TypeOK, LockedHoldsNothing, Unlocked, Prompts
    <2> QED BY <1>7, <2>1, StillInv DEF TypeValue
  <1> QED BY <1>1, <1>2, <1>3, <1>4, <1>5, <1>6, <1>7

LEMMA TickInv ==
  ASSUME IInv, Tick
  PROVE  IInv'
  <1>1. idle' \in 0..IdleTicks
    BY TicksAssumption DEF Tick, IInv, TypeOK
  <1>2. CASE LockApp
    BY <1>1, <1>2, LockInv
  <1>3. CASE Wait
    <2>1. reveal' \in 0..RevealTicks /\ (reveal = 0 => reveal' = 0)
      BY <1>3, TicksAssumption DEF Wait, IInv, TypeOK
    <2>2. TypeOK' /\ LockedHoldsNothing'
      BY <1>1, <1>3, <2>1
      DEF Wait, IInv, TypeOK, LockedHoldsNothing, Unlocked, modeVars, store, list, overlay
    <2> QED BY <1>3, <2>2, StillInv DEF Wait, modeVars
  <1> QED BY <1>2, <1>3 DEF Tick

(* Steps from one form or key to another over the same vault and list.     *)
LEMMA GoType ==
  ASSUME TypeOK, NEW m \in Modes, NEW n \in Names \cup {NoName, BadName}, NEW b \in BOOLEAN,
         Go(m, n, b)
  PROVE  /\ mode' \in Modes /\ form' \in Names \cup {NoName, BadName} /\ isNew' \in BOOLEAN
         /\ typed' \in Lines /\ again' \in Lines
  BY DEF TypeOK, Go, Lines

LEMMA OtherFormInv ==
  ASSUME IInv, TypeOK', FormInv', LockedHoldsNothing', UNCHANGED <<store, list>>,
         Unlocked' => Unlocked
  PROVE  IInv'
  <1>1. mem' = mem /\ disk' = disk /\ failed' = failed /\ names' = names /\ selected' = selected
    BY DEF store, list
  <1> QED BY <1>1 DEF IInv, OpenInv, ListIsStored, SelectionIsShown

(* What a step from one open mode to another leaves to be shown.           *)
LEMMA OpenFormInv ==
  ASSUME IInv, Unlocked, Unlocked', UNCHANGED <<store, list, overlay, reveal>>,
         idle' = 0, heap' = {}, index' \in {"vault", "network"}, editor' \in Vals,
         mode' \in Modes, form' \in Names \cup {NoName, BadName}, isNew' \in BOOLEAN,
         typed' \in Lines, again' \in Lines, FormInv'
  PROVE  IInv'
  <1>1. TypeOK'
    BY TicksAssumption DEF IInv, TypeOK, store, list, overlay
  <1>2. LockedHoldsNothing'
    BY DEF LockedHoldsNothing
  <1> QED BY <1>1, <1>2, OtherFormInv

LEMMA MoveSelectionInv ==
  ASSUME IInv, MoveSelection
  PROVE  IInv'
  <1>1. mode = "Browse" /\ mode' = "Browse" /\ names' = names /\ reveal' = 0
        /\ idle' = 0 /\ heap' = {} /\ UNCHANGED <<modeVars, index, editor, store, overlay>>
    BY DEF MoveSelection, Press, modeVars
  <1>2. names \in SUBSET Names /\ selected \in Nat
    BY DEF IInv, TypeOK
  <1>3. Cardinality(names) \in Nat /\ (Cardinality(names) = 0 <=> names = {})
    BY <1>2, SizeType
  <1>4. selected' \in Nat /\ SelectionIsShown'
    BY <1>1, <1>2, <1>3 DEF MoveSelection, IInv, SelectionIsShown
  <1>5. TypeOK'
    BY <1>1, <1>4, TicksAssumption DEF IInv, TypeOK, modeVars, store, overlay
  <1>6. OpenInv' /\ ListIsStored'
    BY <1>1 DEF IInv, OpenInv, ListIsStored, Unlocked, store
  <1>7. FormInv' /\ LockedHoldsNothing'
    BY <1>1 DEF FormInv, Adding, Changing, LockedHoldsNothing, Unlocked, Prompts
  <1> QED BY <1>4, <1>5, <1>6, <1>7 DEF IInv

LEMMA FormSteps ==
  ASSUME IInv, StartForm \/ BeginEdit \/ TypeName \/ NameEnter \/ Cancel \/ Generator
  PROVE  IInv'
  <1> USE DEF Press
  <1>0. /\ TypeOK /\ names \subseteq Names /\ Empty \in Vals
        /\ index \in {"vault", "network"} /\ editor \in Vals
    BY ValuesAssumption DEF IInv, TypeOK
  <1>1. CASE StartForm
    <2>1. PICK m \in Naming \cup {"ConfirmDelete"}, n \in names \cup {NoName} :
             /\ Go(m, n, FALSE) /\ (m = "ConfirmDelete" => IsSelected(n))
      <3>1. CASE \E m \in Naming : Go(m, NoName, FALSE)
        BY <3>1, Zenon DEF Naming
      <3>2. CASE \E n \in names : IsSelected(n) /\ Go("ConfirmDelete", n, FALSE)
        BY <3>2, Zenon
      <3> QED BY <1>1, <3>1, <3>2 DEF StartForm
    <2>2. m \in Modes /\ n \in Names \cup {NoName, BadName} /\ FALSE \in BOOLEAN
      BY <1>0, <2>1 DEF Modes, Naming
    <2>3. /\ mode' \in Modes /\ form' \in Names \cup {NoName, BadName} /\ isNew' \in BOOLEAN
          /\ typed' \in Lines /\ again' \in Lines
      BY <1>0, <2>1, <2>2, GoType
    <2>4. Unlocked /\ Unlocked' /\ mode' = m /\ form' = n
      BY <1>1, <2>1 DEF StartForm, Unlocked, Prompts, Naming, Go
    <2>5. names' = names /\ selected' = selected
      BY <1>1 DEF StartForm, list
    <2>6. FormInv'
      BY <2>1, <2>4, <2>5 DEF FormInv, Adding, Changing, Naming, IsSelected
    <2> QED BY <1>0, <1>1, <2>3, <2>4, <2>6, OpenFormInv DEF StartForm
  <1>2. CASE BeginEdit
    <2>1. PICK n \in names : IsSelected(n) /\ mem[n] # NoVal /\ editor' = mem[n]
                             /\ Go("EditValue", n, FALSE)
      BY <1>2 DEF BeginEdit
    <2>2. Unlocked /\ mode' = "EditValue" /\ form' = n /\ isNew' = FALSE /\ Unlocked'
      BY <1>2, <2>1 DEF BeginEdit, Unlocked, Prompts, Go
    <2>3. editor' \in Vals
      BY <1>0, <2>1, <2>2 DEF IInv, OpenInv, Entries
    <2>4. "EditValue" \in Modes /\ n \in Names \cup {NoName, BadName}
      BY <1>0 DEF Modes
    <2>5. /\ mode' \in Modes /\ form' \in Names \cup {NoName, BadName} /\ isNew' \in BOOLEAN
          /\ typed' \in Lines /\ again' \in Lines
      BY <1>0, <2>1, <2>4, GoType
    <2>6. names' = names /\ selected' = selected
      BY <1>2 DEF BeginEdit, list
    <2>7. FormInv'
      BY <2>1, <2>2, <2>6 DEF FormInv, Adding, Changing, IsSelected
    <2> QED BY <1>0, <1>2, <2>2, <2>3, <2>5, <2>7, OpenFormInv DEF BeginEdit
  <1>3. CASE TypeName
    <2>1. mode \in Naming /\ mode' = mode /\ Unlocked /\ Unlocked'
      BY <1>3 DEF TypeName, Unlocked, Prompts, Naming
    <2>2. FormInv'
      BY <2>1 DEF FormInv, Adding, Changing, Naming
    <2> QED BY <1>0, <1>3, <2>1, <2>2, OpenFormInv DEF TypeName, TypeOK
  <1>4. CASE NameEnter
    <2>1. PICK m \in {"EditValue", "AddTotpSeed"}, b \in BOOLEAN :
             Go(m, form, b) /\ (m = "EditValue" => b)
      BY <1>4 DEF NameEnter
    <2>2. Unlocked /\ Unlocked' /\ mode' = m /\ form' = form /\ isNew' = b
      BY <1>4, <2>1 DEF NameEnter, Unlocked, Prompts, Go
    <2>3. m \in Modes /\ form \in Names \cup {NoName, BadName}
      BY <1>0 DEF Modes, TypeOK
    <2>4. /\ mode' \in Modes /\ form' \in Names \cup {NoName, BadName} /\ isNew' \in BOOLEAN
          /\ typed' \in Lines /\ again' \in Lines
      BY <1>0, <2>1, <2>3, GoType
    <2>5. form \notin names /\ names' = names
      BY <1>4 DEF NameEnter, list
    <2>6. FormInv'
      BY <2>1, <2>2, <2>5 DEF FormInv, Adding, Changing
    <2> QED BY <1>0, <1>4, <2>2, <2>4, <2>6, OpenFormInv DEF NameEnter
  <1>5. CASE Cancel
    <2>1. Unlocked /\ mode' = "Browse" /\ Unlocked'
      BY <1>5 DEF Cancel, ToBrowse, Go, Unlocked, Prompts, Naming
    <2>2. /\ mode' \in Modes /\ form' \in Names \cup {NoName, BadName} /\ isNew' \in BOOLEAN
          /\ typed' \in Lines /\ again' \in Lines
      BY <1>5 DEF Cancel, ToBrowse, Go, Modes, Lines
    <2>3. FormInv'
      BY <2>1 DEF FormInv, Adding, Changing
    <2> QED BY <1>0, <1>5, <2>1, <2>2, <2>3, OpenFormInv DEF Cancel
  <1>6. CASE Generator
    <2>1. mode \in {"EditValue", "Generate"} /\ mode' \in {"EditValue", "Generate"}
          /\ form' = form /\ isNew' = isNew /\ names' = names /\ selected' = selected
      BY <1>6 DEF Generator, list
    <2>2. Unlocked /\ Unlocked' /\ mode' \in Modes /\ editor' \in Vals
      BY <1>0, <1>6, <2>1 DEF Generator, Unlocked, Prompts, Modes
    <2>3. FormInv'
      BY <2>1 DEF IInv, FormInv, Adding, Changing, IsSelected
    <2> QED BY <1>0, <1>6, <2>1, <2>2, <2>3, OpenFormInv DEF Generator, TypeOK
  <1> QED BY <1>1, <1>2, <1>3, <1>4, <1>5, <1>6

LEMMA CreateEnterInv ==
  ASSUME IInv, CreateEnter
  PROVE  IInv'
  <1>1. mode = "CreateVault" /\ mode' = "ConfirmVault" /\ ~Unlocked /\ ~Unlocked'
    BY DEF CreateEnter, Press, Unlocked, Prompts
  <1>2. TypeOK'
    BY <1>1, TicksAssumption
    DEF CreateEnter, Press, IInv, TypeOK, Modes, Prompts, Lines, store, list, overlay
  <1>3. FormInv' /\ LockedHoldsNothing'
    BY <1>1 DEF CreateEnter, IInv, FormInv, Adding, Changing, LockedHoldsNothing, store, list, overlay
  <1> QED BY <1>1, <1>2, <1>3, OtherFormInv DEF CreateEnter

LEMMA BeginImportInv ==
  ASSUME IInv, BeginImport
  PROVE  IInv'
  <1>0. mode = "Browse" /\ Unlocked /\ TypeOK
    BY DEF BeginImport, Press, Unlocked, Prompts, IInv
  <1>1. CASE pairing
    <2>1. PICK n \in Names \ names : Go("ConfirmImport", n, FALSE)
      BY <1>1 DEF BeginImport
    <2>2. mode' = "ConfirmImport" /\ form' = n /\ Unlocked' /\ "ConfirmImport" \in Modes
      BY <2>1 DEF Go, Unlocked, Prompts, Modes
    <2>3. /\ mode' \in Modes /\ form' \in Names \cup {NoName, BadName} /\ isNew' \in BOOLEAN
          /\ typed' \in Lines /\ again' \in Lines
      BY <1>0, <2>1, <2>2, GoType
    <2>4. names' = names
      BY DEF BeginImport, list
    <2>5. FormInv'
      BY <2>2, <2>4 DEF FormInv, Adding, Changing
    <2> QED BY <1>0, <1>1, <2>2, <2>3, <2>5, OpenFormInv DEF BeginImport, Press, TypeOK
  <1>2. CASE ~pairing
    <2>1. TypeOK' /\ LockedHoldsNothing'
      BY <1>0, <1>2, TicksAssumption
      DEF BeginImport, Press, TypeOK, LockedHoldsNothing, Unlocked, Prompts, modeVars, store, list
    <2> QED BY <1>2, <2>1, StillInv DEF BeginImport, modeVars
  <1> QED BY <1>1, <1>2

(* Steps that change the vault or the list and end in Browse.              *)
LEMMA ToBrowseType ==
  ASSUME ToBrowse
  PROVE  /\ mode' = "Browse" /\ Unlocked'
         /\ mode' \in Modes /\ form' \in Names \cup {NoName, BadName} /\ isNew' \in BOOLEAN
         /\ typed' \in Lines /\ again' \in Lines
         /\ FormInv' /\ LockedHoldsNothing'
  <1>1. mode' = "Browse" /\ Unlocked'
    BY DEF ToBrowse, Go, Unlocked, Prompts
  <1>2. FormInv' /\ LockedHoldsNothing'
    BY <1>1 DEF FormInv, Adding, Changing, LockedHoldsNothing
  <1> QED BY <1>1, <1>2 DEF ToBrowse, Go, Modes, Lines

LEMMA BrowseInv ==
  ASSUME IInv, ToBrowse,
         idle' = 0, heap' = {}, reveal' = reveal, pairing' = pairing,
         index' \in {"vault", "network"}, editor' \in Vals, qr' \in {"none", "code", "seed"},
         mem' \in Entries, disk' \in Entries, failed' \subseteq Names,
         names' \subseteq Names, selected' \in Nat,
         \A n \in Names \ failed' : mem'[n] = disk'[n],
         SelectionIsShown', ListIsStored'
  PROVE  IInv'
  <1>1. TypeOK'
    BY ToBrowseType, TicksAssumption DEF IInv, TypeOK
  <1> QED BY <1>1, ToBrowseType DEF IInv, OpenInv

LEMMA StoredInv ==
  ASSUME IInv, Unlocked, NEW n, NEW v \in Vals, PutOk(n, v), RefreshAndSelect(n), ToBrowse,
         idle' = 0, heap' = {}, reveal' = reveal, pairing' = pairing,
         index' \in {"vault", "network"}, editor' \in Vals, qr' \in {"none", "code", "seed"}
  PROVE  IInv'
  <1>1. mem \in Entries
    BY DEF IInv, OpenInv
  <1>2. /\ mem' \in Entries /\ disk' = mem' /\ failed' = {}
        /\ names' = Present(mem') /\ names' \subseteq Names /\ selected' \in Nat
        /\ SelectionIsShown'
    BY <1>1, StoreAndSelectIsSound
  <1>3. ListIsStored'
    BY <1>2 DEF ListIsStored
  <1> QED BY <1>2, <1>3, BrowseInv

(* The list keeps telling what the file has while more names fail.         *)
LEMMA UnsavedKeepsList ==
  ASSUME IInv, Unlocked, disk' = disk, names' = names, selected' = selected,
         failed \subseteq failed'
  PROVE  SelectionIsShown' /\ ListIsStored'
  BY DEF IInv, SelectionIsShown, ListIsStored

LEMMA UnstoredInv ==
  ASSUME IInv, Unlocked, NEW n, NEW v \in Vals, PutFails(n, v), ToBrowse,
         idle' = 0, heap' = {}, reveal' = reveal, pairing' = pairing, qr' = qr,
         index' = index, editor' = editor
  PROVE  IInv'
  <1>1. /\ mem \in Entries /\ disk \in Entries /\ failed \subseteq Names
        /\ \A x \in Names \ failed : mem[x] = disk[x]
    BY DEF IInv, OpenInv, TypeOK
  <1>2. /\ mem' \in Entries /\ disk' = disk /\ names' = names /\ selected' = selected
        /\ failed \subseteq failed' /\ failed' \subseteq Names
        /\ \A x \in Names \ failed' : mem'[x] = disk'[x]
    BY <1>1, FailedPutIsSound
  <1>3. SelectionIsShown' /\ ListIsStored'
    BY <1>2, UnsavedKeepsList
  <1> QED BY <1>1, <1>2, <1>3, BrowseInv DEF IInv, TypeOK

LEMMA AddTotpInv ==
  ASSUME IInv, AddTotp
  PROVE  IInv'
  <1>1. Unlocked /\ ToBrowse /\ idle' = 0 /\ heap' = {} /\ reveal' = reveal /\ pairing' = pairing
        /\ index' = index /\ editor' = editor
    BY DEF AddTotp, Press, Unlocked, Prompts
  <1>2. /\ index \in {"vault", "network"} /\ editor \in Vals
        /\ qr \in {"none", "code", "seed"}
    BY DEF IInv, TypeOK
  <1>3. PICK v \in Uris :
          \/ PutOk(form, v) /\ RefreshAndSelect(form) /\ (qr' = qr \/ qr' = "seed")
          \/ PutFails(form, v) /\ qr' = qr
    BY DEF AddTotp
  <1>4. v \in Vals
    BY ValuesAssumption
  <1>5. CASE PutOk(form, v) /\ RefreshAndSelect(form) /\ (qr' = qr \/ qr' = "seed")
    BY <1>1, <1>2, <1>4, <1>5, StoredInv
  <1>6. CASE PutFails(form, v) /\ qr' = qr
    BY <1>1, <1>4, <1>6, UnstoredInv
  <1> QED BY <1>3, <1>5, <1>6

LEMMA SaveValueInv ==
  ASSUME IInv, SaveValue
  PROVE  IInv'
  <1>1. /\ Unlocked /\ mode = "EditValue" /\ idle' = 0 /\ heap' = {} /\ reveal' = reveal
        /\ pairing' = pairing /\ qr' = qr
    BY DEF SaveValue, Press, Unlocked, Prompts, overlay
  <1>2. editor \in Vals /\ Empty \in Vals /\ qr \in {"none", "code", "seed"}
    BY ValuesAssumption DEF IInv, TypeOK
  <1>3. CASE PutOk(form, editor) /\ RefreshAndSelect(form)
             /\ editor' = Empty /\ index' = "vault" /\ ToBrowse
    BY <1>1, <1>2, <1>3, StoredInv
  <1>4. CASE PutFails(form, editor) /\ UNCHANGED <<editor, index, modeVars>>
    <2>1. /\ mem \in Entries /\ disk \in Entries /\ failed \subseteq Names
          /\ \A x \in Names \ failed : mem[x] = disk[x]
      BY <1>1 DEF IInv, OpenInv, TypeOK
    <2>2. /\ mem' \in Entries /\ disk' = disk /\ names' = names /\ selected' = selected
          /\ failed \subseteq failed' /\ failed' \subseteq Names
          /\ \A x \in Names \ failed' : mem'[x] = disk'[x]
      BY <1>2, <1>4, <2>1, FailedPutIsSound
    <2>3. SelectionIsShown' /\ ListIsStored'
      BY <1>1, <2>2, UnsavedKeepsList
    <2>4. /\ mode' = mode /\ form' = form /\ isNew' = isNew /\ typed' = typed /\ again' = again
          /\ editor' = editor /\ index' = index
      BY <1>4 DEF modeVars
    <2>5. Unlocked'
      BY <1>1, <2>4 DEF Unlocked
    <2>6. FormInv' /\ LockedHoldsNothing'
      BY <2>2, <2>4, <2>5 DEF IInv, FormInv, Adding, Changing, IsSelected, LockedHoldsNothing
    <2>7. TypeOK'
      BY <1>1, <2>1, <2>2, <2>4, TicksAssumption DEF IInv, TypeOK
    <2> QED BY <2>1, <2>2, <2>3, <2>6, <2>7 DEF IInv, OpenInv
  <1> QED BY <1>3, <1>4 DEF SaveValue

LEMMA ConfirmImportInv ==
  ASSUME IInv, ConfirmImport
  PROVE  IInv'
  <1>1. /\ Unlocked /\ ToBrowse /\ idle' = 0 /\ heap' = {} /\ reveal' = reveal
        /\ pairing' = pairing /\ qr' = qr /\ editor' = editor
    BY DEF ConfirmImport, Press, Unlocked, Prompts, overlay
  <1>2. editor \in Vals /\ qr \in {"none", "code", "seed"}
    BY DEF IInv, TypeOK
  <1>3. PICK v \in Vals :
          \/ PutOk(form, v) /\ RefreshAndSelect(form) /\ index' = "vault"
          \/ PutFails(form, v) /\ UNCHANGED index
    BY DEF ConfirmImport
  <1>4. CASE PutOk(form, v) /\ RefreshAndSelect(form) /\ index' = "vault"
    BY <1>1, <1>2, <1>4, StoredInv
  <1>5. CASE PutFails(form, v) /\ UNCHANGED index
    BY <1>1, <1>5, UnstoredInv
  <1> QED BY <1>3, <1>4, <1>5

LEMMA ConfirmDeleteInv ==
  ASSUME IInv, ConfirmDelete
  PROVE  IInv'
  <1>1. /\ Unlocked /\ ToBrowse /\ idle' = 0 /\ heap' = {} /\ reveal' = reveal
        /\ pairing' = pairing /\ qr' = qr /\ editor' = editor /\ index' = index
        /\ mem' = [mem EXCEPT ![form] = NoVal]
    BY DEF ConfirmDelete, Press, Unlocked, Prompts, overlay
  <1>2. /\ mem \in Entries /\ disk \in Entries /\ failed \subseteq Names
        /\ \A x \in Names \ failed : mem[x] = disk[x]
        /\ selected \in Nat /\ names \subseteq Names /\ selected' = selected'
        /\ editor \in Vals /\ qr \in {"none", "code", "seed"} /\ index \in {"vault", "network"}
    BY <1>1 DEF IInv, OpenInv, TypeOK
  <1>3. form \in Names
    BY <1>2 DEF ConfirmDelete, Press, IInv, FormInv, Changing, IsSelected
  <1>4. mem' \in Entries
    BY <1>1, <1>2 DEF Entries
  <1>5. CASE /\ IF mem[form] = NoVal THEN UNCHANGED <<disk, failed>> ELSE Saved
             /\ Refresh(IF selected = 0 THEN 0 ELSE selected - 1)
    <2>1. (IF selected = 0 THEN 0 ELSE selected - 1) \in Nat
      BY <1>2
    <2>2. names' = Present(mem') /\ names' \subseteq Names /\ selected' \in Nat /\ SelectionIsShown'
      BY <1>5, <2>1, RefreshIsSound
    <2>3. /\ disk' \in Entries /\ failed' \subseteq Names
          /\ \A x \in Names \ failed' : mem'[x] = disk'[x]
      <3>1. CASE mem[form] = NoVal
        BY <1>1, <1>2, <1>5, <3>1 DEF Entries
      <3>2. CASE mem[form] # NoVal
        BY <1>4, <1>5, <3>2 DEF Saved
      <3> QED BY <3>1, <3>2
    <2>4. ListIsStored'
      BY <2>2, <2>3, ListedIsStored DEF ListIsStored
    <2> QED BY <1>1, <1>2, <1>4, <2>2, <2>3, <2>4, BrowseInv
  <1>6. CASE mem[form] # NoVal /\ failed' = failed \cup {form} /\ UNCHANGED <<disk, list>>
    <2>1. disk' = disk /\ names' = names /\ selected' = selected
      BY <1>6 DEF list
    <2>2. failed' \subseteq Names /\ failed \subseteq failed'
          /\ \A x \in Names \ failed' : mem'[x] = disk'[x]
      BY <1>1, <1>2, <1>3, <1>6, <2>1 DEF Entries
    <2>3. SelectionIsShown' /\ ListIsStored'
      BY <1>1, <2>1, <2>2, UnsavedKeepsList
    <2> QED BY <1>1, <1>2, <1>4, <2>1, <2>2, <2>3, BrowseInv
  <1> QED BY <1>5, <1>6 DEF ConfirmDelete

(* A vault that is opened or created shows its list; a prompt that stays   *)
(* shut holds nothing.                                                     *)
LEMMA StillLockedInv ==
  ASSUME IInv, ~Unlocked, disk' \in Entries \cup {NoFile, Reserved},
         UNCHANGED <<mem, list, index, editor, failed, overlay, reveal>>, idle' = 0, heap' = {},
         NEW m \in {"Unlock", "CreateVault"}, Go(m, NoName, FALSE)
  PROVE  IInv'
  <1>1. mode' = m /\ ~Unlocked' /\ m \in Modes
    BY DEF Go, Unlocked, Prompts, Modes
  <1>2. TypeOK'
    <2>1. /\ mode' \in Modes /\ form' \in Names \cup {NoName, BadName} /\ isNew' \in BOOLEAN
          /\ typed' \in Lines /\ again' \in Lines
      BY <1>1, GoType DEF IInv
    <2> QED BY <2>1, TicksAssumption DEF IInv, TypeOK, list, overlay
  <1>3. SelectionIsShown' /\ LockedHoldsNothing'
    BY DEF IInv, SelectionIsShown, LockedHoldsNothing, list, overlay
  <1> QED BY <1>1, <1>2, <1>3 DEF IInv, OpenInv, FormInv, ListIsStored, Adding, Changing

LEMMA OpenedInv ==
  ASSUME IInv, mem' \in Entries, disk' = mem', failed' = failed, Refresh(selected), ToBrowse,
         UNCHANGED <<index, editor, overlay, reveal>>, idle' = 0, heap' = {}
  PROVE  IInv'
  <1>1. /\ selected \in Nat /\ failed \subseteq Names /\ index \in {"vault", "network"}
        /\ editor \in Vals /\ qr \in {"none", "code", "seed"}
    BY DEF IInv, TypeOK
  <1>2. names' = Present(mem') /\ names' \subseteq Names /\ selected' \in Nat /\ SelectionIsShown'
    BY <1>1, RefreshIsSound
  <1>3. ListIsStored'
    BY <1>2 DEF ListIsStored
  <1> QED BY <1>1, <1>2, <1>3, BrowseInv DEF overlay

LEMMA UnlockEnterInv ==
  ASSUME IInv, UnlockEnter
  PROVE  IInv'
  <1>1. mode = "Unlock" /\ ~Unlocked /\ idle' = 0 /\ heap' = {} /\ disk' = disk
        /\ UNCHANGED <<index, editor, failed, overlay, reveal>>
    BY DEF UnlockEnter, Press, Unlocked, Prompts
  <1>2. CASE typed = "right" /\ disk \in Entries /\ mem' = disk /\ ToBrowse /\ Refresh(selected)
    BY <1>1, <1>2, OpenedInv
  <1>3. CASE Go("Unlock", NoName, FALSE) /\ UNCHANGED <<mem, list>>
    BY <1>1, <1>3, StillLockedInv DEF IInv, TypeOK
  <1> QED BY <1>2, <1>3 DEF UnlockEnter

LEMMA ConfirmEnterInv ==
  ASSUME IInv, ConfirmEnter
  PROVE  IInv'
  <1>1. mode = "ConfirmVault" /\ ~Unlocked /\ idle' = 0 /\ heap' = {}
        /\ UNCHANGED <<index, editor, failed, overlay, reveal>>
    BY DEF ConfirmEnter, Press, Unlocked, Prompts
  <1>2. [n \in Names |-> NoVal] \in Entries /\ disk \in Entries \cup {NoFile, Reserved}
    BY DEF Entries, IInv, TypeOK
  <1>3. CASE disk' = [n \in Names |-> NoVal] /\ mem' = disk' /\ ToBrowse /\ Refresh(selected)
    BY <1>1, <1>2, <1>3, OpenedInv
  <1>4. CASE disk' = [n \in Names |-> NoVal] /\ Go("Unlock", NoName, FALSE) /\ UNCHANGED <<mem, list>>
    BY <1>1, <1>2, <1>4, StillLockedInv
  <1>5. CASE disk' = Reserved /\ Go("CreateVault", NoName, FALSE) /\ UNCHANGED <<mem, list>>
    BY <1>1, <1>5, StillLockedInv
  <1>6. CASE Go("CreateVault", NoName, FALSE) /\ UNCHANGED <<mem, disk, list>>
    BY <1>1, <1>2, <1>6, StillLockedInv
  <1> QED BY <1>3, <1>4, <1>5, <1>6 DEF ConfirmEnter

LEMMA StepInv ==
  ASSUME IInv, [Next]_vars
  PROVE  IInv'
  <1>1. CASE Quit
    BY <1>1, ForgetInv, TicksAssumption DEF Quit
  <1>2. CASE CtrlL
    BY <1>2, LockInv, TicksAssumption DEF CtrlL
  <1>3. CASE DismissOverlay \/ OtherKey \/ TypeLine \/ SwitchTab \/ RevealKey \/ ShowCode \/ TypeValue
    BY <1>3, StillSteps
  <1>4. CASE UnlockEnter \/ CreateEnter \/ ConfirmEnter
    BY <1>4, UnlockEnterInv, CreateEnterInv, ConfirmEnterInv
  <1>5. CASE MoveSelection
    BY <1>5, MoveSelectionInv
  <1>6. CASE BeginImport
    BY <1>6, BeginImportInv
  <1>7. CASE StartForm \/ BeginEdit \/ TypeName \/ NameEnter \/ Cancel \/ Generator
    BY <1>7, FormSteps
  <1>8. CASE AddTotp \/ SaveValue \/ ConfirmDelete \/ ConfirmImport
    BY <1>8, AddTotpInv, SaveValueInv, ConfirmDeleteInv, ConfirmImportInv
  <1>9. CASE Tick
    BY <1>9, TickInv
  <1>10. CASE UNCHANGED vars
    BY <1>10, StillInv
    DEF vars, modeVars, store, list, overlay, IInv, TypeOK, LockedHoldsNothing, Unlocked
  <1> QED BY <1>1, <1>2, <1>3, <1>4, <1>5, <1>6, <1>7, <1>8, <1>9, <1>10 DEF Next, Key

LEMMA Invariance == Spec => []IInv
  <1>1. IInv /\ [Next]_vars => IInv'
    BY StepInv
  <1> QED BY InitInv, <1>1, PTL DEF Spec

-----------------------------------------------------------------------------
(* Every variable keeps its type, in every mode and through every failure. *)
THEOREM TypeCorrect == Spec => []TypeOK
  <1>1. IInv => TypeOK
    BY DEF IInv
  <1> QED BY Invariance, <1>1, PTL

(* The highlighted entry is one of the list, also after deletes that failed*)
(* and lists that shrank behind the selection.                             *)
THEOREM SelectionStaysOnTheList == Spec => []SelectionIsShown
  <1>1. IInv => SelectionIsShown
    BY DEF IInv
  <1> QED BY Invariance, <1>1, PTL

(* The list shows what the vault file has, but for names whose last change *)
(* failed.                                                                 *)
THEOREM ListTellsTheFile == Spec => []ListIsStored
  <1>1. IInv => ListIsStored
    BY DEF IInv
  <1> QED BY Invariance, <1>1, PTL

(* Adding, scanning or receiving a secret replaces none of the vault file. *)
THEOREM AddingReplacesNothing == Spec => []AddsReplaceNothing
  <1>1. IInv => AddsReplaceNothing
    <2> SUFFICES ASSUME IInv, Adding PROVE form \notin Present(disk) \ failed
      BY DEF AddsReplaceNothing, Adding
    <2>1. Unlocked /\ form \notin names
      BY DEF IInv, FormInv, Adding, Unlocked, Prompts
    <2> QED BY <2>1 DEF IInv, ListIsStored
  <1> QED BY Invariance, <1>1, PTL

(* An App that is locked, not yet unlocked or ended holds nothing of a     *)
(* vault.                                                                  *)
THEOREM LockedIsEmpty == Spec => []LockedHoldsNothing
  <1>1. IInv => LockedHoldsNothing
    BY DEF IInv
  <1> QED BY Invariance, <1>1, PTL

(* Plaintext a mode carried is freed unwiped by a lock and by nothing else.*)
THEOREM PlaintextIsWiped == Spec => OnlyLockLeavesPlaintext
  <1>1. [Next]_vars => [heap' # {} => LockApp]_vars
    <2> SUFFICES ASSUME Next, heap' # {} PROVE LockApp
      BY DEF vars
    <2>1. CASE Tick
      BY <2>1 DEF Tick, Wait
    <2>2. CASE Quit \/ CtrlL \/ DismissOverlay \/ OtherKey
      BY <2>2 DEF Quit, CtrlL, DismissOverlay, OtherKey
    <2>3. CASE TypeLine \/ UnlockEnter \/ CreateEnter \/ ConfirmEnter
      BY <2>3 DEF TypeLine, UnlockEnter, CreateEnter, ConfirmEnter, Press
    <2>4. CASE SwitchTab \/ MoveSelection \/ RevealKey \/ StartForm \/ BeginEdit
               \/ BeginImport \/ ShowCode
      BY <2>4 DEF SwitchTab, MoveSelection, RevealKey, StartForm, BeginEdit, BeginImport,
                  ShowCode, Press
    <2>5. CASE TypeName \/ NameEnter \/ Cancel \/ AddTotp
      BY <2>5 DEF TypeName, NameEnter, Cancel, AddTotp, Press
    <2>6. CASE TypeValue \/ SaveValue \/ Generator \/ ConfirmDelete \/ ConfirmImport
      BY <2>6 DEF TypeValue, SaveValue, Generator, ConfirmDelete, ConfirmImport, Press
    <2> QED BY <2>1, <2>2, <2>3, <2>4, <2>5, <2>6 DEF Next, Key
  <1> QED BY <1>1, PTL DEF Spec, OnlyLockLeavesPlaintext

-----------------------------------------------------------------------------
(* The reveal timer.  As long as the list is the same, either the selection*)
(* is too or nothing is revealed.                                          *)

LEMMA PutNewChangesList ==
  ASSUME IInv, Unlocked, Adding, NEW v \in Vals, PutOk(form, v), RefreshAndSelect(form)
  PROVE  names' # names
  <1>1. form \notin names /\ mem \in Entries
    BY DEF IInv, FormInv, OpenInv
  <1> QED BY <1>1, StoreAndSelectIsSound

LEMMA SelectionHolds ==
  ASSUME IInv, Next, names' = names, reveal' > 0
  PROVE  selected' = selected
  <1>1. CASE Tick \/ Quit \/ CtrlL
    <2>1. CASE LockApp \/ Forget
      <3>1. Forget
        BY <2>1 DEF LockApp
      <3>2. reveal' = 0
        BY <3>1 DEF Forget
      <3> QED BY <3>2
    <2>2. CASE Wait
      BY <2>2 DEF Wait, list
    <2> QED BY <1>1, <2>1, <2>2 DEF Tick, Quit, CtrlL
  <1>2. CASE DismissOverlay \/ OtherKey \/ TypeLine \/ CreateEnter
    BY <1>2 DEF DismissOverlay, OtherKey, TypeLine, CreateEnter, list
  <1>3. CASE UnlockEnter \/ ConfirmEnter
    <2>1. reveal = 0 /\ reveal' = reveal
      BY <1>3 DEF UnlockEnter, ConfirmEnter, Press, IInv, LockedHoldsNothing, Unlocked, Prompts
    <2> QED BY <2>1
  <1>4. CASE SwitchTab \/ RevealKey \/ StartForm \/ BeginEdit \/ BeginImport \/ ShowCode
    <2>1. CASE SwitchTab \/ RevealKey \/ BeginImport \/ ShowCode
      BY <2>1 DEF SwitchTab, RevealKey, BeginImport, ShowCode, list
    <2>2. CASE StartForm
      BY <2>2 DEF StartForm, list
    <2>3. CASE BeginEdit
      BY <2>3 DEF BeginEdit, list
    <2> QED BY <1>4, <2>1, <2>2, <2>3
  <1>5. CASE MoveSelection
    BY <1>5 DEF MoveSelection
  <1>6. CASE TypeName \/ NameEnter \/ Cancel \/ TypeValue \/ Generator
    BY <1>6 DEF TypeName, NameEnter, Cancel, TypeValue, Generator, list
  <1>7. CASE AddTotp
    <2>1. Unlocked /\ Adding
      BY <1>7 DEF AddTotp, Press, Unlocked, Prompts, Adding
    <2>2. PICK v \in Uris : (PutOk(form, v) /\ RefreshAndSelect(form)) \/ PutFails(form, v)
      BY <1>7 DEF AddTotp
    <2>3. v \in Vals
      BY ValuesAssumption
    <2> QED BY <2>1, <2>2, <2>3, PutNewChangesList DEF PutFails, list
  <1>8. CASE SaveValue
    <2>1. Unlocked /\ mode = "EditValue" /\ editor \in Vals /\ mem \in Entries
      BY <1>8 DEF SaveValue, Press, Unlocked, Prompts, IInv, TypeOK, OpenInv
    <2>2. CASE PutOk(form, editor) /\ RefreshAndSelect(form) /\ isNew
      BY <2>1, <2>2, PutNewChangesList DEF Adding
    <2>3. CASE PutOk(form, editor) /\ RefreshAndSelect(form) /\ ~isNew
      <3>1. selected' = Rank(form, names')
        BY <2>1, <2>3, StoreAndSelectIsSound
      <3>2. selected = Rank(form, names)
        BY <2>1, <2>3 DEF IInv, FormInv, Changing, IsSelected
      <3> QED BY <3>1, <3>2
    <2>4. CASE PutFails(form, editor)
      BY <2>4 DEF PutFails, list
    <2> QED BY <1>8, <2>2, <2>3, <2>4 DEF SaveValue
  <1>9. CASE ConfirmDelete
    <2>1. form \in names /\ names \subseteq Names /\ mem \in Entries
      BY <1>9 DEF ConfirmDelete, Press, Unlocked, Prompts, IInv, TypeOK, OpenInv, FormInv,
                  Changing, IsSelected
    <2>2. mem'[form] = NoVal
      BY <1>9, <2>1 DEF ConfirmDelete, Entries
    <2>3. form \notin Present(mem')
      BY <2>2 DEF Present
    <2> QED BY <1>9, <2>1, <2>3 DEF ConfirmDelete, Refresh, list
  <1>10. CASE ConfirmImport
    <2>1. Unlocked /\ Adding
      BY <1>10 DEF ConfirmImport, Press, Unlocked, Prompts, Adding
    <2>2. PICK v \in Vals : (PutOk(form, v) /\ RefreshAndSelect(form)) \/ PutFails(form, v)
      BY <1>10 DEF ConfirmImport
    <2> QED BY <2>1, <2>2, PutNewChangesList DEF PutFails, list
  <1> QED BY <1>1, <1>2, <1>3, <1>4, <1>5, <1>6, <1>7, <1>8, <1>9, <1>10 DEF Next, Key

(* What is shown in clear is the secret it was asked for, as long as no    *)
(* secret is added or deleted.                                             *)
THEOREM RevealStaysPut == Spec => RevealsOnlySelected
  <1>1. IInv /\ [Next]_vars
          => [Revealed' \subseteq {n \in names : IsSelected(n)} \/ names' # names]_vars
    <2> SUFFICES ASSUME IInv, Next, names' = names, NEW n \in Revealed'
                 PROVE  n \in names /\ IsSelected(n)
      BY DEF vars
    <2>1. n \in names' /\ Rank(n, names') = selected' /\ reveal' > 0
      BY DEF Revealed, IsSelected
    <2>2. selected' = selected
      BY <2>1, SelectionHolds
    <2> QED BY <2>1, <2>2 DEF IsSelected
  <1> QED BY Invariance, <1>1, PTL DEF Spec, RevealsOnlySelected

-----------------------------------------------------------------------------
(* Liveness.  tlapm cannot look into ENABLED, so that an unlocked App can  *)
(* let time pass, TickIsEnabled, is a hypothesis (and an invariant TLC     *)
(* checks).  The time left is a number that every poll without a key       *)
(* makes less: an induction over a temporal formula.                       *)

LEMMA Induction ==
  \A f : f[0] /\ (\A n \in Nat : f[n] => f[n + 1]) => \A n \in Nat : f[n]
  <1> SUFFICES ASSUME NEW f, f[0], \A n \in Nat : f[n] => f[n + 1],
                      NEW k \in Nat, ~f[k]
               PROVE  FALSE
    OBVIOUS
  <1> DEFINE R == {ss \in Nat \X Nat : ss[1] < ss[2]}
             T == {n \in Nat : ~f[n]}
  <1>1. IsWellFoundedOn(R, Nat)
    BY NatLessThanWellFounded DEF OpToRel
  <1>2. T \subseteq Nat /\ T # {}
    OBVIOUS
  <1> HIDE DEF R, T
  <1>3. PICK x \in T : \A y \in T : ~ (<<y, x>> \in R)
    BY <1>1, <1>2, WFMin
  <1> USE DEF R, T
  <1>4. x \in Nat \ {0} /\ ~f[x]
    BY <1>3
  <1>5. x - 1 \in Nat /\ (x - 1) + 1 = x
    BY <1>4
  <1>6. x - 1 \in T /\ <<x - 1, x>> \in R
    BY <1>4, <1>5
  <1> QED BY <1>3, <1>6

TimeLeft(n) == Unlocked /\ IdleTicks <= idle + n

(* A poll brings the deadline closer, or locks.                            *)
LEMMA PollStep ==
  ASSUME TypeOK, IdleTicks > 0, NEW n \in Nat, TimeLeft(n), Tick
  PROVE  ~Unlocked' \/ (n # 0 /\ TimeLeft(n - 1)' /\ TimeLeft(n)')
  <1>1. idle \in Nat /\ idle <= IdleTicks /\ (idle' = idle + 1 \/ idle' = IdleTicks)
    BY TicksAssumption DEF Tick, TypeOK
  <1>2. CASE idle' = IdleTicks
    <2>1. LockApp
      BY <1>2 DEF Tick, TimeLeft
    <2> QED BY <2>1 DEF LockApp, Go, Unlocked, Prompts
  <1>3. CASE idle' # IdleTicks
    <2>1. Unlocked' /\ idle' = idle + 1
      BY <1>1, <1>3 DEF Tick, Wait, Unlocked, modeVars, TimeLeft
    <2>2. n # 0 /\ IdleTicks <= idle' + (n - 1) /\ IdleTicks <= idle' + n
      BY <1>1, <1>3, <2>1, TicksAssumption DEF TimeLeft, Tick
    <2> QED BY <2>1, <2>2 DEF TimeLeft
  <1> QED BY <1>2, <1>3

TimeRuns == Spec /\ WF_vars(Tick) /\ []TickIsEnabled /\ [](IdleTicks > 0)
LocksFrom(n) == TimeRuns => [](TimeLeft(n) => <>(~Unlocked) \/ <><<Key>>_vars)

LEMMA LocksFromNone == LocksFrom(0)
  <1>1. TypeOK /\ IdleTicks > 0 /\ TimeLeft(0) /\ [Next]_vars
          => TimeLeft(0)' \/ ~Unlocked' \/ <<Key>>_vars
    BY PollStep DEF Next, TimeLeft, Unlocked, vars
  <1>2. TypeOK /\ IdleTicks > 0 /\ TimeLeft(0) /\ <<Tick>>_vars => ~Unlocked'
    BY PollStep
  <1>3. IdleTicks > 0 /\ TimeLeft(0) /\ TickIsEnabled => ENABLED <<Tick>>_vars
    BY DEF TimeLeft, TickIsEnabled
  <1> QED BY <1>1, <1>2, <1>3, TypeCorrect, PTL DEF LocksFrom, TimeRuns, Spec

LEMMA LocksFromMore ==
  ASSUME NEW n \in Nat
  PROVE  LocksFrom(n) => LocksFrom(n + 1)
  <1> DEFINE k == n + 1
  <1>0. k \in Nat /\ k - 1 = n
    OBVIOUS
  <1> HIDE DEF k
  <1>1. TypeOK /\ IdleTicks > 0 /\ TimeLeft(k) /\ [Next]_vars
          => TimeLeft(k)' \/ ~Unlocked' \/ <<Key>>_vars
    BY <1>0, PollStep DEF Next, TimeLeft, Unlocked, vars
  <1>2. TypeOK /\ IdleTicks > 0 /\ TimeLeft(k) /\ <<Tick>>_vars => ~Unlocked' \/ TimeLeft(n)'
    BY <1>0, PollStep
  <1>3. IdleTicks > 0 /\ TimeLeft(k) /\ TickIsEnabled => ENABLED <<Tick>>_vars
    BY DEF TimeLeft, TickIsEnabled
  <1>4. LocksFrom(n) => LocksFrom(k)
    BY <1>1, <1>2, <1>3, TypeCorrect, PTL DEF LocksFrom, TimeRuns, Spec
  <1> QED BY <1>4 DEF k

LEMMA LocksFromAny == \A n \in Nat : LocksFrom(n)
  <1>1. \E f : \A n \in Nat : f[n] <=> LocksFrom(n)
    <2> SUFFICES ASSUME NEW P(_)
                 PROVE  \E f : /\ P(f) <=> P([n \in Nat |-> LocksFrom(n)])
                               /\ \A n \in Nat : f[n] <=> LocksFrom(n)
      OBVIOUS
    <2> QED BY SMT
  <1>2. PICK f : \A n \in Nat : f[n] <=> LocksFrom(n)
    BY <1>1
  <1>3. f[0] /\ \A n \in Nat : f[n] => f[n + 1]
    BY <1>2, LocksFromNone, LocksFromMore
  <1>4. \A n \in Nat : f[n]
    BY <1>3, Induction
  <1> QED BY <1>2, <1>4

(* An unlocked vault that is left alone is locked, in every mode, however  *)
(* long the idle timeout is.                                               *)
THEOREM AppsLeftAloneLock == FairSpec /\ []TickIsEnabled => IdleVaultLocks
  <1>1. ASSUME NEW n \in Nat
        PROVE  TimeRuns => [](TimeLeft(n) => <>(~Unlocked) \/ <><<Key>>_vars)
    BY LocksFromAny DEF LocksFrom
  <1>2. TimeRuns => [](\A n \in Nat : TimeLeft(n) => <>(~Unlocked) \/ <><<Key>>_vars)
    BY <1>1
  <1>3. TypeOK => (Unlocked => TimeLeft(IdleTicks)) /\ IdleTicks \in Nat
    BY TicksAssumption DEF TypeOK, TimeLeft
  <1>4. (\A n \in Nat : TimeLeft(n) => <>(~Unlocked) \/ <><<Key>>_vars)
          => (TypeOK => <>(~Unlocked) \/ <><<Key>>_vars \/ ~Unlocked)
    BY <1>3
  <1>5. ASSUME IdleTicks > 0
        PROVE  FairSpec /\ []TickIsEnabled => []<>(~Unlocked) \/ []<><<Key>>_vars
    <2>1. [](IdleTicks > 0)
      BY <1>5, PTL
    <2> QED BY <1>2, <1>4, <2>1, TypeCorrect, PTL DEF FairSpec, Spec, TimeRuns
  <1> QED BY <1>5 DEF IdleVaultLocks
=============================================================================
