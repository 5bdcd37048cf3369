---------------------------- MODULE PartsProofs ----------------------------
(***************************************************************************)
(* Theorems about the parts that stand alone: the clipboard, the limits of *)
(* length, the header of the vault, the choice of characters and the       *)
(* shares of a secret, each for every value of its constants.              *)
(***************************************************************************)
EXTENDS Parts, SequenceTheorems, FiniteSetTheorems, FunctionTheorems, TLAPS

-----------------------------------------------------------------------------
(* The clipboard: any number of tools and copies, and any CLEAR_AFTER.     *)

Timers == [left : 0..ClearAfter, tool : Tools, copy : 1..MaxCopies]

LEMMA CopyType ==
  ASSUME InputsAreSound, TypeOK, Copy
  PROVE  TypeOK'
  <1>1. copies \in Nat /\ copies' = copies + 1 /\ copies' \in 1..MaxCopies
    BY DEF InputsAreSound, TypeOK, Copy
  <1>2. ASSUME NEW t \in Tools,
               timers' = timers \cup {[left |-> ClearAfter, tool |-> t, copy |-> copies']}
        PROVE  timers' \subseteq Timers
    <2>1. [left |-> ClearAfter, tool |-> t, copy |-> copies'] \in Timers
      BY <1>1 DEF InputsAreSound, Timers
    <2> QED BY <1>2, <2>1 DEF TypeOK, Timers
  <1>3. timers' \subseteq Timers
    BY <1>2 DEF Copy, TypeOK, Timers
  <1>4. board' \in {"secret", "other", "empty"} /\ age' \in 0..(ClearAfter + 1)
        /\ status' \in {"none", "copied", "error"}
    BY DEF Copy, TypeOK, InputsAreSound
  <1> QED BY <1>1, <1>3, <1>4 DEF Copy, TypeOK, Timers, InputsAreSound

LEMMA TickTimers ==
  ASSUME InputsAreSound, TypeOK, Tick
  PROVE  timers' \subseteq Timers
  <1> SUFFICES ASSUME NEW x \in timers PROVE [x EXCEPT !.left = @ - 1] \in Timers
    BY DEF Tick
  <1>1. x \in Timers /\ x.left > 0
    BY DEF TypeOK, Timers, Tick
  <1>2. x.left - 1 \in 0..ClearAfter
    BY <1>1 DEF Timers, InputsAreSound
  <1> QED BY <1>1, <1>2 DEF Timers

LEMMA StepType ==
  ASSUME InputsAreSound, TypeOK, [Next]_vars
  PROVE  TypeOK'
  <1>1. CASE Copy
    BY <1>1, CopyType
  <1>2. CASE Clear
    BY <1>2 DEF Clear, TypeOK, InputsAreSound
  <1>3. CASE OtherCopies
    BY <1>3 DEF OtherCopies, TypeOK, InputsAreSound
  <1>4. CASE Quit
    BY <1>4 DEF Quit, TypeOK
  <1>5. CASE Tick
    <2>1. age' \in 0..(ClearAfter + 1)
      BY <1>5 DEF Tick, TypeOK, InputsAreSound
    <2> QED BY <1>5, <2>1, TickTimers DEF Tick, TypeOK, Timers
  <1>6. CASE UNCHANGED vars
    BY <1>6 DEF vars, TypeOK
  <1> QED BY <1>1, <1>2, <1>3, <1>4, <1>5, <1>6 DEF Next

(* Every variable keeps its type: no thread ever sleeps on past the time   *)
(* it is due, whatever is copied and whichever tools there are.            *)
THEOREM TypeCorrect ==
  ASSUME InputsAreSound
  PROVE  Spec => []TypeOK
  <1>1. Init => TypeOK
    BY InputsAreSound DEF Init, TypeOK, InputsAreSound
  <1>2. TypeOK /\ [Next]_vars => TypeOK'
    BY StepType
  <1> QED BY <1>1, <1>2, PTL DEF Spec

-----------------------------------------------------------------------------
(* While a secret is on the clipboard, one of the threads has a tool that  *)
(* works, and wakes in time for that secret.                               *)
Covered(x) == tool[x.tool] = "works" /\ x.left + age <= ClearAfter
CoverInv == running /\ board = "secret" => \E x \in timers : Covered(x)

LEMMA CopyCovers ==
  ASSUME InputsAreSound, TypeOK, CoverInv, Copy
  PROVE  CoverInv'
  <1>1. running' = running /\ tool' = tool /\ timers \subseteq timers'
    BY DEF Copy
  <1>2. CASE board' = board /\ age' = age
    BY <1>1, <1>2 DEF CoverInv, Covered
  <1>3. ASSUME NEW t \in Tools, tool[t] = "works", age' = 0,
               timers' = timers \cup {[left |-> ClearAfter, tool |-> t, copy |-> copies']}
        PROVE  CoverInv'
    <2>1. PICK y \in timers' : y.tool = t /\ y.left = ClearAfter
      <3> DEFINE z == [left |-> ClearAfter, tool |-> t, copy |-> copies']
      <3>1. z \in timers' /\ z.tool = t /\ z.left = ClearAfter
        BY <1>3
      <3> QED BY <3>1
    <2>2. Covered(y)'
      BY <1>1, <1>3, <2>1 DEF Covered, InputsAreSound
    <2> QED BY <2>1, <2>2 DEF CoverInv
  <1> QED BY <1>2, <1>3 DEF Copy

LEMMA ClearCovers ==
  ASSUME TypeOK, CoverInv, Clear
  PROVE  CoverInv'
  <1>1. PICK x \in timers :
          /\ timers' = timers \ {x} /\ UNCHANGED <<tool, running>>
          /\ IF tool[x.tool] = "works" THEN board' = "empty" /\ age' = 0 ELSE UNCHANGED <<board, age>>
    BY DEF Clear
  <1>2. CASE tool[x.tool] = "works"
    BY <1>1, <1>2 DEF CoverInv
  <1>3. CASE tool[x.tool] # "works"
    <2> SUFFICES ASSUME running', board' = "secret" PROVE \E y \in timers' : Covered(y)'
      BY DEF CoverInv
    <2>1. PICK y \in timers : Covered(y)
      BY <1>1, <1>3 DEF CoverInv
    <2>2. y \in timers' /\ Covered(y)'
      BY <1>1, <1>3, <2>1 DEF Covered
    <2> QED BY <2>2
  <1> QED BY <1>2, <1>3

LEMMA TickCovers ==
  ASSUME InputsAreSound, TypeOK, CoverInv, Tick
  PROVE  CoverInv'
  <1> SUFFICES ASSUME running', board' = "secret" PROVE \E y \in timers' : Covered(y)'
    BY DEF CoverInv
  <1>1. PICK x \in timers : Covered(x)
    BY DEF Tick, CoverInv
  <1>2. x \in Timers /\ x.left > 0
    BY DEF TypeOK, Timers, Tick
  <1>3. PICK y \in timers' : y.tool = x.tool /\ y.left = x.left - 1
    <2> DEFINE z == [x EXCEPT !.left = @ - 1]
    <2>1. z \in timers' /\ z.tool = x.tool /\ z.left = x.left - 1
      BY <1>2 DEF Tick, Timers
    <2> QED BY <2>1
  <1>4. x.left \in Nat /\ age \in Nat /\ ClearAfter \in Nat /\ x.left + age <= ClearAfter
    BY <1>1, <1>2 DEF Covered, Timers, TypeOK, InputsAreSound
  <1>5. age' = age + 1 /\ tool' = tool
    BY <1>4 DEF Tick
  <1>6. Covered(y)'
    BY <1>1, <1>3, <1>4, <1>5 DEF Covered
  <1> QED BY <1>6

(* However many copies overlap, and however many tools are broken, what    *)
(* the UI put on the clipboard is gone after CLEAR_AFTER while it runs.    *)
THEOREM SecretsAreCleared ==
  ASSUME InputsAreSound
  PROVE  Spec => []ClearedWhileRunning
  <1>1. Init => CoverInv
    BY DEF Init, CoverInv
  <1>2. TypeOK /\ CoverInv /\ [Next]_vars => CoverInv'
    <2> SUFFICES ASSUME TypeOK, CoverInv, [Next]_vars PROVE CoverInv'
      OBVIOUS
    <2>1. CASE OtherCopies \/ Quit \/ UNCHANGED vars
      BY <2>1 DEF OtherCopies, Quit, vars, CoverInv, Covered
    <2> QED BY <2>1, InputsAreSound, CopyCovers, ClearCovers, TickCovers DEF Next
  <1>3. TypeOK /\ CoverInv => ClearedWhileRunning
    <2> SUFFICES ASSUME TypeOK, running, board = "secret", NEW x \in timers, Covered(x)
                 PROVE  age <= ClearAfter
      BY DEF CoverInv, ClearedWhileRunning
    <2>1. x.left \in 0..ClearAfter /\ age \in Nat
      BY DEF TypeOK
    <2> QED BY <2>1, InputsAreSound DEF Covered, InputsAreSound
  <1> QED BY <1>1, <1>2, <1>3, TypeCorrect, PTL DEF Spec

-----------------------------------------------------------------------------
(* The limits of length.                                                   *)

(* The limits a secret has been held to, by where it is.                   *)
LimitsInv ==
  /\ where \in {"outside", "vault", "bundle", "lost"}
  /\ length \in Nat /\ nameSize \in Nat /\ typed \in BOOLEAN
  /\ where # "outside" => L!NameIsValid
  /\ where \in {"vault", "bundle"} => L!SecretLen(length) <= L!MAX_FRAME
  /\ typed => length <= L!CAPACITY /\ where \in {"vault", "bundle"}

(* What the editor can hold is short enough for a put and for a bundle.    *)
LEMMA TypedFits ==
  ASSUME L!InputsAreSound, length \in Nat, length <= L!CAPACITY, L!NameIsValid, nameSize \in Nat
  PROVE  L!ArrivesByLan /\ L!Opens /\ L!PutLen(length) <= L!MAX_FRAME
  BY DEF L!InputsAreSound, L!CAPACITY, L!NameIsValid, L!ArrivesByLan, L!Opens, L!BundleLen,
         L!Base64, L!MAX_LAN_READ, L!MAX_BUNDLE_LEN, L!MAX_NAME_LEN, L!PutLen, L!MAX_FRAME

(* What a bundle can hold is short enough for a reply of the agent.        *)
LEMMA OpenedFits ==
  ASSUME L!InputsAreSound, length \in Nat, L!Opens, nameSize \in Nat
  PROVE  L!SecretLen(length) <= L!MAX_FRAME
  BY DEF L!InputsAreSound, L!NameIsValid, L!Opens, L!BundleLen, L!Base64,
         L!MAX_BUNDLE_LEN, L!MAX_NAME_LEN, L!SecretLen, L!MAX_FRAME

(* For any length of a name and any overhead of the sealing up to a        *)
(* kilobyte: what was typed and saved gets through every limit behind it   *)
(* (the frame of a put, the read of a receiver, the bundle, the reply).    *)
THEOREM LimitsTogether ==
  ASSUME L!InputsAreSound
  PROVE  L!Spec => []LimitsAgree
  <1>1. L!Init => LimitsInv
    BY DEF L!Init, LimitsInv, L!InputsAreSound
  <1>2. ASSUME LimitsInv, [L!Next]_L!vars
        PROVE  LimitsInv'
    <2>1. CASE L!Put
      BY <1>2, <2>1 DEF LimitsInv, L!Put, L!PutLen, L!SecretLen, L!MAX_FRAME, L!NameIsValid
    <2>2. CASE L!TypeAndSave
      BY <1>2, <2>2 DEF LimitsInv, L!TypeAndSave, L!SecretLen, L!MAX_FRAME, L!NameIsValid, L!CAPACITY
    <2>3. CASE L!PairSend
      BY <1>2, <2>3 DEF LimitsInv, L!PairSend, L!NameIsValid, L!SecretLen
    <2>4. CASE L!Receive
      <3>1. where = "bundle" /\ where' \in {"vault", "lost"} /\ UNCHANGED <<length, nameSize, typed>>
        BY <2>4 DEF L!Receive
      <3>2. where' = "vault" => L!Opens
        BY <2>4 DEF L!Receive
      <3>3. where' = "vault" => L!SecretLen(length) <= L!MAX_FRAME
        BY <1>2, <3>2, OpenedFits DEF LimitsInv
      <3>4. typed => where' = "vault"
        BY <1>2, <2>4, <3>1, TypedFits DEF LimitsInv, L!Receive
      <3> QED BY <1>2, <3>1, <3>3, <3>4 DEF LimitsInv, L!NameIsValid, L!SecretLen
    <2>5. CASE UNCHANGED L!vars
      BY <1>2, <2>5 DEF LimitsInv, L!vars, L!NameIsValid, L!SecretLen
    <2> QED BY <1>2, <2>1, <2>2, <2>3, <2>4, <2>5 DEF L!Next
  <1>3. LimitsInv => LimitsAgree
    BY DEF LimitsInv, LimitsAgree, L!LimitsAgree
  <1> QED BY <1>1, <1>2, <1>3, PTL DEF L!Spec

-----------------------------------------------------------------------------
(* The header of the vault.                                                *)

(* The vault is the one create wrote, or one that open refuses.            *)
HeaderInv ==
  /\ made = None \/ made \in H!Params
  /\ made = None => file = None /\ read = None
  /\ made # None /\ H!ValidKdfParams(made) => file \in Seq(Nat) /\ Len(file) # 0
  /\ made # None /\ ~H!ValidKdfParams(made) => file = None
  /\ made # None /\ file # None => file = H!to_bytes(made) \/ H!parse(file) = Err
  /\ read # None => read = IF file = H!to_bytes(made) THEN made ELSE Err

LEMMA SplitByte ==
  ASSUME NEW v \in Nat
  PROVE  v \div 256 \in Nat /\ v % 256 \in 0..255 /\ v = 256 * (v \div 256) + (v % 256)
  BY SMT

LEMMA DivTwice ==
  ASSUME NEW v \in Nat
  PROVE  /\ v \div 65536 = (v \div 256) \div 256
         /\ v \div 16777216 = ((v \div 256) \div 256) \div 256
  BY SMT

LEMMA BytesOfNumber ==
  ASSUME NEW v \in Nat, v <= H!MAX_VDF_ITERATIONS
  PROVE  (v % 256) + 256 * (((v \div 256) % 256) + 256 * (((v \div 65536) % 256) + 256 * ((v \div 16777216) % 256))) = v
  <1>1. PICK a \in Nat, b \in Nat, c \in Nat :
          a = v \div 256 /\ b = a \div 256 /\ c = b \div 256
    BY SplitByte
  <1>2. v = 256 * a + (v % 256) /\ a = 256 * b + (a % 256) /\ b = 256 * c + (b % 256)
    BY <1>1, SplitByte
  <1>3. c % 256 = c
    <2>1. c <= 255
      BY <1>2, SplitByte, SMT DEF H!MAX_VDF_ITERATIONS
    <2> QED BY <2>1, SMT
  <1>4. (v % 256) + 256 * ((a % 256) + 256 * ((b % 256) + 256 * (c % 256))) = v
    BY <1>2, <1>3, SplitByte
  <1> QED BY <1>1, <1>4, DivTwice

(* c is s of length m followed by t of length n.                           *)
Joined(s, m, t, n, c) ==
  /\ \A i \in 1..m : c[i] = s[i]
  /\ \A i \in 1..n : c[m + i] = t[i]

LEMMA JoinedByPlace ==
  ASSUME NEW m \in Nat, NEW n \in Nat, NEW s, NEW t, NEW c,
         \A i \in 1..(m + n) : c[i] = IF i <= m THEN s[i] ELSE t[i - m]
  PROVE  Joined(s, m, t, n, c)
  BY DEF Joined

LEMMA ConcatJoins ==
  ASSUME NEW m \in Nat, NEW n \in Nat,
         NEW s \in Seq(Nat), NEW t \in Seq(Nat), Len(s) = m, Len(t) = n
  PROVE  s \o t \in Seq(Nat) /\ Len(s \o t) = m + n /\ Joined(s, m, t, n, s \o t)
  <1>1. s \o t \in Seq(Nat) /\ Len(s \o t) = m + n
    BY ConcatProperties
  <1>2. \A i \in 1..(m + n) : (s \o t)[i] = IF i <= m THEN s[i] ELSE t[i - m]
    BY ConcatProperties
  <1>3. Joined(s, m, t, n, s \o t)
    BY <1>2, JoinedByPlace
  <1> QED BY <1>1, <1>3

LEMMA FunctionIsSeq ==
  ASSUME NEW S, NEW n \in Nat, NEW s \in [1..n -> S]
  PROVE  s \in Seq(S) /\ Len(s) = n
  <1>1. s \in Seq(S)
    BY SeqDef
  <1>2. DOMAIN s = 1..n /\ DOMAIN s = 1..Len(s) /\ Len(s) \in Nat
    BY <1>1, LenProperties
  <1> QED BY <1>1, <1>2

LEMMA NumberBytes ==
  ASSUME NEW v \in Nat
  PROVE  /\ H!u32_to_le_bytes(v) \in Seq(Nat) /\ Len(H!u32_to_le_bytes(v)) = 4
         /\ H!u64_to_le_bytes(v) \in Seq(Nat) /\ Len(H!u64_to_le_bytes(v)) = 8
         /\ Joined(H!u32_to_le_bytes(v), 4, <<0, 0, 0, 0>>, 4, H!u64_to_le_bytes(v))
  <1>1. PICK z, w : z = <<0, 0, 0, 0>> /\ w = H!u32_to_le_bytes(v)
    OBVIOUS
  <1>2. w \in Seq(Nat) /\ Len(w) = 4
    <2>1. v % 256 \in Nat /\ (v \div 256) % 256 \in Nat /\ (v \div 65536) % 256 \in Nat
          /\ (v \div 16777216) % 256 \in Nat
      BY SMT
    <2> QED BY <1>1, <2>1 DEF H!u32_to_le_bytes
  <1>3. z \in Seq(Nat) /\ Len(z) = 4
    BY <1>1
  <1>4. H!u64_to_le_bytes(v) = w \o z
    BY <1>1 DEF H!u64_to_le_bytes
  <1>5. 4 \in Nat
    OBVIOUS
  <1>6. /\ w \o z \in Seq(Nat) /\ Len(w \o z) = 4 + 4
        /\ Joined(w, 4, z, 4, w \o z)
    BY <1>2, <1>3, <1>5, ConcatJoins, Zenon
  <1>7. 4 + 4 = 8
    OBVIOUS
  <1> QED BY <1>1, <1>2, <1>4, <1>6, <1>7, Zenon

LEMMA SaltIsSeq ==
  ASSUME H!InputsAreSound, NEW p \in H!Params
  PROVE  p.salt \in Seq(Nat) /\ Len(p.salt) = 32
  <1>1. PICK s : s = p.salt
    OBVIOUS
  <1>2. s \in Salts
    BY <1>1 DEF H!Params
  <1>3. Salts \subseteq [1..32 -> 0..255]
    BY DEF H!InputsAreSound, H!Byte, H!SALT_LEN
  <1>4. s \in [1..32 -> 0..255]
    BY <1>2, <1>3
  <1>5. s \in Seq(0..255) /\ Len(s) = 32
    <2>1. PICK B, n : B = 0..255 /\ n = 32
      OBVIOUS
    <2>2. n \in Nat /\ s \in [1..n -> B]
      BY <1>4, <2>1
    <2>3. s \in Seq(B) /\ Len(s) = n
      BY <2>2, FunctionIsSeq
    <2> QED BY <2>1, <2>3
  <1>6. s \in Seq(Nat)
    <2>1. 0..255 \subseteq Nat
      OBVIOUS
    <2> QED BY <1>5, <2>1, SeqMonotonic, Zenon
  <1> QED BY <1>1, <1>5, <1>6

(* Where the parts of the header are in it.                                *)
Layout(y, p) == /\ y \in Seq(Nat) /\ Len(y) = 57
                /\ \A i \in 1..5 : y[i] = <<83, 83, 86, 49, 1>>[i]
                /\ \A i \in 1..32 : y[5 + i] = p.salt[i]
                /\ \A i \in 1..4 : /\ y[37 + i] = H!u32_to_le_bytes(p.time)[i]
                                   /\ y[41 + i] = H!u32_to_le_bytes(p.memory)[i]
                                   /\ y[45 + i] = H!u32_to_le_bytes(p.threads)[i]
                /\ \A i \in 1..8 : y[49 + i] = H!u64_to_le_bytes(p.vdf)[i]

LEMMA HeaderLayout ==
  ASSUME H!InputsAreSound, NEW p \in H!Params
  PROVE  Layout(H!to_bytes(p), p)
  <1>1. p.time \in Nat /\ p.memory \in Nat /\ p.threads \in Nat /\ p.vdf \in Nat
    BY DEF H!InputsAreSound, H!Params
  <1>2. p.salt \in Seq(Nat) /\ Len(p.salt) = 32
    BY SaltIsSeq
  <1>3. PICK s, n1, n2, n3, n4 :
          /\ s = p.salt /\ n1 = H!u32_to_le_bytes(p.time) /\ n2 = H!u32_to_le_bytes(p.memory)
          /\ n3 = H!u32_to_le_bytes(p.threads) /\ n4 = H!u64_to_le_bytes(p.vdf)
    OBVIOUS
  <1>4. /\ n1 \in Seq(Nat) /\ Len(n1) = 4 /\ n2 \in Seq(Nat) /\ Len(n2) = 4
        /\ n3 \in Seq(Nat) /\ Len(n3) = 4 /\ n4 \in Seq(Nat) /\ Len(n4) = 8
        /\ s \in Seq(Nat) /\ Len(s) = 32
    BY <1>1, <1>2, <1>3, NumberBytes, Zenon
  <1>5. PICK a : a = <<83, 83, 86, 49, 1>>
    OBVIOUS
  <1>6. a \in Seq(Nat) /\ Len(a) = 5 /\ a = <<83, 83, 86, 49>> \o <<1>>
    BY <1>5
  <1>7. PICK c, d, e, f, h : c = a \o s /\ d = c \o n1 /\ e = d \o n2 /\ f = e \o n3 /\ h = f \o n4
    OBVIOUS
  <1>8. H!to_bytes(p) = h
    BY <1>3, <1>6, <1>7, Zenon DEF H!to_bytes, H!MAGIC, H!HEADER_VERSION
  <1>9. 4 \in Nat /\ 5 \in Nat /\ 8 \in Nat /\ 32 \in Nat /\ 37 \in Nat /\ 41 \in Nat /\ 45 \in Nat /\ 49 \in Nat
    OBVIOUS
  <1>n. 5 + 32 = 37 /\ 37 + 4 = 41 /\ 41 + 4 = 45 /\ 45 + 4 = 49 /\ 49 + 8 = 57
    OBVIOUS
  <1>10. c \in Seq(Nat) /\ Len(c) = 37 /\ Joined(a, 5, s, 32, c)
    <2>1. a \o s \in Seq(Nat) /\ Len(a \o s) = 5 + 32 /\ Joined(a, 5, s, 32, a \o s)
      <3>1. a \in Seq(Nat) /\ Len(a) = 5
        BY <1>6
      <3> QED BY <1>4, <3>1, <1>9, ConcatJoins, Zenon
    <2> QED BY <1>7, <1>n, <2>1, Zenon
  <1>11. d \in Seq(Nat) /\ Len(d) = 41 /\ Joined(c, 37, n1, 4, d)
    <2>1. c \o n1 \in Seq(Nat) /\ Len(c \o n1) = 37 + 4 /\ Joined(c, 37, n1, 4, c \o n1)
      BY <1>4, <1>9, <1>10, ConcatJoins, Zenon
    <2> QED BY <1>7, <1>n, <2>1, Zenon
  <1>12. e \in Seq(Nat) /\ Len(e) = 45 /\ Joined(d, 41, n2, 4, e)
    <2>1. d \o n2 \in Seq(Nat) /\ Len(d \o n2) = 41 + 4 /\ Joined(d, 41, n2, 4, d \o n2)
      BY <1>4, <1>9, <1>11, ConcatJoins, Zenon
    <2> QED BY <1>7, <1>n, <2>1, Zenon
  <1>13. f \in Seq(Nat) /\ Len(f) = 49 /\ Joined(e, 45, n3, 4, f)
    <2>1. e \o n3 \in Seq(Nat) /\ Len(e \o n3) = 45 + 4 /\ Joined(e, 45, n3, 4, e \o n3)
      BY <1>4, <1>9, <1>12, ConcatJoins, Zenon
    <2> QED BY <1>7, <1>n, <2>1, Zenon
  <1>14. h \in Seq(Nat) /\ Len(h) = 57 /\ Joined(f, 49, n4, 8, h)
    <2>1. f \o n4 \in Seq(Nat) /\ Len(f \o n4) = 49 + 8 /\ Joined(f, 49, n4, 8, f \o n4)
      BY <1>4, <1>9, <1>13, ConcatJoins, Zenon
    <2> QED BY <1>7, <1>n, <2>1, Zenon
  <1>15. Joined(a, 5, s, 32, c) /\ Joined(c, 37, n1, 4, d) /\ Joined(d, 41, n2, 4, e)
         /\ Joined(e, 45, n3, 4, f) /\ Joined(f, 49, n4, 8, h)
    BY <1>10, <1>11, <1>12, <1>13, <1>14, Zenon
  <1>16. /\ \A i \in 1..5 : h[i] = a[i]
         /\ \A i \in 1..32 : h[5 + i] = s[i]
         /\ \A i \in 1..4 : h[37 + i] = n1[i] /\ h[41 + i] = n2[i] /\ h[45 + i] = n3[i]
         /\ \A i \in 1..8 : h[49 + i] = n4[i]
    BY <1>15 DEF Joined
  <1> QED BY <1>3, <1>5, <1>8, <1>14, <1>16, Zenon DEF Layout

(* The bytes of a number, four or eight, are in y from the place off on.   *)
NumberAt(y, off, v) == \A i \in 1..4 : y[off + i] = H!u32_to_le_bytes(v)[i]
LongNumberAt(y, off, v) == \A i \in 1..8 : y[off + i] = H!u64_to_le_bytes(v)[i]

LEMMA NumberIsRead ==
  ASSUME NEW v \in Nat, v <= H!MAX_VDF_ITERATIONS, NEW y, NEW off \in Nat, NumberAt(y, off, v)
  PROVE  H!u32_from_le_bytes(y, off) = v
  <1>1. PICK w : w = H!u32_to_le_bytes(v)
    OBVIOUS
  <1>2. /\ w[1] = v % 256 /\ w[2] = (v \div 256) % 256
        /\ w[3] = (v \div 65536) % 256 /\ w[4] = (v \div 16777216) % 256
    BY <1>1, SMT DEF H!u32_to_le_bytes
  <1>3. y[off + 1] = w[1] /\ y[off + 2] = w[2] /\ y[off + 3] = w[3] /\ y[off + 4] = w[4]
    BY <1>1 DEF NumberAt
  <1>4. H!u32_from_le_bytes(y, off) = w[1] + 256 * (w[2] + 256 * (w[3] + 256 * w[4]))
    BY <1>3 DEF H!u32_from_le_bytes
  <1>5. PICK a, b, c, d : /\ a = v % 256 /\ b = (v \div 256) % 256
                          /\ c = (v \div 65536) % 256 /\ d = (v \div 16777216) % 256
    OBVIOUS
  <1>6. a + 256 * (b + 256 * (c + 256 * d)) = v
    BY <1>5, BytesOfNumber, SMT
  <1>7. w[1] = a /\ w[2] = b /\ w[3] = c /\ w[4] = d
    BY <1>2, <1>5, SMT
  <1> QED BY <1>4, <1>6, <1>7

LEMMA LongNumberIsRead ==
  ASSUME NEW v \in Nat, v <= H!MAX_VDF_ITERATIONS, NEW y, NEW off \in Nat, LongNumberAt(y, off, v)
  PROVE  H!u64_from_le_bytes(y, off) = v
  <1>1. PICK w, x : w = H!u32_to_le_bytes(v) /\ x = H!u64_to_le_bytes(v)
    OBVIOUS
  <1>2. /\ x[1] = w[1] /\ x[2] = w[2] /\ x[3] = w[3] /\ x[4] = w[4]
        /\ x[5] = 0 /\ x[6] = 0 /\ x[7] = 0 /\ x[8] = 0
    <2>1. Joined(w, 4, <<0, 0, 0, 0>>, 4, x)
      BY <1>1, NumberBytes
    <2>2. x[4 + 1] = 0 /\ x[4 + 2] = 0 /\ x[4 + 3] = 0 /\ x[4 + 4] = 0
      BY <2>1 DEF Joined
    <2> QED BY <2>1, <2>2 DEF Joined
  <1>3. y[off + 1] = w[1] /\ y[off + 2] = w[2] /\ y[off + 3] = w[3] /\ y[off + 4] = w[4]
    BY <1>1, <1>2 DEF LongNumberAt
  <1>4. y[off + 5] = 0 /\ y[off + 6] = 0 /\ y[off + 7] = 0 /\ y[off + 8] = 0
    BY <1>1, <1>2 DEF LongNumberAt
  <1>5. H!u32_from_le_bytes(y, off) = v
    <2>1. \A i \in 1..4 : y[off + i] = w[i]
      BY <1>3
    <2> QED BY <1>1, <2>1, NumberIsRead DEF NumberAt
  <1>6. H!u32_from_le_bytes(y, off + 4) = 0
    <2>1. /\ (off + 4) + 1 = off + 5 /\ (off + 4) + 2 = off + 6
          /\ (off + 4) + 3 = off + 7 /\ (off + 4) + 4 = off + 8
      OBVIOUS
    <2> QED BY <1>4, <2>1 DEF H!u32_from_le_bytes
  <1>7. H!u64_from_le_bytes(y, off)
          = y[off + 1] + 256 * (y[off + 2] + 256 * (y[off + 3] + 256 * (y[off + 4] + 256 * 0)))
    BY <1>6 DEF H!u64_from_le_bytes
  <1>8. w[4] + 256 * 0 = w[4]
    <2>1. w \in Seq(Nat) /\ Len(w) = 4
      BY <1>1, NumberBytes
    <2>2. w[4] \in Nat
      <3>1. w[4] = (v \div 16777216) % 256
        BY <1>1, SMT DEF H!u32_to_le_bytes
      <3> QED BY <3>1, SMT
    <2> QED BY <2>2
  <1>9. H!u64_from_le_bytes(y, off) = H!u32_from_le_bytes(y, off)
    BY <1>3, <1>7, <1>8 DEF H!u32_from_le_bytes
  <1> QED BY <1>5, <1>9

(* A part of a sequence is known from its places.                          *)
LEMMA PartIs ==
  ASSUME NEW y \in Seq(Nat), NEW m \in Nat, NEW n \in Nat, m + n <= Len(y),
         NEW t \in Seq(Nat), Len(t) = n, \A i \in 1..n : y[m + i] = t[i]
  PROVE  SubSeq(y, m + 1, m + n) = t
  <1>1. \A i \in (m + 1)..(m + n) : y[i] \in Nat
    <2>1. \A i \in (m + 1)..(m + n) : i \in 1..Len(y)
      <3>1. Len(y) \in Nat
        BY LenProperties
      <3> QED BY <3>1
    <2> QED BY <2>1, ElementOfSeq
  <1>2. PICK u : u = SubSeq(y, m + 1, m + n)
    OBVIOUS
  <1>3. /\ u \in Seq(Nat) /\ Len(u) = IF m + 1 <= m + n THEN (m + n) - (m + 1) + 1 ELSE 0
        /\ \A i \in 1..((m + n) - (m + 1) + 1) : u[i] = y[(m + 1) + i - 1]
    <2>1. m + 1 \in Int /\ m + n \in Int
      OBVIOUS
    <2> QED BY <1>1, <1>2, <2>1, SubSeqProperties
  <1>4. (m + n) - (m + 1) + 1 = n /\ (m + 1 <= m + n <=> n # 0)
    OBVIOUS
  <1>5. Len(u) = n
    BY <1>3, <1>4
  <1>6. \A i \in 1..n : u[i] = t[i]
    <2>1. \A i \in 1..n : u[i] = y[(m + 1) + i - 1]
      BY <1>3, <1>4
    <2>2. \A i \in 1..n : (m + 1) + i - 1 = m + i
      OBVIOUS
    <2> QED BY <2>1, <2>2
  <1> QED BY <1>2, <1>3, <1>5, <1>6, SeqEqual

LEMMA ValidIsDerivable ==
  ASSUME H!InputsAreSound, NEW p \in H!Params, H!ValidKdfParams(p)
  PROVE  H!Derivable(p)
  <1>1. p.threads <= 16 /\ p.memory >= 8192 /\ p.threads \in Nat /\ p.memory \in Nat
    BY DEF H!ValidKdfParams, H!InputsAreSound, H!Params, H!MIN_ARGON_MEMORY_KIB
  <1>2. p.memory >= 8 * p.threads
    BY <1>1
  <1>3. p.vdf <= H!MAX_VDF_ITERATIONS /\ p.time >= 1 /\ p.threads >= 1
    BY DEF H!ValidKdfParams
  <1> QED BY <1>2, <1>3 DEF H!Derivable

LEMMA HeaderIsRead ==
  ASSUME H!InputsAreSound, NEW p \in H!Params, H!ValidKdfParams(p)
  PROVE  H!parse(H!to_bytes(p)) = p
  <1>1. PICK y : y = H!to_bytes(p)
    OBVIOUS
  <1>2. /\ y \in Seq(Nat) /\ Len(y) = 57
        /\ \A i \in 1..5 : y[i] = <<83, 83, 86, 49, 1>>[i]
        /\ \A i \in 1..32 : y[5 + i] = p.salt[i]
        /\ \A i \in 1..4 : /\ y[37 + i] = H!u32_to_le_bytes(p.time)[i]
                           /\ y[41 + i] = H!u32_to_le_bytes(p.memory)[i]
                           /\ y[45 + i] = H!u32_to_le_bytes(p.threads)[i]
        /\ \A i \in 1..8 : y[49 + i] = H!u64_to_le_bytes(p.vdf)[i]
    <2>1. Layout(y, p)
      BY <1>1, HeaderLayout
    <2> QED BY <2>1 DEF Layout
  <1>3. SubSeq(y, 1, 4) = H!MAGIC /\ y[5] = H!HEADER_VERSION
    <2>1. H!MAGIC \in Seq(Nat) /\ Len(H!MAGIC) = 4 /\ \A i \in 1..4 : y[0 + i] = H!MAGIC[i]
      BY <1>2 DEF H!MAGIC
    <2>2. SubSeq(y, 0 + 1, 0 + 4) = H!MAGIC
      <3>1. 0 \in Nat /\ 4 \in Nat /\ 0 + 4 <= 57
        OBVIOUS
      <3> QED BY <1>2, <2>1, <3>1, PartIs
    <2> QED BY <1>2, <2>2 DEF H!HEADER_VERSION
  <1>4. SubSeq(y, 6, 37) = p.salt
    <2>1. p.salt \in Seq(Nat) /\ Len(p.salt) = 32
      BY SaltIsSeq
    <2>2. SubSeq(y, 5 + 1, 5 + 32) = p.salt
      <3>1. PICK t : t = p.salt
        OBVIOUS
      <3>2. 5 \in Nat /\ 32 \in Nat /\ 5 + 32 <= Len(y)
        BY <1>2
      <3>3. t \in Seq(Nat) /\ Len(t) = 32 /\ \A i \in 1..32 : y[5 + i] = t[i]
        BY <1>2, <2>1, <3>1
      <3>4. SubSeq(y, 5 + 1, 5 + 32) = t
        BY <1>2, <3>2, <3>3, PartIs
      <3> QED BY <3>1, <3>4
    <2> QED BY <2>2
  <1>5. p.time \in Nat /\ p.memory \in Nat /\ p.threads \in Nat /\ p.vdf \in Nat
    BY DEF H!InputsAreSound, H!Params
  <1>m. /\ p.time <= H!MAX_VDF_ITERATIONS /\ p.memory <= H!MAX_VDF_ITERATIONS
        /\ p.threads <= H!MAX_VDF_ITERATIONS /\ p.vdf <= H!MAX_VDF_ITERATIONS
    <2>1. p.time <= 32 /\ p.memory <= 1048576 /\ p.threads <= 16 /\ p.vdf <= H!MAX_VDF_ITERATIONS
      BY SMT DEF H!ValidKdfParams, H!MAX_ARGON_MEMORY_KIB
    <2> QED BY <1>5, <2>1, SMT DEF H!MAX_VDF_ITERATIONS
  <1>o. 37 \in Nat /\ 41 \in Nat /\ 45 \in Nat /\ 49 \in Nat
    OBVIOUS
  <1>6. /\ H!u32_from_le_bytes(y, 37) = p.time /\ H!u32_from_le_bytes(y, 41) = p.memory
        /\ H!u32_from_le_bytes(y, 45) = p.threads /\ H!u64_from_le_bytes(y, 49) = p.vdf
    <2>a. NumberAt(y, 37, p.time) /\ NumberAt(y, 41, p.memory) /\ NumberAt(y, 45, p.threads)
      BY <1>2 DEF NumberAt
    <2>b. LongNumberAt(y, 49, p.vdf)
      BY <1>2 DEF LongNumberAt
    <2>1. H!u32_from_le_bytes(y, 37) = p.time
      BY <2>a, <1>5, <1>m, <1>o, NumberIsRead, Zenon
    <2>2. H!u32_from_le_bytes(y, 41) = p.memory
      BY <2>a, <1>5, <1>m, <1>o, NumberIsRead, ZenonT(40)
    <2>3. H!u32_from_le_bytes(y, 45) = p.threads
      BY <2>a, <1>5, <1>m, <1>o, NumberIsRead, Zenon
    <2>4. H!u64_from_le_bytes(y, 49) = p.vdf
      BY <2>b, <1>5, <1>m, <1>o, LongNumberIsRead, Zenon
    <2> QED BY <2>1, <2>2, <2>3, <2>4
  <1>7. [salt |-> p.salt, time |-> p.time, memory |-> p.memory, threads |-> p.threads, vdf |-> p.vdf] = p
    BY DEF H!Params
  <1>8. H!SALT_LEN = 32 /\ H!HEADER_LEN = 57
    BY DEF H!SALT_LEN, H!HEADER_LEN
  <1>9. PICK q : q = [salt |-> SubSeq(y, 6, 37), time |-> H!u32_from_le_bytes(y, 37),
                      memory |-> H!u32_from_le_bytes(y, 41), threads |-> H!u32_from_le_bytes(y, 45),
                      vdf |-> H!u64_from_le_bytes(y, 49)]
    OBVIOUS
  <1>10. q = p
    BY <1>4, <1>6, <1>7, <1>9, Zenon
  <1>11. H!parse(y) = IF H!ValidKdfParams(q) THEN q ELSE Err
    BY <1>2, <1>3, <1>8, <1>9 DEF H!parse
  <1> QED BY <1>1, <1>10, <1>11

(* z is y cut short, or with the byte at i changed, as Replace does it.    *)
Other(y, i, z) == z \in {SubSeq(y, 1, H!HEADER_LEN - i), [y EXCEPT ![i] = @ + 1]}

(* A header with another first or fifth byte, or cut short, is refused.    *)
LEMMA OtherIsRefused ==
  ASSUME NEW y \in Seq(Nat), Len(y) = 57, y[1] = 83, y[5] = 1, NEW i \in {1, 5}, NEW z,
         Other(y, i, z)
  PROVE  z \in Seq(Nat) /\ Len(z) # 0 /\ H!parse(z) = Err
  <1>1. H!HEADER_LEN = 57
    BY DEF H!HEADER_LEN, H!SALT_LEN
  <1>2. \A k \in 1..57 : y[k] \in Nat
    BY ElementOfSeq
  <1>3. CASE z = SubSeq(y, 1, 57 - i)
    <2>1. 1 \in Int /\ 57 - i \in Int /\ 57 - i \in 1..56
      OBVIOUS
    <2>2. \A k \in 1..(57 - i) : y[k] \in Nat
      <3>1. \A k \in 1..(57 - i) : k \in 1..57
        BY <2>1
      <3> QED BY <1>2, <3>1
    <2>3. z \in Seq(Nat) /\ Len(z) = IF 1 <= 57 - i THEN (57 - i) - 1 + 1 ELSE 0
      BY <1>3, <2>1, <2>2, SubSeqProperties
    <2>4. Len(z) # 0 /\ Len(z) < 57
      BY <2>1, <2>3
    <2> QED BY <1>1, <2>3, <2>4 DEF H!parse
  <1>4. CASE z = [y EXCEPT ![i] = @ + 1]
    <2>1. i \in 1..Len(y) /\ y[i] + 1 \in Nat
      <3>1. i \in 1..57
        OBVIOUS
      <3>2. y[i] \in Nat
        BY <1>2, <3>1
      <3> QED BY <3>1, <3>2
    <2>2. z \in Seq(Nat) /\ Len(z) = 57 /\ \A k \in 1..57 : z[k] = IF k = i THEN y[i] + 1 ELSE y[k]
      <3>1. PICK e : e = y[i] + 1
        OBVIOUS
      <3>2. z = [y EXCEPT ![i] = e]
        BY <1>4, <3>1
      <3>3. /\ z \in Seq(Nat) /\ Len(z) = Len(y)
            /\ \A k \in 1..Len(y) : z[k] = IF k = i THEN e ELSE y[k]
        <4>1. y \in [1..57 -> Nat] /\ i \in 1..57 /\ e \in Nat
          BY <2>1, <3>1, LenProperties
        <4>2. z \in [1..57 -> Nat] /\ \A k \in 1..57 : z[k] = IF k = i THEN e ELSE y[k]
          BY <3>2, <4>1
        <4>3. z \in Seq(Nat) /\ Len(z) = 57
          <5>1. PICK n \in Nat : n = 57
            OBVIOUS
          <5>2. z \in [1..n -> Nat]
            BY <4>2, <5>1
          <5>3. z \in Seq(Nat) /\ Len(z) = n
            BY <5>2, FunctionIsSeq
          <5> QED BY <5>1, <5>3
        <4> QED BY <4>2, <4>3
      <3> QED BY <3>1, <3>3
    <2>3. CASE i = 5
      <3>1. z[5] = 2
        BY <2>2, <2>3
      <3> QED BY <2>2, <3>1 DEF H!parse, H!HEADER_VERSION
    <2>4. CASE i = 1
      <3>1. z[1] = 84
        BY <2>2, <2>4
      <3>2. SubSeq(z, 1, 4)[1] = z[1]
        <4>1. \A k \in 1..4 : z[k] \in Nat
          <5>1. \A k \in 1..57 : z[k] \in Nat
            BY <2>2, ElementOfSeq
          <5>2. \A k \in 1..4 : k \in 1..57
            OBVIOUS
          <5> QED BY <5>1, <5>2
        <4>2. \A k \in 1..(4 - 1 + 1) : SubSeq(z, 1, 4)[k] = z[1 + k - 1]
          BY <4>1, SubSeqProperties
        <4> QED BY <4>2
      <3>3. SubSeq(z, 1, 4) # H!MAGIC
        <4>1. H!MAGIC[1] = 83
          BY DEF H!MAGIC
        <4> QED BY <3>1, <3>2, <4>1
      <3> QED BY <2>2, <3>3 DEF H!parse
    <2> QED BY <2>3, <2>4
  <1> QED BY <1>1, <1>3, <1>4 DEF Other

(* For every choice of parameters: open derives its key with the very      *)
(* parameters and salt create wrote, and refuses a header that was changed *)
(* in its magic or version, or cut short.                                  *)
THEOREM VaultsWrittenAreRead ==
  ASSUME H!InputsAreSound
  PROVE  H!Spec => []WrittenHeaderOpens
  <1>1. H!Init => HeaderInv
    BY DEF H!Init, HeaderInv
  <1>2. ASSUME HeaderInv, [H!Next]_H!vars
        PROVE  HeaderInv'
    <2>1. ASSUME NEW p \in H!Params, H!Create(p)
          PROVE  HeaderInv'
      <3>1. made = None /\ made' = p /\ read = None /\ read' = None /\ p # None
        BY <1>2, <2>1 DEF HeaderInv, H!Create, H!InputsAreSound
      <3>2. CASE H!ValidKdfParams(p)
        <4>1. file' = H!to_bytes(p)
          BY <2>1, <3>2, ValidIsDerivable DEF H!Create
        <4>2. H!to_bytes(p) \in Seq(Nat) /\ Len(H!to_bytes(p)) # 0
          <5>1. H!to_bytes(p) \in Seq(Nat) /\ Len(H!to_bytes(p)) = 57
            BY HeaderLayout DEF Layout
          <5> QED BY <5>1
        <4> QED BY <3>1, <3>2, <4>1, <4>2 DEF HeaderInv
      <3>3. CASE ~H!ValidKdfParams(p)
        <4>1. file' = None
          BY <2>1, <3>3 DEF H!Create
        <4> QED BY <3>1, <3>3, <4>1 DEF HeaderInv
      <3> QED BY <3>2, <3>3
    <2>2. CASE H!Replace
      <3>1. /\ made \in H!Params /\ made # None /\ file = H!to_bytes(made)
            /\ made' = made /\ read = None /\ read' = None
        BY <1>2, <2>2 DEF HeaderInv, H!Replace
      <3>2. CASE H!ValidKdfParams(made)
        <4>1. file \in Seq(Nat) /\ Len(file) = 57 /\ file[1] = 83 /\ file[5] = 1
          <5>1. /\ file \in Seq(Nat) /\ Len(file) = 57
                /\ \A i \in 1..5 : file[i] = <<83, 83, 86, 49, 1>>[i]
            BY <3>1, HeaderLayout DEF Layout
          <5> QED BY <5>1
        <4>2. PICK i \in {1, 5} : file' \in {SubSeq(file, 1, H!HEADER_LEN - i), [file EXCEPT ![i] = @ + 1]}
          BY <2>2 DEF H!Replace
        <4>3. file' \in Seq(Nat) /\ Len(file') # 0 /\ H!parse(file') = Err
          <5>1. PICK y, z : y = file /\ z = file'
            OBVIOUS
          <5>2. /\ y \in Seq(Nat) /\ Len(y) = 57 /\ y[1] = 83 /\ y[5] = 1
                /\ Other(y, i, z)
            BY <4>1, <4>2, <5>1 DEF Other
          <5>3. z \in Seq(Nat) /\ Len(z) # 0 /\ H!parse(z) = Err
            BY <5>2, OtherIsRefused
          <5> QED BY <5>1, <5>3
        <4> QED BY <3>1, <3>2, <4>3 DEF HeaderInv
      <3>3. CASE ~H!ValidKdfParams(made)
        BY <1>2, <2>2, <3>1, <3>3 DEF HeaderInv, H!Replace
      <3> QED BY <3>2, <3>3
    <2>3. CASE H!Open
      <3>1. /\ file # None /\ read = None /\ made' = made /\ file' = file
            /\ made # None /\ made \in H!Params /\ H!ValidKdfParams(made)
        BY <1>2, <2>3 DEF HeaderInv, H!Open
      <3>2. H!parse(H!to_bytes(made)) = made /\ made # Err /\ H!Derivable(made)
        BY <3>1, HeaderIsRead, ValidIsDerivable DEF H!InputsAreSound
      <3>3. read' = IF H!parse(file) # Err /\ H!Derivable(H!parse(file)) THEN H!parse(file) ELSE Err
        BY <2>3 DEF H!Open
      <3>4. read' = IF file = H!to_bytes(made) THEN made ELSE Err
        <4>1. file = H!to_bytes(made) \/ H!parse(file) = Err
          BY <1>2, <3>1 DEF HeaderInv
        <4> QED BY <3>2, <3>3, <4>1
      <3> QED BY <1>2, <3>1, <3>4 DEF HeaderInv
    <2>4. CASE UNCHANGED H!vars
      BY <1>2, <2>4 DEF HeaderInv, H!vars
    <2> QED BY <1>2, <2>1, <2>2, <2>3, <2>4 DEF H!Next
  <1>3. HeaderInv => WrittenHeaderOpens
    BY DEF HeaderInv, WrittenHeaderOpens, H!WrittenHeaderOpens
  <1> QED BY <1>1, <1>2, <1>3, PTL DEF H!Spec

-----------------------------------------------------------------------------
(* The choice of characters.                                               *)

(* Arithmetic with a divisor that is not a number.                         *)
LEMMA Division ==
  ASSUME NEW v \in Nat, NEW n \in Nat \ {0}
  PROVE  v \div n \in Nat /\ v % n \in 0..(n - 1) /\ v = (v \div n) * n + (v % n)
  BY SMT

LEMMA TimesOrdered ==
  ASSUME NEW j \in Int, NEW k \in Int, NEW n \in Nat, j <= k
  PROVE  j * n \in Int /\ k * n \in Int /\ j * n <= k * n
  BY SMT

LEMMA TimesNext ==
  ASSUME NEW j \in Int, NEW n \in Nat
  PROVE  (j + 1) * n = j * n + n
  BY SMT

LEMMA Quotient ==
  ASSUME NEW n \in Nat \ {0}, NEW j \in Int, NEW c \in 0..(n - 1), NEW i \in Int, NEW d \in 0..(n - 1),
         j * n + c = i * n + d
  PROVE  i = j /\ c = d
  <1>1. ~(j + 1 <= i)
    <2> SUFFICES ASSUME j + 1 <= i PROVE FALSE
      OBVIOUS
    <2>1. (j + 1) * n <= i * n /\ (j + 1) * n = j * n + n /\ i * n \in Int /\ j * n \in Int
      BY TimesOrdered, TimesNext
    <2> QED BY <2>1
  <1>2. ~(i + 1 <= j)
    <2> SUFFICES ASSUME i + 1 <= j PROVE FALSE
      OBVIOUS
    <2>1. (i + 1) * n <= j * n /\ (i + 1) * n = i * n + n /\ i * n \in Int /\ j * n \in Int
      BY TimesOrdered, TimesNext
    <2> QED BY <2>1
  <1>3. i = j
    BY <1>1, <1>2
  <1> QED BY <1>3

(* The bytes below the largest multiple of n, cut by their remainder.      *)
LEMMA SameRemainder ==
  ASSUME NEW n \in 1..256, NEW c \in 0..(n - 1)
  PROVE  Cardinality({b \in 0..255 : b < (256 \div n) * n /\ b % n = c}) = 256 \div n
  <1>1. PICK q, B : q = 256 \div n /\ B = {b \in 0..255 : b < q * n /\ b % n = c}
    OBVIOUS
  <1>2. q \in Nat /\ q * n \in Nat /\ q * n <= 256
    <2>1. 256 \div n \in Nat /\ 256 % n \in 0..(n - 1) /\ 256 = (256 \div n) * n + (256 % n)
      BY Division
    <2>2. (256 \div n) * n \in Nat
      BY <2>1
    <2> QED BY <1>1, <2>1, <2>2
  <1> DEFINE f == [k \in 1..q |-> (k - 1) * n + c]
  <1>3. ASSUME NEW k \in 1..q
        PROVE  f[k] \in B
    <2>1. k - 1 \in Nat /\ (k - 1) * n \in Nat
      BY <1>2
    <2>2. ((k - 1) + 1) * n <= q * n /\ ((k - 1) + 1) * n = (k - 1) * n + n
      BY <1>2, <2>1, TimesOrdered, TimesNext
    <2>3. PICK b : b = (k - 1) * n + c
      OBVIOUS
    <2>4. b \in 0..255 /\ b < q * n
      BY <1>2, <2>1, <2>2, <2>3
    <2>5. b % n = c
      <3>1. b \div n \in Nat /\ b % n \in 0..(n - 1) /\ b = (b \div n) * n + (b % n)
        BY <2>4, Division, SMTT(40)
      <3>2. (k - 1) * n + c = (b \div n) * n + (b % n)
        BY <2>3, <3>1
      <3>3. PICK i, d : i = b \div n /\ d = b % n
        OBVIOUS
      <3>4. /\ n \in Nat \ {0} /\ k - 1 \in Int /\ i \in Int /\ d \in 0..(n - 1)
            /\ (k - 1) * n + c = i * n + d
        BY <2>1, <3>1, <3>2, <3>3
      <3>5. c = d
        BY <3>4, Quotient
      <3> QED BY <3>3, <3>5
    <2> QED BY <1>1, <2>3, <2>4, <2>5
  <1>4. ASSUME NEW i \in 1..q, NEW j \in 1..q, f[i] = f[j]
        PROVE  i = j
    <2>1. (i - 1) * n + c = (j - 1) * n + c /\ i - 1 \in Int /\ j - 1 \in Int
      BY <1>2, <1>4
    <2>2. j - 1 = i - 1
      BY <2>1, Quotient
    <2> QED BY <1>2, <2>2
  <1>5. ASSUME NEW b \in B
        PROVE  \E k \in 1..q : f[k] = b
    <2>1. b \in 0..255 /\ b < q * n /\ b % n = c
      BY <1>1
    <2>2. PICK j : j = b \div n
      OBVIOUS
    <2>3. j \in Nat /\ b = j * n + c /\ j * n \in Nat
      <3>1. b \div n \in Nat /\ b = (b \div n) * n + (b % n)
        <4>1. b \in Nat /\ n \in Nat \ {0}
          BY <2>1
        <4> QED BY <4>1, Division
      <3> QED BY <2>1, <2>2, <3>1
    <2>4. ~(q <= j)
      <3> SUFFICES ASSUME q <= j PROVE FALSE
        OBVIOUS
      <3>1. q * n <= j * n
        BY <1>2, <2>3, TimesOrdered
      <3> QED BY <1>2, <2>1, <2>3, <3>1
    <2>5. j + 1 \in 1..q /\ (j + 1) - 1 = j
      BY <1>2, <2>3, <2>4
    <2>6. f[j + 1] = b
      BY <2>3, <2>5
    <2> QED BY <2>5, <2>6
  <1>6. f \in Bijection(1..q, B)
    <2>1. f \in [1..q -> B]
      BY <1>3
    <2> HIDE DEF f
    <2> QED BY <1>4, <1>5, <2>1, Fun_IsBij
  <1>7. IsFiniteSet(1..q) /\ Cardinality(1..q) = q
    BY <1>2, FS_Interval
  <1>8. Cardinality(B) = q
    <2> HIDE DEF f
    <2> QED BY <1>6, <1>7, FS_Bijection DEF ExistsBijection
  <1> QED BY <1>1, <1>8

(* The counting of Generation is that of the library.                      *)
LEMMA SameCount == \A S : G!Cardinality(S) = Cardinality(S)
  BY DEF G!Cardinality, Cardinality

(* For every size of a charset: each of its characters is made by as many  *)
(* of the bytes that next_charset_byte accepts as any other.               *)
THEOREM NoCharacterIsFavoured ==
  G!Spec => []CharactersAreUnbiased
  <1>1. ASSUME NEW n \in G!CharsetSizes, NEW c \in 0..(n - 1)
        PROVE  G!Cardinality(G!Makers(n, c)) = G!Fits(n)
    BY SameRemainder, SameCount DEF G!Fits, G!CharsetSizes, G!Makers, G!Byte, G!Accepts, G!Limit
  <1>2. CharactersAreUnbiased
    BY <1>1 DEF CharactersAreUnbiased, G!CharactersAreUnbiased
  <1> QED BY <1>2, PTL

-----------------------------------------------------------------------------
(* Induction, by the well-foundedness of the finite subsets of Nat, and    *)
(* recursion.                                                              *)
LEMMA SetInduction ==
  ASSUME NEW S, 0 \in S, \A n \in Nat : n \in S => n + 1 \in S
  PROVE  Nat \subseteq S
  <1> SUFFICES ASSUME NEW k \in Nat, k \notin S PROVE FALSE
    OBVIOUS
  <1> DEFINE R == StrictSubsetOrdering(Nat)
             Intervals == {1..n : n \in Nat \ S}
  <1>1. IsWellFoundedOn(R, FiniteSubsetsOf(Nat))
    BY FS_StrictSubsetOrderingWellFounded
  <1>2. Intervals \subseteq FiniteSubsetsOf(Nat)
    <2> SUFFICES ASSUME NEW n \in Nat PROVE IsFiniteSet(1..n)
      BY DEF FiniteSubsetsOf
    <2> QED BY FS_Interval
  <1>3. Intervals # {}
    OBVIOUS
  <1> HIDE DEF R, Intervals
  <1>4. PICK x \in Intervals : \A y \in Intervals : ~ (<<y, x>> \in R)
    BY <1>1, <1>2, <1>3, WFMin
  <1> USE DEF Intervals
  <1>5. PICK n \in Nat \ S : x = 1..n
    BY <1>4
  <1>6. n # 0 /\ n - 1 \in Nat /\ n - 1 \notin S
    BY <1>5
  <1>7. 1..(n-1) \in Intervals
    BY <1>6
  <1>8. <<1..(n-1), x>> \in R
    BY <1>5, <1>6 DEF R, StrictSubsetOrdering
  <1> QED BY <1>4, <1>7, <1>8

(* f is what D makes of c, step by step.                                   *)
Steps(f, A, c, n, D) ==
  f \in [0..n -> A] /\ f[0] = c /\ \A i \in 1..n : f[i] = D[<<i, f[i - 1]>>]

LEMMA RecursionExists ==
  ASSUME NEW A, NEW c \in A, NEW N \in Nat, NEW D \in [(1..N) \X A -> A]
  PROVE  \E f : Steps(f, A, c, N, D)
  <1> DEFINE Ok(n) == \E f \in [0..n -> A] : f[0] = c /\ \A i \in 1..n : f[i] = D[<<i, f[i-1]>>]
             S == {n \in Nat : n <= N => Ok(n)}
  <1>1. 0 \in S
    <2> DEFINE f == [i \in 0..0 |-> c]
    <2>1. f \in [0..0 -> A] /\ f[0] = c /\ \A i \in 1..0 : f[i] = D[<<i, f[i-1]>>]
      OBVIOUS
    <2> QED BY <2>1
  <1>2. ASSUME NEW n \in Nat, n \in S PROVE n + 1 \in S
    <2> SUFFICES ASSUME n + 1 <= N PROVE Ok(n + 1)
      OBVIOUS
    <2>1. PICK f \in [0..n -> A] : f[0] = c /\ \A i \in 1..n : f[i] = D[<<i, f[i-1]>>]
      BY <1>2
    <2> DEFINE g == [i \in 0..(n+1) |-> IF i = n + 1 THEN D[<<n + 1, f[n]>>] ELSE f[i]]
    <2>2. <<n + 1, f[n]>> \in (1..N) \X A
      OBVIOUS
    <2>3. g \in [0..(n+1) -> A]
      BY <2>2
    <2>4. g[0] = c
      BY <2>1
    <2>5. ASSUME NEW i \in 1..(n+1) PROVE g[i] = D[<<i, g[i-1]>>]
      <3>1. CASE i = n + 1
        BY <3>1, SMTT(40)
      <3>2. CASE i \in 1..n
        BY <2>1, <3>2
      <3> QED BY <3>1, <3>2
    <2> QED BY <2>3, <2>4, <2>5
  <1> HIDE DEF S
  <1>3. Nat \subseteq S
    BY <1>1, <1>2, SetInduction
  <1> QED BY <1>3 DEF S, Steps

SameSteps(f, g, n) == f[0] = g[0] /\ \A i \in 1..n : f[i - 1] = g[i - 1] => f[i] = g[i]

LEMMA StepByStep ==
  ASSUME NEW n \in Nat, NEW f, NEW g, SameSteps(f, g, n)
  PROVE  \A i \in 0..n : f[i] = g[i]
  <1> DEFINE S == {i \in Nat : i <= n => f[i] = g[i]}
  <1>1. 0 \in S
    BY DEF SameSteps
  <1>2. ASSUME NEW i \in Nat, i \in S
        PROVE  i + 1 \in S
    <2> SUFFICES ASSUME i + 1 <= n PROVE f[i + 1] = g[i + 1]
      BY DEF SameSteps
    <2>1. i + 1 \in 1..n /\ (i + 1) - 1 = i /\ f[i] = g[i]
      BY <1>2
    <2> QED BY <2>1 DEF SameSteps
  <1> HIDE DEF S
  <1>3. Nat \subseteq S
    BY <1>1, <1>2, SetInduction
  <1> QED BY <1>3 DEF S

-----------------------------------------------------------------------------
(* Shamir's scheme, over any field of bytes.                               *)

B == Sh!Byte
a \oplus b == Add(a, b)
a \otimes b == Multiply(a, b)

Field ==
  /\ 0 \in B /\ 1 \in B
  /\ \A a, b \in B :
       a \oplus b \in B /\ a \otimes b \in B /\ a \oplus b = b \oplus a /\ a \otimes b = b \otimes a
  /\ \A a \in B :
       /\ a \oplus 0 = a /\ a \oplus a = 0 /\ a \otimes 0 = 0 /\ a \otimes 1 = a
       /\ Invert(a) \in B /\ (a # 0 => a \otimes Invert(a) = 1)
  /\ \A a, b, c \in B :
       /\ (a \oplus b) \oplus c = a \oplus (b \oplus c)
       /\ (a \otimes b) \otimes c = a \otimes (b \otimes c)
       /\ (a \oplus b) \otimes c = (a \otimes c) \oplus (b \otimes c)

(* What is seen of two bytes and a generator.                              *)
Seen(g) ==
  /\ 0 \in B /\ 1 \in B /\ g \in B
  /\ \A a, b \in B :
       a \oplus b \in B /\ a \otimes b \in B /\ a \oplus b = b \oplus a /\ a \otimes b = b \otimes a
  /\ \A a \in B :
       /\ a \oplus 0 = a /\ a \oplus a = 0 /\ a \otimes 0 = 0 /\ a \otimes 1 = a
       /\ Invert(a) \in B /\ (a # 0 => a \otimes Invert(a) = 1)
  /\ \A a, b \in B :
       /\ (a \oplus b) \oplus 1 = a \oplus (b \oplus 1)
       /\ (a \otimes b) \otimes g = a \otimes (b \otimes g)
       /\ (a \oplus b) \otimes g = (a \otimes g) \oplus (b \otimes g)

(* What holds of 0 and 1 and is kept by multiplying with g holds of all.   *)
LEMMA GeneratorReaches ==
  ASSUME NEW g, Seen(g), Sh!Generates(g), NEW Q,
         0 \in Q, 1 \in Q, \A c \in B : c \in Q => c \otimes g \in Q
  PROVE  B \subseteq Q
  <1>1. PICK n \in Nat : n = 254
    OBVIOUS
  <1>2. PICK D : D = [x \in (1..n) \X B |-> Multiply(x[2], g)]
    OBVIOUS
  <1>3. D \in [(1..n) \X B -> B]
    BY <1>2 DEF Seen, \otimes
  <1>4. PICK f : Steps(f, B, 1, n, D)
    BY <1>3, RecursionExists, Zenon DEF Seen
  <1>5. \A i \in 1..n : f[i] = Multiply(f[i - 1], g)
    <2> SUFFICES ASSUME NEW i \in 1..n PROVE f[i] = Multiply(f[i - 1], g)
      OBVIOUS
    <2>1. i - 1 \in 0..n /\ f[i - 1] \in B
      BY <1>4 DEF Steps
    <2>2. D[<<i, f[i - 1]>>] = Multiply(f[i - 1], g)
      BY <1>2, <2>1
    <2> QED BY <1>4, <2>2 DEF Steps
  <1>6. f = [k \in 0..n |-> IF k = 0 THEN 1 ELSE Multiply(f[k - 1], g)]
    BY <1>4, <1>5 DEF Steps
  <1>7. f = [k \in 0..254 |-> IF k = 0 THEN 1 ELSE Multiply(f[k - 1], g)]
    BY <1>1, <1>6, Zenon
  <1>8. PICK h : /\ h = [k \in 0..254 |-> IF k = 0 THEN 1 ELSE Multiply(h[k - 1], g)]
                 /\ B \ {0} \subseteq {h[k] : k \in 0..254}
    BY <1>7, ZenonT(60) DEF Sh!Generates, B
  <1>9. h = [k \in 0..n |-> IF k = 0 THEN 1 ELSE Multiply(h[k - 1], g)]
    BY <1>1, <1>8, Zenon
  <1>10. \A i \in 1..n : h[i] = Multiply(h[i - 1], g)
    BY <1>9
  <1> DEFINE R == {k \in Nat : k <= n => h[k] \in B /\ h[k] \in Q}
  <1>11. 0 \in R
    BY <1>9 DEF Seen
  <1>12. ASSUME NEW k \in Nat, k \in R PROVE k + 1 \in R
    <2> SUFFICES ASSUME k + 1 <= n PROVE h[k + 1] \in B /\ h[k + 1] \in Q
      OBVIOUS
    <2>1. h[k] \in B /\ h[k] \in Q
      BY <1>12
    <2>2. k + 1 \in 1..n /\ (k + 1) - 1 = k
      OBVIOUS
    <2>3. h[k + 1] = h[k] \otimes g
      BY <1>10, <2>2 DEF \otimes
    <2>4. h[k] \otimes g \in B
      BY <2>1 DEF Seen
    <2>5. h[k] \otimes g \in Q
      BY <2>1
    <2> QED BY <2>3, <2>4, <2>5
  <1> HIDE DEF R
  <1>13. Nat \subseteq R
    BY <1>11, <1>12, SetInduction
  <1>14. \A k \in 0..n : h[k] \in Q
    BY <1>13 DEF R
  <1>15. B \ {0} \subseteq {h[k] : k \in 0..n}
    BY <1>1, <1>8, Zenon
  <1> QED BY <1>14, <1>15

LEMMA FieldLaws ==
  ASSUME Sh!IsField
  PROVE  Field
  <1>1. 0 \in B /\ 1 \in B
    BY DEF B, Sh!Byte
  <1>2. PICK g : Seen(g) /\ Sh!Generates(g)
    <2>1. PICK g \in B :
            /\ Sh!Generates(g)
            /\ \A a, b \in B :
                 /\ (a \otimes b) \otimes g = a \otimes (b \otimes g)
                 /\ (a \oplus b) \otimes g = (a \otimes g) \oplus (b \otimes g)
      BY Zenon DEF Sh!IsField, B, \oplus, \otimes
    <2>2. \A a, b \in B :
            /\ a \oplus b \in B /\ a \oplus b = b \oplus a
            /\ a \otimes b \in B /\ a \otimes b = b \otimes a
            /\ (a \oplus b) \oplus 1 = a \oplus (b \oplus 1)
      BY Zenon DEF Sh!IsField, B, \oplus, \otimes
    <2>3. \A a \in B :
            /\ a \oplus 0 = a /\ a \oplus a = 0 /\ a \otimes 0 = 0 /\ a \otimes 1 = a
            /\ Invert(a) \in B /\ (a # 0 => a \otimes Invert(a) = 1)
      BY Zenon DEF Sh!IsField, B, \oplus, \otimes
    <2>4. Seen(g)
      <3>1. \A a, b \in B :
              a \oplus b \in B /\ a \otimes b \in B /\ a \oplus b = b \oplus a /\ a \otimes b = b \otimes a
        BY <2>2
      <3>2. \A a, b \in B :
              /\ (a \oplus b) \oplus 1 = a \oplus (b \oplus 1)
              /\ (a \otimes b) \otimes g = a \otimes (b \otimes g)
              /\ (a \oplus b) \otimes g = (a \otimes g) \oplus (b \otimes g)
        BY <2>1, <2>2
      <3> QED BY <1>1, <2>3, <3>1, <3>2, Zenon DEF Seen
    <2> QED BY <2>1, <2>4
  <1>3. \A a, b \in B :
          a \oplus b \in B /\ a \otimes b \in B /\ a \oplus b = b \oplus a /\ a \otimes b = b \otimes a
    BY <1>2, Zenon DEF Seen
  <1>4. \A a \in B :
          /\ a \oplus 0 = a /\ a \oplus a = 0 /\ a \otimes 0 = 0 /\ a \otimes 1 = a
          /\ Invert(a) \in B /\ (a # 0 => a \otimes Invert(a) = 1)
    BY <1>2, Zenon DEF Seen
  <1>5. g \in B
    BY <1>2 DEF Seen
  <1>6. \A a, b \in B : (a \otimes b) \otimes g = a \otimes (b \otimes g)
    BY <1>2, Zenon DEF Seen
  <1>7. \A a, b \in B : (a \oplus b) \otimes g = (a \otimes g) \oplus (b \otimes g)
    BY <1>2, Zenon DEF Seen
  <1>8. \A a, b \in B : (a \oplus b) \oplus 1 = a \oplus (b \oplus 1)
    BY <1>2, Zenon DEF Seen
  <1>9. ASSUME NEW a \in B, NEW b \in B
        PROVE  \A c \in B : (a \otimes b) \otimes c = a \otimes (b \otimes c)
    <2> DEFINE Q == {c \in B : (a \otimes b) \otimes c = a \otimes (b \otimes c)}
    <2>1. 0 \in Q /\ 1 \in Q
      BY <1>1, <1>3, <1>4
    <2>2. ASSUME NEW c \in B, c \in Q PROVE c \otimes g \in Q
      <3>1. a \otimes b \in B /\ b \otimes c \in B /\ c \otimes g \in B
        BY <1>3, <1>5
      <3>2. (a \otimes b) \otimes (c \otimes g) = ((a \otimes b) \otimes c) \otimes g
        BY <1>6, <3>1
      <3>3. ((a \otimes b) \otimes c) \otimes g = (a \otimes (b \otimes c)) \otimes g
        BY <2>2
      <3>4. (a \otimes (b \otimes c)) \otimes g = a \otimes ((b \otimes c) \otimes g)
        BY <1>6, <3>1
      <3>5. (b \otimes c) \otimes g = b \otimes (c \otimes g)
        BY <1>6
      <3> QED BY <3>1, <3>2, <3>3, <3>4, <3>5
    <2> HIDE DEF Q
    <2>3. B \subseteq Q
      BY <1>2, <2>1, <2>2, GeneratorReaches
    <2> QED BY <2>3 DEF Q
  <1>10. ASSUME NEW a \in B, NEW b \in B
         PROVE  \A c \in B : (a \oplus b) \otimes c = (a \otimes c) \oplus (b \otimes c)
    <2> DEFINE Q == {c \in B : (a \oplus b) \otimes c = (a \otimes c) \oplus (b \otimes c)}
    <2>1. 0 \in Q /\ 1 \in Q
      BY <1>1, <1>3, <1>4
    <2>2. ASSUME NEW c \in B, c \in Q PROVE c \otimes g \in Q
      <3>1. a \oplus b \in B /\ a \otimes c \in B /\ b \otimes c \in B /\ c \otimes g \in B
        BY <1>3, <1>5
      <3>2. (a \oplus b) \otimes (c \otimes g) = ((a \oplus b) \otimes c) \otimes g
        BY <1>6, <3>1
      <3>3. ((a \oplus b) \otimes c) \otimes g = ((a \otimes c) \oplus (b \otimes c)) \otimes g
        BY <2>2
      <3>4. ((a \otimes c) \oplus (b \otimes c)) \otimes g
              = ((a \otimes c) \otimes g) \oplus ((b \otimes c) \otimes g)
        BY <1>7, <3>1
      <3>5. (a \otimes c) \otimes g = a \otimes (c \otimes g) /\ (b \otimes c) \otimes g = b \otimes (c \otimes g)
        BY <1>6
      <3> QED BY <3>1, <3>2, <3>3, <3>4, <3>5
    <2> HIDE DEF Q
    <2>3. B \subseteq Q
      BY <1>2, <2>1, <2>2, GeneratorReaches
    <2> QED BY <2>3 DEF Q
  <1>11. ASSUME NEW a \in B, NEW b \in B, NEW c \in B
         PROVE  (a \oplus b) \oplus c = a \oplus (b \oplus c)
    <2>1. CASE c = 0
      BY <1>3, <1>4, <2>1
    <2>2. CASE c # 0
      <3>1. PICK d \in B : c \otimes d = 1
        BY <1>4, <2>2
      <3>2. \A x \in B : (x \otimes d) \otimes c = x
        <4>1. ASSUME NEW x \in B PROVE (x \otimes d) \otimes c = x \otimes (d \otimes c)
          BY <1>9
        <4> QED BY <1>3, <1>4, <3>1, <4>1
      <3>3. PICK u \in B, w \in B : u = a \otimes d /\ w = b \otimes d
        BY <1>3
      <3>4. u \otimes c = a /\ w \otimes c = b /\ 1 \otimes c = c
        BY <1>1, <1>3, <1>4, <3>2, <3>3
      <3>5. u \oplus w \in B /\ w \oplus 1 \in B
        BY <1>1, <1>3
      <3>6. (u \oplus w) \otimes c = a \oplus b /\ (w \oplus 1) \otimes c = b \oplus c
        BY <1>1, <1>10, <3>4
      <3>7. ((u \oplus w) \oplus 1) \otimes c = (a \oplus b) \oplus c
        BY <1>1, <1>10, <3>4, <3>5, <3>6
      <3>8. (u \oplus (w \oplus 1)) \otimes c = a \oplus (b \oplus c)
        BY <1>1, <1>10, <3>4, <3>5, <3>6
      <3> QED BY <1>8, <3>7, <3>8
    <2> QED BY <2>1, <2>2
  <1> QED BY <1>1, <1>3, <1>4, <1>9, <1>10, <1>11 DEF Field

LEMMA IsSequence ==
  ASSUME NEW n \in Nat, NEW q \in [1..n -> B]
  PROVE  q \in Seq(B) /\ Len(q) = n
  BY FunctionIsSeq

LEMMA ProductIs ==
  ASSUME Field, NEW n \in Nat, NEW q \in [1..n -> B]
  PROVE  \E f \in [0..n -> B] :
           /\ f[0] = 1 /\ \A i \in 1..n : f[i] = f[i - 1] \otimes q[i]
           /\ Sh!Product(q) = f[n]
  <1>1. Len(q) = n
    BY IsSequence
  <1>2. PICK D : D = [x \in (1..n) \X B |-> Multiply(x[2], q[x[1]])]
    OBVIOUS
  <1>3. D \in [(1..n) \X B -> B]
    BY <1>2 DEF Field, \otimes
  <1>4. 1 \in B
    BY DEF Field
  <1>5. PICK f : Steps(f, B, 1, n, D)
    BY <1>3, <1>4, RecursionExists, Zenon
  <1>6. \A i \in 1..n : f[i] = Multiply(f[i - 1], q[i])
    <2> SUFFICES ASSUME NEW i \in 1..n PROVE f[i] = Multiply(f[i - 1], q[i])
      OBVIOUS
    <2>1. i - 1 \in 0..n /\ f[i - 1] \in B
      BY <1>5 DEF Steps
    <2>2. D[<<i, f[i - 1]>>] = Multiply(f[i - 1], q[i])
      BY <1>2, <2>1
    <2> QED BY <1>5, <2>2 DEF Steps
  <1>7. f = [i \in 0..Len(q) |-> IF i = 0 THEN 1 ELSE Multiply(f[i - 1], q[i])]
    BY <1>1, <1>5, <1>6 DEF Steps
  <1>8. PICK h : /\ h = [i \in 0..Len(q) |-> IF i = 0 THEN 1 ELSE Multiply(h[i - 1], q[i])]
                 /\ Sh!Product(q) = h[Len(q)]
    BY <1>7, Zenon DEF Sh!Product
  <1>9. SameSteps(f, h, n)
    <2>1. h[0] = 1 /\ \A i \in 1..n : h[i] = Multiply(h[i - 1], q[i])
      BY <1>1, <1>8
    <2> QED BY <1>5, <1>6, <2>1 DEF SameSteps, Steps
  <1>10. f[n] = h[n]
    BY <1>9, StepByStep
  <1> QED BY <1>1, <1>5, <1>6, <1>8, <1>10 DEF Steps, \otimes

PrefixProduct(q, n) == Sh!Product([j \in 1..n |-> q[j]])

LEMMA EmptyProduct ==
  ASSUME Field, NEW q
  PROVE  PrefixProduct(q, 0) = 1
  <1>1. PICK u : u = [j \in 1..0 |-> q[j]]
    OBVIOUS
  <1>2. u \in [1..0 -> B]
    BY <1>1
  <1>3. Sh!Product(u) = 1
    BY <1>2, ProductIs
  <1> QED BY <1>1, <1>3 DEF PrefixProduct

LEMMA ProductNext ==
  ASSUME Field, NEW n \in Nat, NEW q, \A j \in 1..(n + 1) : q[j] \in B
  PROVE  /\ PrefixProduct(q, n) \in B
         /\ PrefixProduct(q, n + 1) = PrefixProduct(q, n) \otimes q[n + 1]
  <1>2. PICK v : v = [j \in 1..n |-> q[j]]
    OBVIOUS
  <1>3. PICK w : w = [j \in 1..(n + 1) |-> q[j]]
    OBVIOUS
  <1>4. v \in [1..n -> B] /\ w \in [1..(n + 1) -> B]
    BY <1>2, <1>3
  <1>6. PICK f \in [0..n -> B] :
          /\ f[0] = 1 /\ \A i \in 1..n : f[i] = f[i - 1] \otimes v[i]
          /\ Sh!Product(v) = f[n]
    BY <1>4, ProductIs
  <1>7. PICK h \in [0..(n + 1) -> B] :
          /\ h[0] = 1 /\ \A i \in 1..(n + 1) : h[i] = h[i - 1] \otimes w[i]
          /\ Sh!Product(w) = h[n + 1]
    <2>1. PICK k \in Nat : k = n + 1
      OBVIOUS
    <2>2. w \in [1..k -> B]
      BY <1>4, <2>1
    <2>3. PICK h \in [0..k -> B] :
            /\ h[0] = 1 /\ \A i \in 1..k : h[i] = h[i - 1] \otimes w[i]
            /\ Sh!Product(w) = h[k]
      BY <2>2, ProductIs
    <2> QED BY <2>1, <2>3
  <1>8. SameSteps(f, h, n)
    <2>1. \A i \in 1..n : v[i] = w[i] /\ h[i] = h[i - 1] \otimes w[i]
      BY <1>2, <1>3, <1>7
    <2> QED BY <1>6, <1>7, <2>1 DEF SameSteps
  <1>9. f[n] = h[n]
    BY <1>8, StepByStep
  <1>10. h[n + 1] = h[n] \otimes q[n + 1]
    <2>1. n + 1 \in 1..(n + 1) /\ (n + 1) - 1 = n /\ w[n + 1] = q[n + 1]
      BY <1>3
    <2> QED BY <1>7, <2>1
  <1>11. Sh!Product(v) \in B
    BY <1>6
  <1> QED BY <1>2, <1>3, <1>6, <1>7, <1>9, <1>10, <1>11 DEF PrefixProduct

LEMMA SumIs ==
  ASSUME Field, NEW n \in Nat, NEW q \in [1..n -> B]
  PROVE  \E f \in [0..n -> B] :
           /\ f[0] = 0 /\ \A i \in 1..n : f[i] = f[i - 1] \oplus q[i]
           /\ Sh!Sum(q) = f[n]
  <1>1. Len(q) = n
    BY IsSequence
  <1>2. PICK D : D = [x \in (1..n) \X B |-> Add(x[2], q[x[1]])]
    OBVIOUS
  <1>3. D \in [(1..n) \X B -> B]
    BY <1>2 DEF Field, \oplus
  <1>4. 0 \in B
    BY DEF Field
  <1>5. PICK f : Steps(f, B, 0, n, D)
    BY <1>3, <1>4, RecursionExists, Zenon
  <1>6. \A i \in 1..n : f[i] = Add(f[i - 1], q[i])
    <2> SUFFICES ASSUME NEW i \in 1..n PROVE f[i] = Add(f[i - 1], q[i])
      OBVIOUS
    <2>1. i - 1 \in 0..n /\ f[i - 1] \in B
      BY <1>5 DEF Steps
    <2>2. D[<<i, f[i - 1]>>] = Add(f[i - 1], q[i])
      BY <1>2, <2>1
    <2> QED BY <1>5, <2>2 DEF Steps
  <1>7. f = [i \in 0..Len(q) |-> IF i = 0 THEN 0 ELSE Add(f[i - 1], q[i])]
    BY <1>1, <1>5, <1>6 DEF Steps
  <1>8. PICK h : /\ h = [i \in 0..Len(q) |-> IF i = 0 THEN 0 ELSE Add(h[i - 1], q[i])]
                 /\ Sh!Sum(q) = h[Len(q)]
    BY <1>7, Zenon DEF Sh!Sum
  <1>9. SameSteps(f, h, n)
    <2>1. h[0] = 0 /\ \A i \in 1..n : h[i] = Add(h[i - 1], q[i])
      BY <1>1, <1>8
    <2> QED BY <1>5, <1>6, <2>1 DEF SameSteps, Steps
  <1>10. f[n] = h[n]
    BY <1>9, StepByStep
  <1> QED BY <1>1, <1>5, <1>6, <1>8, <1>10 DEF Steps, \oplus

PrefixSum(q, n) == Sh!Sum([j \in 1..n |-> q[j]])

LEMMA EmptySum ==
  ASSUME Field, NEW q
  PROVE  PrefixSum(q, 0) = 0
  <1>1. PICK u : u = [j \in 1..0 |-> q[j]]
    OBVIOUS
  <1>2. u \in [1..0 -> B]
    BY <1>1
  <1>3. Sh!Sum(u) = 0
    BY <1>2, SumIs
  <1> QED BY <1>1, <1>3 DEF PrefixSum

LEMMA SumNext ==
  ASSUME Field, NEW n \in Nat, NEW q, \A j \in 1..(n + 1) : q[j] \in B
  PROVE  /\ PrefixSum(q, n) \in B
         /\ PrefixSum(q, n + 1) = PrefixSum(q, n) \oplus q[n + 1]
  <1>2. PICK v : v = [j \in 1..n |-> q[j]]
    OBVIOUS
  <1>3. PICK w : w = [j \in 1..(n + 1) |-> q[j]]
    OBVIOUS
  <1>4. v \in [1..n -> B] /\ w \in [1..(n + 1) -> B]
    BY <1>2, <1>3
  <1>6. PICK f \in [0..n -> B] :
          /\ f[0] = 0 /\ \A i \in 1..n : f[i] = f[i - 1] \oplus v[i]
          /\ Sh!Sum(v) = f[n]
    BY <1>4, SumIs
  <1>7. PICK h \in [0..(n + 1) -> B] :
          /\ h[0] = 0 /\ \A i \in 1..(n + 1) : h[i] = h[i - 1] \oplus w[i]
          /\ Sh!Sum(w) = h[n + 1]
    <2>1. PICK k \in Nat : k = n + 1
      OBVIOUS
    <2>2. w \in [1..k -> B]
      BY <1>4, <2>1
    <2>3. PICK h \in [0..k -> B] :
            /\ h[0] = 0 /\ \A i \in 1..k : h[i] = h[i - 1] \oplus w[i]
            /\ Sh!Sum(w) = h[k]
      BY <2>2, SumIs
    <2> QED BY <2>1, <2>3
  <1>8. SameSteps(f, h, n)
    <2>1. \A i \in 1..n : v[i] = w[i] /\ h[i] = h[i - 1] \oplus w[i]
      BY <1>2, <1>3, <1>7
    <2> QED BY <1>6, <1>7, <2>1 DEF SameSteps
  <1>9. f[n] = h[n]
    BY <1>8, StepByStep
  <1>10. h[n + 1] = h[n] \oplus q[n + 1]
    <2>1. n + 1 \in 1..(n + 1) /\ (n + 1) - 1 = n /\ w[n + 1] = q[n + 1]
      BY <1>3
    <2> QED BY <1>7, <2>1
  <1>11. Sh!Sum(v) \in B
    BY <1>6
  <1> QED BY <1>2, <1>3, <1>6, <1>7, <1>9, <1>10, <1>11 DEF PrefixSum

LEMMA ZeroLaws ==
  ASSUME Field, NEW a \in B
  PROVE  0 \oplus a = a /\ 0 \otimes a = 0
  <1>1. 0 \in B /\ a \oplus 0 = a /\ a \otimes 0 = 0
    BY DEF Field
  <1>2. 0 \oplus a = a \oplus 0 /\ 0 \otimes a = a \otimes 0
    BY <1>1 DEF Field
  <1> QED BY <1>1, <1>2

(* In a field of characteristic 2 subtraction is addition.                 *)
LEMMA Cancel ==
  ASSUME Field, NEW a \in B, NEW b \in B, a \oplus b = 0
  PROVE  a = b
  <1>1. (a \oplus b) \oplus b = a \oplus (b \oplus b)
    BY DEF Field
  <1>2. b \oplus b = 0 /\ a \oplus 0 = a
    BY DEF Field
  <1>3. 0 \oplus b = b
    BY ZeroLaws
  <1> QED BY <1>1, <1>2, <1>3

LEMMA NoZeroDivisors ==
  ASSUME Field, NEW a \in B, NEW b \in B, a # 0, a \otimes b = 0
  PROVE  b = 0
  <1>1. Invert(a) \in B /\ a \otimes Invert(a) = 1 /\ 0 \in B
    BY DEF Field
  <1>2. b = b \otimes (a \otimes Invert(a))
    BY <1>1 DEF Field
  <1>3. (b \otimes a) \otimes Invert(a) = b \otimes (a \otimes Invert(a))
    BY <1>1 DEF Field
  <1>4. b \otimes a = 0
    BY DEF Field
  <1>5. 0 \otimes Invert(a) = 0
    BY <1>1, ZeroLaws
  <1> QED BY <1>2, <1>3, <1>4, <1>5

LEMMA FourSum ==
  ASSUME Field, NEW a \in B, NEW b \in B, NEW c \in B, NEW d \in B
  PROVE  (a \oplus b) \oplus (c \oplus d) = (a \oplus c) \oplus (b \oplus d)
  <1>1. c \oplus d \in B /\ b \oplus d \in B /\ a \oplus c \in B /\ a \oplus b \in B
    BY DEF Field
  <1>2. (a \oplus b) \oplus (c \oplus d) = ((a \oplus b) \oplus c) \oplus d
    BY <1>1 DEF Field
  <1>3. (a \oplus b) \oplus c = a \oplus (b \oplus c)
    BY DEF Field
  <1>4. b \oplus c = c \oplus b
    BY DEF Field
  <1>5. a \oplus (c \oplus b) = (a \oplus c) \oplus b
    BY DEF Field
  <1>6. ((a \oplus c) \oplus b) \oplus d = (a \oplus c) \oplus (b \oplus d)
    BY <1>1 DEF Field
  <1> QED BY <1>2, <1>3, <1>4, <1>5, <1>6

-----------------------------------------------------------------------------
LEMMA ZeroFactor ==
  ASSUME Field, NEW n \in Nat, NEW q, \A j \in 1..n : q[j] \in B,
         NEW i \in 1..n, q[i] = 0
  PROVE  PrefixProduct(q, n) = 0
  <1> DEFINE Q == {k \in Nat : k <= n /\ i <= k => PrefixProduct(q, k) = 0}
  <1>1. 0 \in Q
    OBVIOUS
  <1>2. ASSUME NEW k \in Nat, k \in Q PROVE k + 1 \in Q
    <2> SUFFICES ASSUME k + 1 <= n, i <= k + 1 PROVE PrefixProduct(q, k + 1) = 0
      OBVIOUS
    <2>1. \A j \in 1..(k + 1) : q[j] \in B
      OBVIOUS
    <2>2. PrefixProduct(q, k + 1) = PrefixProduct(q, k) \otimes q[k + 1] /\ PrefixProduct(q, k) \in B
      BY <2>1, ProductNext
    <2>3. CASE i = k + 1
      BY <2>2, <2>3 DEF Field
    <2>4. CASE i <= k
      <3>1. PrefixProduct(q, k) = 0
        BY <1>2, <2>4
      <3>2. q[k + 1] \in B
        BY <2>1
      <3>3. 0 \otimes q[k + 1] = 0
        BY <3>2, ZeroLaws
      <3> QED BY <2>2, <3>1, <3>3
    <2> QED BY <2>3, <2>4
  <1> HIDE DEF Q
  <1>3. Nat \subseteq Q
    BY <1>1, <1>2, SetInduction
  <1> QED BY <1>3 DEF Q

LEMMA NoZeroFactor ==
  ASSUME Field, NEW n \in Nat, NEW q, \A j \in 1..n : q[j] \in B /\ q[j] # 0
  PROVE  PrefixProduct(q, n) # 0
  <1> DEFINE Q == {k \in Nat : k <= n => PrefixProduct(q, k) # 0}
  <1>1. 0 \in Q
    BY EmptyProduct
  <1>2. ASSUME NEW k \in Nat, k \in Q PROVE k + 1 \in Q
    <2> SUFFICES ASSUME k + 1 <= n PROVE PrefixProduct(q, k + 1) # 0
      OBVIOUS
    <2>1. \A j \in 1..(k + 1) : q[j] \in B
      OBVIOUS
    <2>2. PrefixProduct(q, k + 1) = PrefixProduct(q, k) \otimes q[k + 1] /\ PrefixProduct(q, k) \in B
      BY <2>1, ProductNext
    <2>3. PrefixProduct(q, k) # 0 /\ q[k + 1] \in B /\ q[k + 1] # 0
      BY <1>2, <2>1
    <2> QED BY <2>2, <2>3, NoZeroDivisors
  <1> HIDE DEF Q
  <1>3. Nat \subseteq Q
    BY <1>1, <1>2, SetInduction
  <1> QED BY <1>3 DEF Q

LEMMA OneTerm ==
  ASSUME Field, NEW n \in Nat, NEW q, \A j \in 1..n : q[j] \in B,
         NEW i \in 1..n, \A j \in 1..n : j # i => q[j] = 0
  PROVE  PrefixSum(q, n) = q[i]
  <1> DEFINE Q == {k \in Nat : k <= n => PrefixSum(q, k) = IF i <= k THEN q[i] ELSE 0}
  <1>1. 0 \in Q
    BY EmptySum
  <1>2. ASSUME NEW k \in Nat, k \in Q PROVE k + 1 \in Q
    <2> SUFFICES ASSUME k + 1 <= n
                 PROVE  PrefixSum(q, k + 1) = IF i <= k + 1 THEN q[i] ELSE 0
      OBVIOUS
    <2>1. \A j \in 1..(k + 1) : q[j] \in B
      OBVIOUS
    <2>2. PrefixSum(q, k + 1) = PrefixSum(q, k) \oplus q[k + 1]
      BY <2>1, SumNext
    <2>3. CASE i = k + 1
      <3>1. PrefixSum(q, k) = 0 /\ q[i] \in B
        BY <1>2, <2>3
      <3>2. 0 \oplus q[i] = q[i]
        BY <3>1, ZeroLaws
      <3> QED BY <2>2, <2>3, <3>1, <3>2
    <2>4. CASE i # k + 1
      <3>1. q[k + 1] = 0 /\ PrefixSum(q, k) \in B
        BY <2>1, <2>4, SumNext
      <3>2. PrefixSum(q, k) \oplus 0 = PrefixSum(q, k)
        BY <3>1 DEF Field
      <3> QED BY <1>2, <2>2, <2>4, <3>1, <3>2
    <2> QED BY <2>3, <2>4
  <1> HIDE DEF Q
  <1>3. Nat \subseteq Q
    BY <1>1, <1>2, SetInduction
  <1> QED BY <1>3 DEF Q

LEMMA EvalIs ==
  ASSUME Field, NEW n \in Nat \ {0}, NEW c \in [1..n -> B], NEW x \in B
  PROVE  \E f \in [0..(n - 1) -> B] :
           /\ f[0] = c[n] /\ \A i \in 1..(n - 1) : f[i] = (f[i - 1] \otimes x) \oplus c[n - i]
           /\ Sh!eval_poly(c, x) = f[n - 1]
  <1>1. Len(c) = n
    BY IsSequence
  <1>2. PICK k \in Nat : k = n - 1
    OBVIOUS
  <1>3. PICK D : D = [y \in (1..k) \X B |-> Add(Multiply(y[2], x), c[n - y[1]])]
    OBVIOUS
  <1>4. D \in [(1..k) \X B -> B]
    <2> SUFFICES ASSUME NEW i \in 1..k, NEW b \in B PROVE Add(Multiply(b, x), c[n - i]) \in B
      BY <1>3
    <2>1. n - i \in 1..n
      BY <1>2
    <2>2. c[n - i] \in B /\ b \otimes x \in B
      BY <2>1 DEF Field
    <2>3. (b \otimes x) \oplus c[n - i] \in B
      BY <2>2 DEF Field
    <2> QED BY <2>3 DEF \otimes, \oplus
  <1>5. c[n] \in B
    OBVIOUS
  <1>6. PICK f : Steps(f, B, c[n], k, D)
    BY <1>4, <1>5, RecursionExists, Zenon
  <1>7. \A i \in 1..k : f[i] = Add(Multiply(f[i - 1], x), c[n - i])
    <2> SUFFICES ASSUME NEW i \in 1..k PROVE f[i] = Add(Multiply(f[i - 1], x), c[n - i])
      OBVIOUS
    <2>1. i - 1 \in 0..k /\ f[i - 1] \in B
      BY <1>6 DEF Steps
    <2>2. D[<<i, f[i - 1]>>] = Add(Multiply(f[i - 1], x), c[n - i])
      BY <1>3, <2>1
    <2> QED BY <1>6, <2>2 DEF Steps
  <1>8. f = [i \in 0..(Len(c) - 1) |->
               IF i = 0 THEN c[Len(c)] ELSE Add(Multiply(f[i - 1], x), c[Len(c) - i])]
    BY <1>1, <1>2, <1>6, <1>7 DEF Steps
  <1>9. PICK h : /\ h = [i \in 0..(Len(c) - 1) |->
                           IF i = 0 THEN c[Len(c)] ELSE Add(Multiply(h[i - 1], x), c[Len(c) - i])]
                 /\ Sh!eval_poly(c, x) = h[Len(c) - 1]
    BY <1>8, Zenon DEF Sh!eval_poly
  <1>10. SameSteps(f, h, k)
    <2>1. h[0] = c[n] /\ \A i \in 1..k : h[i] = Add(Multiply(h[i - 1], x), c[n - i])
      BY <1>1, <1>2, <1>9
    <2> QED BY <1>6, <1>7, <2>1 DEF SameSteps, Steps
  <1>11. f[k] = h[k]
    BY <1>10, StepByStep
  <1>12. f \in [0..(n - 1) -> B] /\ f[0] = c[n] /\ Sh!eval_poly(c, x) = f[n - 1]
    BY <1>1, <1>2, <1>6, <1>9, <1>11 DEF Steps
  <1>13. \A i \in 1..(n - 1) : f[i] = (f[i - 1] \otimes x) \oplus c[n - i]
    BY <1>2, <1>7 DEF \otimes, \oplus
  <1> QED BY <1>12, <1>13

LEMMA EvalOne ==
  ASSUME Field, NEW c \in [1..1 -> B], NEW x \in B
  PROVE  Sh!eval_poly(c, x) = c[1]
  <1>1. PICK n \in Nat \ {0} : n = 1
    OBVIOUS
  <1>2. PICK f \in [0..(n - 1) -> B] : f[0] = c[n] /\ Sh!eval_poly(c, x) = f[n - 1]
    <2>1. c \in [1..n -> B]
      BY <1>1
    <2> QED BY <2>1, EvalIs
  <1> QED BY <1>1, <1>2

(* One coefficient more in front: times x, plus the coefficient.           *)
LEMMA EvalNext ==
  ASSUME Field, NEW n \in Nat \ {0}, NEW x \in B,
         NEW c \in [1..(n + 1) -> B], NEW d \in [1..n -> B], \A j \in 1..n : d[j] = c[j + 1]
  PROVE  /\ Sh!eval_poly(d, x) \in B
         /\ Sh!eval_poly(c, x) = (Sh!eval_poly(d, x) \otimes x) \oplus c[1]
  <1>1. PICK f \in [0..(n - 1) -> B] :
          /\ f[0] = d[n] /\ \A i \in 1..(n - 1) : f[i] = (f[i - 1] \otimes x) \oplus d[n - i]
          /\ Sh!eval_poly(d, x) = f[n - 1]
    BY EvalIs
  <1>2. PICK m \in Nat \ {0} : m = n + 1
    OBVIOUS
  <1>3. c \in [1..m -> B]
    BY <1>2
  <1>4. PICK h \in [0..(m - 1) -> B] :
          /\ h[0] = c[m] /\ \A i \in 1..(m - 1) : h[i] = (h[i - 1] \otimes x) \oplus c[m - i]
          /\ Sh!eval_poly(c, x) = h[m - 1]
    BY <1>3, EvalIs
  <1>5. PICK k \in Nat : k = n - 1
    OBVIOUS
  <1>6. SameSteps(f, h, k)
    <2>1. f[0] = h[0]
      BY <1>1, <1>2, <1>4
    <2>2. \A i \in 1..k : /\ f[i] = (f[i - 1] \otimes x) \oplus d[n - i]
                          /\ h[i] = (h[i - 1] \otimes x) \oplus c[m - i] /\ d[n - i] = c[m - i]
      <3> SUFFICES ASSUME NEW i \in 1..k
                   PROVE  /\ f[i] = (f[i - 1] \otimes x) \oplus d[n - i]
                          /\ h[i] = (h[i - 1] \otimes x) \oplus c[m - i] /\ d[n - i] = c[m - i]
        OBVIOUS
      <3>1. i \in 1..(n - 1) /\ i \in 1..(m - 1) /\ n - i \in 1..n /\ (n - i) + 1 = m - i
        BY <1>2, <1>5
      <3> QED BY <1>1, <1>4, <3>1
    <2> QED BY <2>1, <2>2 DEF SameSteps
  <1>7. f[k] = h[k] /\ f[k] \in B
    <2>1. f[k] = h[k]
      BY <1>6, StepByStep
    <2> QED BY <1>1, <1>5, <2>1
  <1>8. h[n] = (h[n - 1] \otimes x) \oplus c[1]
    <2>1. n \in 1..(m - 1) /\ m - n = 1
      BY <1>2
    <2> QED BY <1>4, <2>1
  <1> QED BY <1>1, <1>2, <1>4, <1>5, <1>7, <1>8

-----------------------------------------------------------------------------
(* The functions that n coefficients give.                                 *)
Curve(c) == [x \in B |-> Sh!eval_poly(c, x)]
Pol(n) == IF n = 0 THEN {[x \in B |-> 0]} ELSE {Curve(c) : c \in [1..n -> B]}
Shifted(g, a) == [x \in B |-> (g[x] \otimes x) \oplus a]

LEMMA CurveNext ==
  ASSUME Field, NEW n \in Nat \ {0},
         NEW c \in [1..(n + 1) -> B], NEW d \in [1..n -> B], \A j \in 1..n : d[j] = c[j + 1]
  PROVE  Curve(d) \in [B -> B] /\ Curve(c) = Shifted(Curve(d), c[1])
  <1>1. ASSUME NEW x \in B
        PROVE  /\ Sh!eval_poly(d, x) \in B
               /\ Sh!eval_poly(c, x) = (Sh!eval_poly(d, x) \otimes x) \oplus c[1]
    BY EvalNext
  <1> QED BY <1>1 DEF Curve, Shifted

LEMMA CurveOne ==
  ASSUME Field, NEW c \in [1..1 -> B]
  PROVE  Curve(c) = Shifted([x \in B |-> 0], c[1])
  <1>1. ASSUME NEW x \in B PROVE Sh!eval_poly(c, x) = (0 \otimes x) \oplus c[1]
    <2>1. Sh!eval_poly(c, x) = c[1] /\ c[1] \in B
      BY EvalOne
    <2> QED BY <2>1, ZeroLaws
  <1> QED BY <1>1 DEF Curve, Shifted

LEMMA PolNext ==
  ASSUME Field, NEW n \in Nat
  PROVE  Pol(n + 1) = {Shifted(y[1], y[2]) : y \in Pol(n) \X B}
  <1>1. ASSUME NEW c \in [1..(n + 1) -> B]
        PROVE  \E g \in Pol(n), a \in B : Curve(c) = Shifted(g, a)
    <2>1. CASE n = 0
      <3>1. c \in [1..1 -> B] /\ c[1] \in B
        BY <2>1
      <3> QED BY <2>1, <3>1, CurveOne DEF Pol
    <2>2. CASE n # 0
      <3>1. PICK d : d = [j \in 1..n |-> c[j + 1]]
        OBVIOUS
      <3>2. d \in [1..n -> B] /\ \A j \in 1..n : d[j] = c[j + 1]
        BY <3>1
      <3>3. n \in Nat \ {0} /\ c[1] \in B
        BY <2>2
      <3>4. Curve(c) = Shifted(Curve(d), c[1])
        BY <3>2, <3>3, CurveNext
      <3>5. Curve(d) \in Pol(n)
        BY <2>2, <3>2 DEF Pol
      <3> QED BY <3>3, <3>4, <3>5
    <2> QED BY <2>1, <2>2
  <1>2. ASSUME NEW g \in Pol(n), NEW a \in B
        PROVE  \E c \in [1..(n + 1) -> B] : Shifted(g, a) = Curve(c)
    <2>1. CASE n = 0
      <3>1. PICK c : c = [j \in 1..1 |-> a]
        OBVIOUS
      <3>2. c \in [1..1 -> B] /\ c[1] = a
        BY <3>1
      <3>3. Curve(c) = Shifted([x \in B |-> 0], a)
        BY <3>2, CurveOne
      <3>4. g = [x \in B |-> 0]
        BY <2>1 DEF Pol
      <3> QED BY <2>1, <3>2, <3>3, <3>4
    <2>2. CASE n # 0
      <3>1. PICK d \in [1..n -> B] : g = Curve(d)
        BY <2>2 DEF Pol
      <3>2. PICK c : c = [j \in 1..(n + 1) |-> IF j = 1 THEN a ELSE d[j - 1]]
        OBVIOUS
      <3>3. c \in [1..(n + 1) -> B] /\ c[1] = a /\ \A j \in 1..n : d[j] = c[j + 1]
        BY <3>2
      <3>4. n \in Nat \ {0}
        BY <2>2
      <3>5. Curve(c) = Shifted(Curve(d), c[1])
        BY <3>3, <3>4, CurveNext
      <3> QED BY <3>1, <3>3, <3>5
    <2> QED BY <2>1, <2>2
  <1>3. Pol(n + 1) = {Curve(c) : c \in [1..(n + 1) -> B]}
    BY DEF Pol
  <1>4. PICK Q : Q = {Shifted(y[1], y[2]) : y \in Pol(n) \X B}
    OBVIOUS
  <1>5. ASSUME NEW f \in Pol(n + 1) PROVE f \in Q
    <2>1. PICK g \in Pol(n), a \in B : f = Shifted(g, a)
      BY <1>1, <1>3
    <2>2. PICK y \in Pol(n) \X B : y[1] = g /\ y[2] = a
      <3>1. <<g, a>> \in Pol(n) \X B /\ <<g, a>>[1] = g /\ <<g, a>>[2] = a
        OBVIOUS
      <3> QED BY <3>1, Zenon
    <2>3. f = Shifted(y[1], y[2])
      BY <2>1, <2>2
    <2> QED BY <1>4, <2>3, Zenon
  <1>6. ASSUME NEW f \in Q PROVE f \in Pol(n + 1)
    <2>1. PICK g \in Pol(n), a \in B : f = Shifted(g, a)
      BY <1>4
    <2> QED BY <1>2, <1>3, <2>1
  <1> QED BY <1>4, <1>5, <1>6

LEMMA PolZero == Pol(0) = {[x \in B |-> 0]}
  BY DEF Pol

LEMMA PolType ==
  ASSUME Field, NEW n \in Nat
  PROVE  Pol(n) \subseteq [B -> B]
  <1> DEFINE Q == {k \in Nat : Pol(k) \subseteq [B -> B]}
  <1>1. 0 \in Q
    BY PolZero DEF Field
  <1>2. ASSUME NEW k \in Nat, k \in Q PROVE k + 1 \in Q
    <2> SUFFICES ASSUME NEW g \in Pol(k), NEW a \in B PROVE Shifted(g, a) \in [B -> B]
      BY PolNext
    <2>1. g \in [B -> B]
      BY <1>2
    <2>2. ASSUME NEW x \in B PROVE (g[x] \otimes x) \oplus a \in B
      <3>1. g[x] \otimes x \in B
        BY <2>1 DEF Field
      <3> QED BY <3>1 DEF Field
    <2> QED BY <2>2 DEF Shifted
  <1> HIDE DEF Q
  <1>3. Nat \subseteq Q
    BY <1>1, <1>2, SetInduction
  <1> QED BY <1>3 DEF Q

LEMMA Closed ==
  ASSUME Field, NEW a \in B, NEW b \in B
  PROVE  a \oplus b \in B /\ a \otimes b \in B
  BY DEF Field

LEMMA Spread ==
  ASSUME Field, NEW a \in B, NEW b \in B, NEW c \in B
  PROVE  /\ (a \oplus b) \otimes c = (a \otimes c) \oplus (b \otimes c)
         /\ a \otimes (b \oplus c) = (a \otimes b) \oplus (a \otimes c)
         /\ (a \otimes b) \otimes c = (a \otimes c) \otimes b
  <1>1. (a \oplus b) \otimes c = (a \otimes c) \oplus (b \otimes c)
    BY DEF Field
  <1>2. (b \oplus c) \otimes a = (b \otimes a) \oplus (c \otimes a)
    BY DEF Field
  <1>3. b \oplus c \in B
    BY Closed
  <1>4. a \otimes (b \oplus c) = (b \oplus c) \otimes a /\ b \otimes a = a \otimes b /\ c \otimes a = a \otimes c
    BY <1>3 DEF Field
  <1>5. (a \otimes b) \otimes c = a \otimes (b \otimes c) /\ (a \otimes c) \otimes b = a \otimes (c \otimes b)
    BY DEF Field
  <1>6. b \otimes c = c \otimes b
    BY DEF Field
  <1> QED BY <1>1, <1>2, <1>4, <1>5, <1>6

LEMMA PolStep ==
  ASSUME Field, NEW n \in Nat
  PROVE  /\ \A g \in Pol(n), a \in B : Shifted(g, a) \in Pol(n + 1)
         /\ \A f \in Pol(n + 1) : \E g \in Pol(n), a \in B : f = Shifted(g, a)
  <1>1. Pol(n + 1) = {Shifted(y[1], y[2]) : y \in Pol(n) \X B}
    BY PolNext
  <1>2. ASSUME NEW g \in Pol(n), NEW a \in B PROVE Shifted(g, a) \in Pol(n + 1)
    <2>1. PICK y \in Pol(n) \X B : y[1] = g /\ y[2] = a
      <3>1. <<g, a>> \in Pol(n) \X B /\ <<g, a>>[1] = g /\ <<g, a>>[2] = a
        OBVIOUS
      <3> QED BY <3>1, Zenon
    <2>2. Shifted(g, a) = Shifted(y[1], y[2])
      BY <2>1
    <2> QED BY <1>1, <2>2, Zenon
  <1>3. ASSUME NEW f \in Pol(n + 1) PROVE \E g \in Pol(n), a \in B : f = Shifted(g, a)
    <2>1. PICK y \in Pol(n) \X B : f = Shifted(y[1], y[2])
      BY <1>1, Zenon
    <2>2. y[1] \in Pol(n) /\ y[2] \in B
      OBVIOUS
    <2> QED BY <2>1, <2>2, Zenon
  <1> QED BY <1>2, <1>3

Added(f, g) == [x \in B |-> f[x] \oplus g[x]]
Scaled(f, a) == [x \in B |-> f[x] \otimes a]
Rooted(f, a) == [x \in B |-> f[x] \otimes (x \oplus a)]

LEMMA PolMore ==
  ASSUME Field, NEW n \in Nat
  PROVE  Pol(n) \subseteq Pol(n + 1)
  <1> DEFINE Q == {k \in Nat : Pol(k) \subseteq Pol(k + 1)}
  <1>1. 0 \in Q
    <2>1. PICK z : z = [x \in B |-> 0]
      OBVIOUS
    <2>2. z = Shifted(z, 0)
      <3>1. ASSUME NEW x \in B PROVE (z[x] \otimes x) \oplus 0 = 0
        <4>1. z[x] = 0 /\ 0 \otimes x = 0 /\ 0 \in B
          BY <2>1, ZeroLaws DEF Field
        <4> QED BY <4>1, ZeroLaws
      <3> QED BY <2>1, <3>1 DEF Shifted
    <2>3. z \in Pol(0) /\ 0 \in B
      BY <2>1, PolZero DEF Field
    <2>4. z \in Pol(0 + 1)
      BY <2>2, <2>3, PolStep
    <2> QED BY <2>1, <2>4, PolZero
  <1>2. ASSUME NEW k \in Nat, k \in Q PROVE k + 1 \in Q
    <2>1. PICK j \in Nat : j = k + 1
      OBVIOUS
    <2>2. ASSUME NEW f \in Pol(j) PROVE f \in Pol(j + 1)
      <3>1. PICK g \in Pol(k), a \in B : f = Shifted(g, a)
        BY <2>1, <2>2, PolStep
      <3>2. g \in Pol(j)
        BY <1>2, <2>1
      <3> QED BY <3>1, <3>2, PolStep
    <2> QED BY <2>1, <2>2
  <1> HIDE DEF Q
  <1>3. Nat \subseteq Q
    BY <1>1, <1>2, SetInduction
  <1> QED BY <1>3 DEF Q

LEMMA PolMonotone ==
  ASSUME Field, NEW n \in Nat, NEW m \in Nat, m <= n
  PROVE  Pol(m) \subseteq Pol(n)
  <1> DEFINE Q == {k \in Nat : m <= k => Pol(m) \subseteq Pol(k)}
  <1>1. 0 \in Q
    OBVIOUS
  <1>2. ASSUME NEW k \in Nat, k \in Q PROVE k + 1 \in Q
    <2>1. Pol(k) \subseteq Pol(k + 1)
      BY PolMore
    <2> QED BY <1>2, <2>1
  <1> HIDE DEF Q
  <1>3. Nat \subseteq Q
    BY <1>1, <1>2, SetInduction
  <1> QED BY <1>3 DEF Q

LEMMA PolAdded ==
  ASSUME Field, NEW n \in Nat
  PROVE  \A f, g \in Pol(n) : Added(f, g) \in Pol(n)
  <1> DEFINE Q == {k \in Nat : \A f, g \in Pol(k) : Added(f, g) \in Pol(k)}
  <1>1. 0 \in Q
    <2>1. PICK z : z = [x \in B |-> 0]
      OBVIOUS
    <2>2. Added(z, z) = z
      <3>1. 0 \oplus 0 = 0
        BY DEF Field
      <3> QED BY <2>1, <3>1 DEF Added
    <2> QED BY <2>1, <2>2, PolZero
  <1>2. ASSUME NEW k \in Nat, k \in Q PROVE k + 1 \in Q
    <2>1. ASSUME NEW f \in Pol(k + 1), NEW g \in Pol(k + 1) PROVE Added(f, g) \in Pol(k + 1)
      <3>1. PICK p \in Pol(k), a \in B : f = Shifted(p, a)
        BY PolStep
      <3>2. PICK q \in Pol(k), b \in B : g = Shifted(q, b)
        BY PolStep
      <3>3. Added(p, q) \in Pol(k) /\ a \oplus b \in B
        BY <1>2, Closed
      <3>4. Added(f, g) = Shifted(Added(p, q), a \oplus b)
        <4>1. ASSUME NEW x \in B
              PROVE  ((p[x] \otimes x) \oplus a) \oplus ((q[x] \otimes x) \oplus b)
                       = ((p[x] \oplus q[x]) \otimes x) \oplus (a \oplus b)
          <5>1. p[x] \in B /\ q[x] \in B
            BY PolType
          <5>2. p[x] \otimes x \in B /\ q[x] \otimes x \in B
            BY <5>1, Closed
          <5>3. (p[x] \oplus q[x]) \otimes x = (p[x] \otimes x) \oplus (q[x] \otimes x)
            BY <5>1, Spread
          <5> QED BY <5>2, <5>3, FourSum
        <4> QED BY <3>1, <3>2, <4>1 DEF Added, Shifted
      <3> QED BY <3>3, <3>4, PolStep
    <2> QED BY <2>1
  <1> HIDE DEF Q
  <1>3. Nat \subseteq Q
    BY <1>1, <1>2, SetInduction
  <1> QED BY <1>3 DEF Q

LEMMA PolScaled ==
  ASSUME Field, NEW n \in Nat, NEW c \in B
  PROVE  \A f \in Pol(n) : Scaled(f, c) \in Pol(n)
  <1> DEFINE Q == {k \in Nat : \A f \in Pol(k) : Scaled(f, c) \in Pol(k)}
  <1>1. 0 \in Q
    <2>1. PICK z : z = [x \in B |-> 0]
      OBVIOUS
    <2>2. Scaled(z, c) = z
      <3>1. 0 \otimes c = 0
        BY ZeroLaws
      <3> QED BY <2>1, <3>1 DEF Scaled
    <2> QED BY <2>1, <2>2, PolZero
  <1>2. ASSUME NEW k \in Nat, k \in Q PROVE k + 1 \in Q
    <2>1. ASSUME NEW f \in Pol(k + 1) PROVE Scaled(f, c) \in Pol(k + 1)
      <3>1. PICK p \in Pol(k), a \in B : f = Shifted(p, a)
        BY PolStep
      <3>2. Scaled(p, c) \in Pol(k) /\ a \otimes c \in B
        BY <1>2, Closed
      <3>3. Scaled(f, c) = Shifted(Scaled(p, c), a \otimes c)
        <4>1. ASSUME NEW x \in B
              PROVE  ((p[x] \otimes x) \oplus a) \otimes c = ((p[x] \otimes c) \otimes x) \oplus (a \otimes c)
          <5>1. p[x] \in B
            BY PolType
          <5>2. p[x] \otimes x \in B
            BY <5>1, Closed
          <5>3. ((p[x] \otimes x) \oplus a) \otimes c = ((p[x] \otimes x) \otimes c) \oplus (a \otimes c)
            BY <5>2, Spread
          <5>4. (p[x] \otimes x) \otimes c = (p[x] \otimes c) \otimes x
            BY <5>1, Spread
          <5> QED BY <5>3, <5>4
        <4> QED BY <3>1, <4>1 DEF Scaled, Shifted
      <3> QED BY <3>2, <3>3, PolStep
    <2> QED BY <2>1
  <1> HIDE DEF Q
  <1>3. Nat \subseteq Q
    BY <1>1, <1>2, SetInduction
  <1> QED BY <1>3 DEF Q

LEMMA PolRooted ==
  ASSUME Field, NEW n \in Nat, NEW a \in B, NEW f \in Pol(n)
  PROVE  Rooted(f, a) \in Pol(n + 1)
  <1>1. 0 \in B
    BY DEF Field
  <1>2. Shifted(f, 0) \in Pol(n + 1) /\ Scaled(f, a) \in Pol(n + 1)
    BY <1>1, PolStep, PolScaled, PolMore
  <1>3. Rooted(f, a) = Added(Shifted(f, 0), Scaled(f, a))
    <2>1. ASSUME NEW x \in B
          PROVE  f[x] \otimes (x \oplus a) = ((f[x] \otimes x) \oplus 0) \oplus (f[x] \otimes a)
      <3>1. f[x] \in B
        BY PolType
      <3>2. f[x] \otimes (x \oplus a) = (f[x] \otimes x) \oplus (f[x] \otimes a)
        BY <3>1, Spread
      <3>3. f[x] \otimes x \in B
        BY <3>1, Closed
      <3>4. (f[x] \otimes x) \oplus 0 = f[x] \otimes x
        BY <3>3 DEF Field
      <3> QED BY <3>2, <3>4
    <2> QED BY <2>1 DEF Rooted, Added, Shifted, Scaled
  <1>4. n + 1 \in Nat
    OBVIOUS
  <1> QED BY <1>2, <1>3, <1>4, PolAdded

LEMMA DivisionStep ==
  ASSUME Field, NEW p \in B, NEW s \in B, NEW x \in B, NEW a \in B, NEW c \in B
  PROVE  (((p \otimes x) \oplus s) \otimes (x \oplus a)) \oplus ((s \otimes a) \oplus c)
           = (((p \otimes (x \oplus a)) \oplus s) \otimes x) \oplus c
  <1>1. PICK r \in B : r = x \oplus a
    BY Closed
  <1>2. PICK u \in B, sx \in B, sa \in B :
          u = (p \otimes x) \otimes r /\ sx = s \otimes x /\ sa = s \otimes a
    <2>1. p \otimes x \in B
      BY Closed
    <2> QED BY <2>1, Closed
  <1>3. ((p \otimes x) \oplus s) \otimes r = u \oplus (sx \oplus sa)
    <2>1. ((p \otimes x) \oplus s) \otimes r = u \oplus (s \otimes r)
      <3>1. p \otimes x \in B
        BY Closed
      <3> QED BY <1>2, <3>1, Spread
    <2>2. s \otimes r = sx \oplus sa
      BY <1>1, <1>2, Spread
    <2> QED BY <2>1, <2>2
  <1>4. (((p \otimes r) \oplus s) \otimes x) = u \oplus sx
    <2>1. p \otimes r \in B
      BY Closed
    <2>2. ((p \otimes r) \oplus s) \otimes x = ((p \otimes r) \otimes x) \oplus sx
      BY <1>2, <2>1, Spread
    <2>3. (p \otimes r) \otimes x = u
      BY <1>2, Spread
    <2> QED BY <2>2, <2>3
  <1>5. (u \oplus (sx \oplus sa)) \oplus (sa \oplus c) = (u \oplus sx) \oplus c
    <2>1. u \oplus (sx \oplus sa) = (u \oplus sx) \oplus sa
      BY DEF Field
    <2>2. u \oplus sx \in B /\ sa \oplus c \in B
      BY Closed
    <2>3. ((u \oplus sx) \oplus sa) \oplus (sa \oplus c) = (u \oplus sx) \oplus (sa \oplus (sa \oplus c))
      BY <2>2 DEF Field
    <2>4. sa \oplus (sa \oplus c) = (sa \oplus sa) \oplus c /\ sa \oplus sa = 0
      BY DEF Field
    <2>5. 0 \oplus c = c
      BY ZeroLaws
    <2> QED BY <2>1, <2>3, <2>4, <2>5
  <1>6. ((p \otimes x) \oplus s) \otimes (x \oplus a) = u \oplus (sx \oplus sa)
    BY <1>1, <1>3
  <1>7. ((p \otimes (x \oplus a)) \oplus s) \otimes x = u \oplus sx
    BY <1>1, <1>4
  <1>8. (s \otimes a) \oplus c = sa \oplus c
    BY <1>2
  <1> QED BY <1>5, <1>6, <1>7, <1>8

(* f divided by the linear function that is 0 at a.                        *)
LEMMA PolDivided ==
  ASSUME Field, NEW n \in Nat, NEW a \in B
  PROVE  \A f \in Pol(n + 1) : \E q \in Pol(n) :
           \A x \in B : f[x] = (q[x] \otimes (x \oplus a)) \oplus f[a]
  <1> DEFINE Divides(f, q) == \A x \in B : f[x] = (q[x] \otimes (x \oplus a)) \oplus f[a]
             Q == {k \in Nat : \A f \in Pol(k + 1) : \E q \in Pol(k) : Divides(f, q)}
  <1>1. 0 \in Q
    <2>1. PICK z : z = [x \in B |-> 0]
      OBVIOUS
    <2>2. z \in Pol(0)
      BY <2>1, PolZero
    <2>3. ASSUME NEW f \in Pol(0 + 1) PROVE Divides(f, z)
      <3>1. PICK g \in Pol(0), c \in B : f = Shifted(g, c)
        BY <2>3, PolStep
      <3>2. g = z
        BY <2>1, PolZero
      <3>3. \A x \in B : f[x] = c
        <4> SUFFICES ASSUME NEW x \in B PROVE f[x] = c
          OBVIOUS
        <4>1. f[x] = (z[x] \otimes x) \oplus c
          BY <3>1, <3>2 DEF Shifted
        <4>2. z[x] = 0 /\ 0 \otimes x = 0 /\ 0 \oplus c = c
          BY <2>1, ZeroLaws
        <4> QED BY <4>1, <4>2
      <3>4. ASSUME NEW x \in B PROVE (z[x] \otimes (x \oplus a)) \oplus c = c
        <4>1. x \oplus a \in B
          BY Closed
        <4>2. z[x] = 0 /\ 0 \otimes (x \oplus a) = 0 /\ 0 \oplus c = c
          BY <2>1, <4>1, ZeroLaws
        <4> QED BY <4>2
      <3> QED BY <3>3, <3>4
    <2> HIDE DEF Divides
    <2> QED BY <2>2, <2>3
  <1>2. ASSUME NEW k \in Nat, k \in Q PROVE k + 1 \in Q
    <2>1. PICK j \in Nat : j = k + 1
      OBVIOUS
    <2>2. ASSUME NEW f \in Pol(j + 1) PROVE \E q \in Pol(j) : Divides(f, q)
      <3>1. PICK g \in Pol(j), c \in B : f = Shifted(g, c)
        BY <2>2, PolStep
      <3>2. PICK p \in Pol(k) : Divides(g, p)
        BY <1>2, <2>1
      <3>3. g[a] \in B
        BY PolType
      <3>4. PICK q : q = Shifted(p, g[a])
        OBVIOUS
      <3>5. q \in Pol(j)
        BY <2>1, <3>3, <3>4, PolStep
      <3>6. ASSUME NEW x \in B PROVE f[x] = (q[x] \otimes (x \oplus a)) \oplus f[a]
        <4>1. p[x] \in B
          BY PolType
        <4>2. f[x] = (g[x] \otimes x) \oplus c /\ f[a] = (g[a] \otimes a) \oplus c
          BY <3>1 DEF Shifted
        <4>3. g[x] = (p[x] \otimes (x \oplus a)) \oplus g[a]
          BY <3>2
        <4>4. q[x] = (p[x] \otimes x) \oplus g[a]
          BY <3>4 DEF Shifted
        <4>5. (((p[x] \otimes x) \oplus g[a]) \otimes (x \oplus a)) \oplus ((g[a] \otimes a) \oplus c)
                = (((p[x] \otimes (x \oplus a)) \oplus g[a]) \otimes x) \oplus c
          BY <3>3, <4>1, DivisionStep
        <4> QED BY <4>2, <4>3, <4>4, <4>5
      <3> QED BY <3>5, <3>6
    <2> HIDE DEF Divides
    <2> QED BY <2>1, <2>2
  <1> HIDE DEF Q
  <1>3. Nat \subseteq Q
    BY <1>1, <1>2, SetInduction
  <1> QED BY <1>3 DEF Q

(* n coefficients and n roots make nothing but 0.                          *)
Roots(f, xs, n) ==
  \A i \in 1..n : xs[i] \in B /\ f[xs[i]] = 0 /\ \A j \in 1..n : xs[i] = xs[j] => i = j

LEMMA TooManyRoots ==
  ASSUME Field, NEW n \in Nat, NEW xs
  PROVE  \A f \in Pol(n) : Roots(f, xs, n) => \A x \in B : f[x] = 0
  <1> DEFINE Q == {k \in Nat : \A f \in Pol(k) : Roots(f, xs, k) => \A x \in B : f[x] = 0}
  <1>1. 0 \in Q
    BY PolZero
  <1>2. ASSUME NEW k \in Nat, k \in Q PROVE k + 1 \in Q
    <2> SUFFICES ASSUME NEW f \in Pol(k + 1), Roots(f, xs, k + 1), NEW x \in B PROVE f[x] = 0
      OBVIOUS
    <2>1. PICK a : a = xs[k + 1]
      OBVIOUS
    <2>2. k + 1 \in 1..(k + 1) /\ \A i \in 1..k : i \in 1..(k + 1) /\ i # k + 1
      OBVIOUS
    <2>3. a \in B /\ f[a] = 0
      BY <2>1, <2>2 DEF Roots
    <2>4. PICK q \in Pol(k) : \A y \in B : f[y] = (q[y] \otimes (y \oplus a)) \oplus f[a]
      BY <2>3, PolDivided
    <2>5. \A y \in B : q[y] \in B /\ y \oplus a \in B /\ f[y] = q[y] \otimes (y \oplus a)
      <3> SUFFICES ASSUME NEW y \in B
                   PROVE  q[y] \in B /\ y \oplus a \in B /\ f[y] = q[y] \otimes (y \oplus a)
        OBVIOUS
      <3>1. q[y] \in B
        BY PolType
      <3>2. y \oplus a \in B
        BY <2>3, Closed
      <3>3. q[y] \otimes (y \oplus a) \in B
        BY <3>1, <3>2, Closed
      <3>4. (q[y] \otimes (y \oplus a)) \oplus 0 = q[y] \otimes (y \oplus a)
        BY <3>3 DEF Field
      <3> QED BY <2>3, <2>4, <3>1, <3>2, <3>4
    <2>6. Roots(q, xs, k)
      <3> SUFFICES ASSUME NEW i \in 1..k
                   PROVE  xs[i] \in B /\ q[xs[i]] = 0 /\ \A j \in 1..k : xs[i] = xs[j] => i = j
        BY DEF Roots
      <3>1. xs[i] \in B /\ f[xs[i]] = 0 /\ xs[i] # a /\ \A j \in 1..k : xs[i] = xs[j] => i = j
        BY <2>1, <2>2 DEF Roots
      <3>2. PICK y \in B : y = xs[i]
        BY <3>1
      <3>3. y \oplus a # 0
        BY <2>3, <3>1, <3>2, Cancel
      <3>4. q[y] \in B /\ y \oplus a \in B /\ q[y] \otimes (y \oplus a) = 0
        BY <2>5, <3>1, <3>2
      <3>5. (y \oplus a) \otimes q[y] = 0
        BY <3>4 DEF Field
      <3>6. q[y] = 0
        BY <3>3, <3>4, <3>5, NoZeroDivisors
      <3> QED BY <3>1, <3>2, <3>6
    <2>7. q[x] = 0
      BY <1>2, <2>6
    <2>8. 0 \otimes (x \oplus a) = 0
      BY <2>5, ZeroLaws
    <2> QED BY <2>5, <2>7, <2>8
  <1> HIDE DEF Q
  <1>3. Nat \subseteq Q
    BY <1>1, <1>2, SetInduction
  <1> QED BY <1>3 DEF Q

-----------------------------------------------------------------------------
(* Products of linear functions and sums of functions.                     *)
LEMMA PolProduct ==
  ASSUME Field, NEW n \in Nat, NEW c, \A j \in 1..n : c[j] \in B,
         NEW q, \A z \in B, j \in 1..n : q[z][j] = z \oplus c[j]
  PROVE  [z \in B |-> PrefixProduct(q[z], n)] \in Pol(n + 1)
  <1> DEFINE P(k) == [z \in B |-> PrefixProduct(q[z], k)]
             Q == {k \in Nat : k <= n => P(k) \in Pol(k + 1)}
  <1>1. 0 \in Q
    <2>1. PICK o : o = [x \in B |-> 0]
      OBVIOUS
    <2>2. o \in Pol(0) /\ 1 \in B
      BY <2>1, PolZero DEF Field
    <2>3. Shifted(o, 1) \in Pol(0 + 1)
      BY <2>2, PolStep
    <2>4. P(0) = Shifted(o, 1)
      <3>1. ASSUME NEW z \in B PROVE PrefixProduct(q[z], 0) = (o[z] \otimes z) \oplus 1
        <4>1. o[z] = 0 /\ 0 \otimes z = 0 /\ 0 \oplus 1 = 1
          BY <2>1, <2>2, ZeroLaws
        <4> QED BY <4>1, EmptyProduct
      <3> QED BY <3>1 DEF Shifted
    <2> QED BY <2>3, <2>4
  <1>2. ASSUME NEW k \in Nat, k \in Q PROVE k + 1 \in Q
    <2> SUFFICES ASSUME k + 1 <= n PROVE P(k + 1) \in Pol((k + 1) + 1)
      OBVIOUS
    <2>1. PICK m \in Nat : m = k + 1
      OBVIOUS
    <2>2. P(k) \in Pol(m) /\ c[m] \in B
      BY <1>2, <2>1
    <2>3. Rooted(P(k), c[m]) \in Pol(m + 1)
      BY <2>1, <2>2, PolRooted
    <2>4. P(m) = Rooted(P(k), c[m])
      <3>1. ASSUME NEW z \in B
            PROVE  PrefixProduct(q[z], m) = PrefixProduct(q[z], k) \otimes (z \oplus c[m])
        <4>1. \A j \in 1..(k + 1) : q[z][j] \in B
          <5> SUFFICES ASSUME NEW j \in 1..(k + 1) PROVE q[z][j] \in B
            OBVIOUS
          <5>1. j \in 1..n
            OBVIOUS
          <5>2. q[z][j] = z \oplus c[j] /\ c[j] \in B
            BY <5>1
          <5> QED BY <5>2, Closed
        <4>2. PrefixProduct(q[z], k + 1) = PrefixProduct(q[z], k) \otimes q[z][k + 1]
          BY <4>1, ProductNext
        <4>3. m \in 1..n
          BY <2>1
        <4> QED BY <2>1, <4>2, <4>3
      <3> QED BY <3>1 DEF Rooted
    <2> QED BY <2>1, <2>3, <2>4
  <1> HIDE DEF Q
  <1>3. Nat \subseteq Q
    BY <1>1, <1>2, SetInduction
  <1> QED BY <1>3 DEF Q

LEMMA PolSum ==
  ASSUME Field, NEW m \in Nat, NEW n \in Nat, NEW fs, \A j \in 1..n : fs[j] \in Pol(m),
         NEW q, \A z \in B, j \in 1..n : q[z][j] = fs[j][z]
  PROVE  [z \in B |-> PrefixSum(q[z], n)] \in Pol(m)
  <1> DEFINE P(k) == [z \in B |-> PrefixSum(q[z], k)]
             Q == {k \in Nat : k <= n => P(k) \in Pol(m)}
  <1>1. 0 \in Q
    <2>1. P(0) = [z \in B |-> 0]
      BY EmptySum
    <2>2. P(0) \in Pol(0)
      BY <2>1, PolZero
    <2>3. Pol(0) \subseteq Pol(m)
      BY PolMonotone
    <2> QED BY <2>2, <2>3
  <1>2. ASSUME NEW k \in Nat, k \in Q PROVE k + 1 \in Q
    <2> SUFFICES ASSUME k + 1 <= n PROVE P(k + 1) \in Pol(m)
      OBVIOUS
    <2>1. P(k) \in Pol(m) /\ fs[k + 1] \in Pol(m)
      BY <1>2
    <2>2. Added(P(k), fs[k + 1]) \in Pol(m)
      BY <2>1, PolAdded
    <2>3. P(k + 1) = Added(P(k), fs[k + 1])
      <3>1. ASSUME NEW z \in B
            PROVE  PrefixSum(q[z], k + 1) = PrefixSum(q[z], k) \oplus fs[k + 1][z]
        <4>1. \A j \in 1..(k + 1) : q[z][j] \in B
          <5> SUFFICES ASSUME NEW j \in 1..(k + 1) PROVE q[z][j] \in B
            OBVIOUS
          <5>1. j \in 1..n
            OBVIOUS
          <5>2. q[z][j] = fs[j][z] /\ fs[j] \in Pol(m)
            BY <5>1
          <5>3. fs[j] \in [B -> B]
            BY <5>2, PolType
          <5> QED BY <5>2, <5>3
        <4>2. PrefixSum(q[z], k + 1) = PrefixSum(q[z], k) \oplus q[z][k + 1]
          BY <4>1, SumNext
        <4>3. k + 1 \in 1..n
          OBVIOUS
        <4> QED BY <4>2, <4>3
      <3> QED BY <3>1 DEF Added
    <2> QED BY <2>2, <2>3
  <1> HIDE DEF Q
  <1>3. Nat \subseteq Q
    BY <1>1, <1>2, SetInduction
  <1> QED BY <1>3 DEF Q

Points(xs, n) == xs \in [1..n -> B] /\ \A i, j \in 1..n : xs[i] = xs[j] => i = j

LEMMA WholeProduct ==
  ASSUME NEW n \in Nat, NEW q \in [1..n -> B]
  PROVE  Sh!Product(q) = PrefixProduct(q, n) /\ Sh!Sum(q) = PrefixSum(q, n)
  <1>1. q = [j \in 1..n |-> q[j]]
    OBVIOUS
  <1> QED BY <1>1 DEF PrefixProduct, PrefixSum

(* o are the n points but the i-th.                                        *)
Without(o, xs, i, n) ==
  /\ o \in [1..(n - 1) -> B] /\ Len(o) = n - 1
  /\ \A t \in 1..(n - 1) : o[t] # xs[i]
  /\ \A j \in 1..n : j # i => \E t \in 1..(n - 1) : o[t] = xs[j]

LEMMA OthersAre ==
  ASSUME Field, NEW n \in Nat \ {0}, NEW xs, Points(xs, n), NEW i \in 1..n
  PROVE  Without(Sh!Others(xs, i), xs, i, n)
  <1>1. PICK k \in Nat : k = n - 1
    OBVIOUS
  <1>2. Len(xs) = n /\ xs \in [1..n -> B] /\ \A j, t \in 1..n : xs[j] = xs[t] => j = t
    BY IsSequence DEF Points
  <1>3. PICK o : o = Sh!Others(xs, i)
    OBVIOUS
  <1>4. o = [t \in 1..k |-> IF t < i THEN xs[t] ELSE xs[t + 1]]
    BY <1>1, <1>2, <1>3 DEF Sh!Others
  <1>5. o \in [1..k -> B] /\ \A t \in 1..k : o[t] # xs[i]
    <2> SUFFICES ASSUME NEW t \in 1..k
                 PROVE  LET b == IF t < i THEN xs[t] ELSE xs[t + 1] IN b \in B /\ b # xs[i]
      BY <1>4
    <2>1. t \in 1..n /\ t + 1 \in 1..n
      BY <1>1
    <2> QED BY <1>2, <2>1
  <1>6. Len(o) = k
    BY <1>5, IsSequence
  <1>7. ASSUME NEW j \in 1..n, j # i PROVE \E t \in 1..k : o[t] = xs[j]
    <2>1. CASE j < i
      <3>1. j \in 1..k
        BY <1>1, <2>1
      <3> QED BY <1>4, <2>1, <3>1
    <2>2. CASE j > i
      <3>1. j - 1 \in 1..k /\ ~(j - 1 < i) /\ (j - 1) + 1 = j
        BY <1>1, <2>2
      <3> QED BY <1>4, <3>1
    <2> QED BY <1>7, <2>1, <2>2
  <1> QED BY <1>1, <1>3, <1>5, <1>6, <1>7 DEF Without

(* The function that is 1 at the point i and 0 at the others.              *)
Bump(xs, i) ==
  [z \in B |-> Sh!Product(Sh!Distances(z, Sh!Others(xs, i)))
                 \otimes Invert(Sh!Product(Sh!Distances(xs[i], Sh!Others(xs, i))))]

LEMMA BumpIs ==
  ASSUME Field, NEW n \in Nat \ {0}, NEW xs, Points(xs, n), NEW i \in 1..n
  PROVE  /\ Bump(xs, i) \in Pol(n) /\ Bump(xs, i)[xs[i]] = 1
         /\ \A j \in 1..n : j # i => Bump(xs, i)[xs[j]] = 0
         /\ Bump(xs, i)[0] = Sh!Lagrange(xs[i], Sh!Others(xs, i))
  <1>1. PICK k \in Nat : k = n - 1
    OBVIOUS
  <1>2. xs \in [1..n -> B] /\ xs[i] \in B
    BY DEF Points
  <1>3. PICK o : o = Sh!Others(xs, i)
    OBVIOUS
  <1>4. /\ o \in [1..k -> B] /\ Len(o) = k /\ \A t \in 1..k : o[t] # xs[i]
        /\ \A j \in 1..n : j # i => \E t \in 1..k : o[t] = xs[j]
    <2>1. Without(o, xs, i, n)
      BY <1>3, OthersAre
    <2> QED BY <1>1, <2>1 DEF Without
  <1>5. PICK d : d = [z \in B |-> [t \in 1..k |-> z \oplus o[t]]]
    OBVIOUS
  <1>6. \A z \in B : d[z] \in [1..k -> B] /\ \A t \in 1..k : d[z][t] = z \oplus o[t]
    <2> SUFFICES ASSUME NEW z \in B
                 PROVE  d[z] \in [1..k -> B] /\ \A t \in 1..k : d[z][t] = z \oplus o[t]
      OBVIOUS
    <2>1. d[z] = [t \in 1..k |-> z \oplus o[t]]
      BY <1>5
    <2>2. \A t \in 1..k : z \oplus o[t] \in B
      BY <1>4, Closed
    <2> QED BY <2>1, <2>2
  <1>7. \A z \in B : Sh!Product(Sh!Distances(z, o)) = PrefixProduct(d[z], k)
    <2> SUFFICES ASSUME NEW z \in B PROVE Sh!Product(Sh!Distances(z, o)) = PrefixProduct(d[z], k)
      OBVIOUS
    <2>1. Sh!Distances(z, o) = d[z]
      BY <1>4, <1>5 DEF Sh!Distances, \oplus
    <2> QED BY <1>6, <2>1, WholeProduct
  <1>8. PICK p : p = [z \in B |-> PrefixProduct(d[z], k)]
    OBVIOUS
  <1>9. p \in Pol(n)
    <2>1. \A t \in 1..k : o[t] \in B
      BY <1>4
    <2>2. \A z \in B, t \in 1..k : d[z][t] = z \oplus o[t]
      BY <1>6
    <2>3. p \in Pol(k + 1)
      BY <1>8, <2>1, <2>2, PolProduct
    <2> QED BY <1>1, <2>3
  <1>10. p \in [B -> B]
    BY <1>9, PolType
  <1>11. p[xs[i]] # 0
    <2>1. PICK z \in B : z = xs[i]
      BY <1>2
    <2>2. \A t \in 1..k : d[z][t] \in B /\ d[z][t] # 0
      <3> SUFFICES ASSUME NEW t \in 1..k PROVE d[z][t] \in B /\ d[z][t] # 0
        OBVIOUS
      <3>1. o[t] \in B /\ o[t] # z /\ d[z][t] = z \oplus o[t] /\ d[z][t] \in B
        BY <1>4, <1>6, <2>1
      <3>2. z \oplus o[t] # 0
        BY <3>1, Cancel
      <3> QED BY <3>1, <3>2
    <2>3. PrefixProduct(d[z], k) # 0
      BY <2>2, NoZeroFactor
    <2> QED BY <1>8, <2>1, <2>3
  <1>12. PICK w : w = Invert(p[xs[i]])
    OBVIOUS
  <1>13. w \in B /\ p[xs[i]] \otimes w = 1
    <2>1. PICK b \in B : b = p[xs[i]]
      BY <1>2, <1>10
    <2>2. b # 0
      BY <1>11, <2>1
    <2>3. Invert(b) \in B /\ b \otimes Invert(b) = 1
      BY <2>2 DEF Field
    <2> QED BY <1>12, <2>1, <2>3
  <1>14. Bump(xs, i) = Scaled(p, w)
    <2>1. w = Invert(Sh!Product(Sh!Distances(xs[i], o)))
      BY <1>2, <1>7, <1>8, <1>12
    <2>2. \A z \in B : p[z] = Sh!Product(Sh!Distances(z, o))
      BY <1>7, <1>8
    <2> QED BY <1>3, <2>1, <2>2 DEF Bump, Scaled
  <1>15. Bump(xs, i) \in Pol(n)
    BY <1>9, <1>13, <1>14, PolScaled
  <1>16. Bump(xs, i)[xs[i]] = 1
    BY <1>2, <1>13, <1>14 DEF Scaled
  <1>17. ASSUME NEW j \in 1..n, j # i PROVE Bump(xs, i)[xs[j]] = 0
    <2>1. PICK z \in B : z = xs[j]
      BY <1>2
    <2>2. PICK t \in 1..k : o[t] = z
      BY <1>4, <1>17, <2>1
    <2>3. d[z][t] = 0
      <3>1. z \oplus z = 0
        BY DEF Field
      <3> QED BY <1>6, <2>2, <3>1
    <2>4. \A u \in 1..k : d[z][u] \in B
      BY <1>6
    <2>5. PrefixProduct(d[z], k) = 0
      BY <2>3, <2>4, ZeroFactor
    <2>6. 0 \otimes w = 0
      BY <1>13, ZeroLaws
    <2> QED BY <1>8, <1>14, <2>1, <2>5, <2>6 DEF Scaled
  <1>18. Bump(xs, i)[0] = Sh!Lagrange(xs[i], o)
    <2>1. 0 \in B
      BY DEF Field
    <2>2. Sh!Distances(0, o) = o
      <3>1. \A t \in 1..k : 0 \oplus o[t] = o[t]
        BY <1>4, ZeroLaws
      <3>2. Sh!Distances(0, o) = [t \in 1..k |-> 0 \oplus o[t]]
        BY <1>4 DEF Sh!Distances, \oplus
      <3> QED BY <1>4, <3>1, <3>2
    <2>3. Bump(xs, i)[0] = Sh!Product(o) \otimes Invert(Sh!Product(Sh!Distances(xs[i], o)))
      BY <1>3, <2>1, <2>2 DEF Bump
    <2> QED BY <2>3 DEF Sh!Lagrange, \otimes
  <1> QED BY <1>3, <1>15, <1>16, <1>17, <1>18

-----------------------------------------------------------------------------
(* Interpolate gives the value at 0 of a function that takes the values.   *)
LEMMA Interpolates ==
  ASSUME Field, NEW n \in Nat \ {0}, NEW xs, Points(xs, n), NEW v \in [1..n -> B]
  PROVE  \E g \in Pol(n) : g[0] = Sh!Interpolate(xs, v) /\ \A i \in 1..n : g[xs[i]] = v[i]
  <1>1. xs \in [1..n -> B] /\ Len(xs) = n /\ \A i \in 1..n : xs[i] \in B /\ v[i] \in B
    BY IsSequence DEF Points
  <1>2. PICK fs : fs = [i \in 1..n |-> Scaled(Bump(xs, i), v[i])]
    OBVIOUS
  <1>3. \A i \in 1..n : fs[i] \in Pol(n)
    <2> SUFFICES ASSUME NEW i \in 1..n PROVE Scaled(Bump(xs, i), v[i]) \in Pol(n)
      BY <1>2
    <2>1. Bump(xs, i) \in Pol(n)
      BY BumpIs
    <2> QED BY <1>1, <2>1, PolScaled
  <1>4. PICK q : q = [z \in B |-> [i \in 1..n |-> fs[i][z]]]
    OBVIOUS
  <1>5. \A z \in B, i \in 1..n : q[z][i] = fs[i][z] /\ q[z][i] \in B
    <2> SUFFICES ASSUME NEW z \in B, NEW i \in 1..n PROVE q[z][i] = fs[i][z] /\ q[z][i] \in B
      OBVIOUS
    <2>1. fs[i] \in [B -> B]
      BY <1>3, PolType
    <2> QED BY <1>4, <2>1
  <1>6. PICK g : g = [z \in B |-> PrefixSum(q[z], n)]
    OBVIOUS
  <1>7. g \in Pol(n)
    <2>1. \A z \in B, i \in 1..n : q[z][i] = fs[i][z]
      BY <1>5
    <2>2. [z \in B |-> PrefixSum(q[z], n)] \in Pol(n)
      BY <1>3, <2>1, PolSum
    <2> QED BY <1>6, <2>2
  <1>8. ASSUME NEW i \in 1..n PROVE g[xs[i]] = v[i]
    <2>1. PICK z \in B : z = xs[i]
      BY <1>1
    <2>2. q[z][i] = v[i]
      <3>1. Bump(xs, i)[z] = 1
        BY <2>1, BumpIs
      <3>2. q[z][i] = 1 \otimes v[i]
        BY <1>2, <1>5, <3>1 DEF Scaled
      <3>3. 1 \in B /\ v[i] \in B /\ v[i] \otimes 1 = v[i]
        BY <1>1 DEF Field
      <3>4. 1 \otimes v[i] = v[i] \otimes 1
        BY <3>3 DEF Field
      <3> QED BY <3>2, <3>3, <3>4
    <2>3. \A j \in 1..n : j # i => q[z][j] = 0
      <3> SUFFICES ASSUME NEW j \in 1..n, j # i PROVE q[z][j] = 0
        OBVIOUS
      <3>1. Bump(xs, j)[z] = 0
        BY <2>1, BumpIs
      <3>2. q[z][j] = 0 \otimes v[j]
        BY <1>2, <1>5, <3>1 DEF Scaled
      <3>3. 0 \otimes v[j] = 0
        BY <1>1, ZeroLaws
      <3> QED BY <3>2, <3>3
    <2>4. \A j \in 1..n : q[z][j] \in B
      BY <1>5
    <2>5. PrefixSum(q[z], n) = q[z][i]
      BY <2>3, <2>4, OneTerm
    <2> QED BY <1>6, <2>1, <2>2, <2>5
  <1>9. g[0] = Sh!Interpolate(xs, v)
    <2>1. 0 \in B
      BY DEF Field
    <2>2. PICK y : y = [i \in 1..n |-> Multiply(v[i], Sh!Lagrange(xs[i], Sh!Others(xs, i)))]
      OBVIOUS
    <2>3. \A i \in 1..n : q[0][i] = y[i]
      <3> SUFFICES ASSUME NEW i \in 1..n PROVE q[0][i] = y[i]
        OBVIOUS
      <3>1. PICK b : b = Bump(xs, i)[0]
        OBVIOUS
      <3>2. b \in B
        <4>1. Bump(xs, i) \in [B -> B]
          BY BumpIs, PolType
        <4> QED BY <2>1, <3>1, <4>1
      <3>3. b = Sh!Lagrange(xs[i], Sh!Others(xs, i))
        BY <3>1, BumpIs
      <3>4. q[0][i] = b \otimes v[i]
        BY <1>2, <1>5, <2>1, <3>1 DEF Scaled
      <3>5. b \otimes v[i] = v[i] \otimes b
        BY <1>1, <3>2 DEF Field
      <3>6. y[i] = v[i] \otimes b
        BY <2>2, <3>3 DEF \otimes
      <3> QED BY <3>4, <3>5, <3>6
    <2>4. q[0] = y /\ q[0] \in [1..n -> B]
      <3>1. q[0] = [i \in 1..n |-> fs[i][0]]
        BY <1>4, <2>1
      <3>2. \A i \in 1..n : q[0][i] \in B
        BY <1>5, <2>1
      <3> QED BY <2>2, <2>3, <3>1, <3>2
    <2>5. Sh!Sum(q[0]) = PrefixSum(q[0], n)
      BY <2>4, WholeProduct
    <2>6. Sh!Interpolate(xs, v) = Sh!Sum(y)
      BY <1>1, <2>2 DEF Sh!Interpolate
    <2> QED BY <1>6, <2>1, <2>4, <2>5, <2>6
  <1> QED BY <1>7, <1>8, <1>9

LEMMA InterpolationIsExact ==
  ASSUME Field, NEW n \in Nat \ {0}, NEW xs, Points(xs, n), NEW m \in Nat, m <= n,
         NEW f \in Pol(m), NEW v \in [1..n -> B], \A i \in 1..n : v[i] = f[xs[i]]
  PROVE  Sh!Interpolate(xs, v) = f[0]
  <1>1. PICK g \in Pol(n) : g[0] = Sh!Interpolate(xs, v) /\ \A i \in 1..n : g[xs[i]] = v[i]
    BY Interpolates
  <1>2. f \in Pol(n)
    BY PolMonotone
  <1>3. Added(f, g) \in Pol(n) /\ f \in [B -> B] /\ g \in [B -> B]
    BY <1>2, PolAdded, PolType
  <1>4. Roots(Added(f, g), xs, n)
    <2> SUFFICES ASSUME NEW i \in 1..n
                 PROVE  xs[i] \in B /\ Added(f, g)[xs[i]] = 0 /\ \A j \in 1..n : xs[i] = xs[j] => i = j
      BY DEF Roots
    <2>1. xs[i] \in B /\ \A j \in 1..n : xs[i] = xs[j] => i = j
      BY DEF Points
    <2>2. PICK b \in B : b = v[i]
      OBVIOUS
    <2>3. Added(f, g)[xs[i]] = b \oplus b
      BY <1>1, <2>1, <2>2 DEF Added
    <2>4. b \oplus b = 0
      BY DEF Field
    <2> QED BY <2>1, <2>3, <2>4
  <1>5. 0 \in B
    BY DEF Field
  <1>6. Added(f, g)[0] = 0
    BY <1>3, <1>4, <1>5, TooManyRoots
  <1>7. f[0] \oplus g[0] = 0 /\ f[0] \in B /\ g[0] \in B
    BY <1>3, <1>5, <1>6 DEF Added
  <1>8. f[0] = g[0]
    BY <1>7, Cancel
  <1> QED BY <1>1, <1>8

LEMMA IndicesAreBytes ==
  ASSUME NEW n \in Nat, n <= 255
  PROVE  1..n \subseteq B \ {0}
  <1>1. PICK t \in Nat : t = 255
    OBVIOUS
  <1>2. 1..n \subseteq 0..t \ {0}
    BY <1>1
  <1> QED BY <1>1, <1>2, Zenon DEF B, Sh!Byte

LEMMA CurveAtZero ==
  ASSUME Field, NEW n \in Nat \ {0}, NEW c \in [1..n -> B]
  PROVE  Curve(c) \in Pol(n) /\ Curve(c)[0] = c[1]
  <1>1. 0 \in B
    BY DEF Field
  <1>2. Sh!eval_poly(c, 0) = c[1]
    <2>1. CASE n = 1
      <3>1. c \in [1..1 -> B]
        BY <2>1
      <3> QED BY <1>1, <3>1, EvalOne
    <2>2. CASE n # 1
      <3>1. PICK k \in Nat \ {0} : n = k + 1
        <4>1. n - 1 \in Nat \ {0} /\ n = (n - 1) + 1
          BY <2>2
        <4> QED BY <4>1
      <3>2. PICK d : d = [j \in 1..k |-> c[j + 1]]
        OBVIOUS
      <3>3. c \in [1..(k + 1) -> B]
        BY <3>1
      <3>4. d \in [1..k -> B] /\ \A j \in 1..k : d[j] = c[j + 1]
        BY <3>2, <3>3
      <3>5. PICK b : b = Sh!eval_poly(d, 0)
        OBVIOUS
      <3>6. b \in B /\ Sh!eval_poly(c, 0) = (b \otimes 0) \oplus c[1]
        BY <1>1, <3>3, <3>4, <3>5, EvalNext
      <3>7. b \otimes 0 = 0 /\ c[1] \in B
        BY <3>3, <3>6 DEF Field
      <3> QED BY <3>6, <3>7, ZeroLaws
    <2> QED BY <2>1, <2>2
  <1> QED BY <1>1, <1>2 DEF Curve, Pol

-----------------------------------------------------------------------------
(* The shares that were made are values of polynomials of the right degree *)
(* that are the secret at 0.                                               *)
Made(polys, n) ==
  /\ threshold \in 2..255 /\ n \in threshold..255
  /\ polys \in [1..Len(secret) -> [1..threshold -> B]]
  /\ \A b \in 1..Len(secret) : polys[b][1] = secret[b]
  /\ shares = [i \in 1..n |-> Sh!Share(polys, i)]

ShamirInv ==
  /\ secret \in Seq(B)
  /\ shares = None \/ shares = Err \/ \E polys, n : Made(polys, n)
  /\ (shares = None \/ shares = Err) => result = None
  /\ EnoughSharesReconstruct

LEMMA SplitMakes ==
  ASSUME Sh!InputsAreSound, ShamirInv, NEW n \in 0..MaxN, Sh!Split(n)
  PROVE  ShamirInv'
  <1>1. secret \in Seq(B) /\ secret' = secret /\ threshold' = threshold
    BY DEF ShamirInv, Sh!Split
  <1>2. result = None /\ result' = None
    BY DEF ShamirInv, Sh!Split
  <1>3. shares' = Err \/ \E polys, k : Made(polys, k)'
    <2>1. CASE shares' = Err
      BY <2>1
    <2>2. CASE shares' # Err
      <3>1. /\ threshold \in 2..255 /\ n >= threshold /\ n <= 255
            /\ \E polys \in Sh!Polynomials(secret, threshold) : shares' = [i \in 1..n |-> Sh!Share(polys, i)]
        BY <2>2 DEF Sh!Split
      <3>2. PICK polys \in Sh!Polynomials(secret, threshold) : shares' = [i \in 1..n |-> Sh!Share(polys, i)]
        BY <3>1
      <3>3. Len(secret) \in Nat /\ \A b \in 1..Len(secret) : secret[b] \in B
        BY <1>1, LenProperties, ElementOfSeq
      <3>4. Coeffs \cup {secret[b] : b \in 1..Len(secret)} \subseteq B
        BY <3>3 DEF Sh!InputsAreSound, B
      <3>5. /\ polys \in [1..Len(secret) -> [1..threshold -> B]]
            /\ \A b \in 1..Len(secret) : polys[b][1] = secret[b]
        BY <3>4 DEF Sh!Polynomials
      <3>6. n \in threshold..255
        BY <3>1 DEF Sh!InputsAreSound
      <3>7. Made(polys, n)'
        BY <1>1, <3>1, <3>2, <3>5, <3>6 DEF Made
      <3> QED BY <3>7
    <2> QED BY <2>1, <2>2
  <1>4. EnoughSharesReconstruct'
    BY <1>2 DEF EnoughSharesReconstruct, Sh!EnoughSharesReconstruct
  <1> QED BY <1>1, <1>2, <1>3, <1>4 DEF ShamirInv

(* What Reconstruct makes of byte b of the shares xs.                      *)
Back(xs, b) == Sh!Interpolate(xs, [i \in 1..Len(xs) |-> shares[xs[i]].data[b]])

LEMMA ByteComesBack ==
  ASSUME Field, NEW polys, NEW n, Made(polys, n), secret \in Seq(B), NEW b \in 1..Len(secret),
         NEW k \in Nat, NEW xs \in [1..k -> 1..n], k >= threshold, Sh!Distinct(xs)
  PROVE  Back(xs, b) = secret[b]
  <1>1. threshold \in Nat \ {0} /\ k \in Nat \ {0} /\ threshold <= k /\ n \in Nat /\ n <= 255
    BY DEF Made
  <1>2. Points(xs, k) /\ Len(xs) = k
    <2>1. xs \in [1..k -> B]
      BY <1>1, IndicesAreBytes
    <2>2. Len(xs) = k
      BY <2>1, IsSequence
    <2> QED BY <2>1, <2>2 DEF Points, Sh!Distinct
  <1>3. PICK c \in [1..threshold -> B] : c = polys[b] /\ c[1] = secret[b]
    BY DEF Made
  <1>4. PICK f : f = Curve(c)
    OBVIOUS
  <1>5. f \in Pol(threshold) /\ f[0] = secret[b]
    BY <1>1, <1>3, <1>4, CurveAtZero
  <1>6. f \in [B -> B]
    BY <1>1, <1>5, PolType
  <1>7. PICK v : v = [i \in 1..k |-> f[xs[i]]]
    OBVIOUS
  <1>8. v \in [1..k -> B] /\ \A i \in 1..k : v[i] = f[xs[i]]
    BY <1>2, <1>6, <1>7 DEF Points
  <1>9. [i \in 1..Len(xs) |-> shares[xs[i]].data[b]] = v
    <2>1. ASSUME NEW i \in 1..k PROVE shares[xs[i]].data[b] = f[xs[i]]
      <3>1. xs[i] \in 1..n /\ xs[i] \in B
        BY <1>2 DEF Points
      <3>2. shares[xs[i]] = Sh!Share(polys, xs[i])
        BY <3>1 DEF Made
      <3>3. Len(polys) = Len(secret)
        <4>1. Len(secret) \in Nat /\ polys \in [1..Len(secret) -> [1..threshold -> B]]
          BY LenProperties DEF Made
        <4> QED BY <4>1, FunctionIsSeq
      <3>4. Sh!Share(polys, xs[i]).data[b] = Sh!eval_poly(polys[b], xs[i])
        BY <3>3 DEF Sh!Share
      <3> QED BY <1>3, <1>4, <3>1, <3>2, <3>4 DEF Curve
    <2> QED BY <1>2, <1>7, <2>1
  <1>10. Sh!Interpolate(xs, v) = f[0]
    BY <1>1, <1>2, <1>5, <1>8, InterpolationIsExact
  <1> QED BY <1>5, <1>9, <1>10 DEF Back

LEMMA ReconstructGivesBack ==
  ASSUME Sh!InputsAreSound, ShamirInv, shares # None, shares # Err,
         NEW xs \in Sh!Choices(Len(shares)), Sh!Reconstruct(xs)
  PROVE  ShamirInv'
  <1>1. Field
    BY FieldLaws DEF Sh!InputsAreSound
  <1>2. secret \in Seq(B) /\ Len(secret) \in Nat /\ UNCHANGED <<secret, threshold, shares>> /\ used' = xs
    BY LenProperties DEF ShamirInv, Sh!Reconstruct
  <1>3. PICK polys, n : Made(polys, n)
    BY DEF ShamirInv
  <1>4. n \in Nat /\ threshold \in 2..255
    BY <1>3 DEF Made
  <1>5. Len(shares) = n
    <2>1. PICK Q : Q = {Sh!Share(polys, i) : i \in 1..n}
      OBVIOUS
    <2>2. shares \in [1..n -> Q]
      BY <1>3, <2>1 DEF Made
    <2> QED BY <1>4, <2>2, FunctionIsSeq
  <1>6. PICK k \in Nat : xs \in [1..k -> 1..n]
    BY <1>4, <1>5 DEF Sh!Choices
  <1>7. Len(xs) = k
    BY <1>6, FunctionIsSeq
  <1>8. ASSUME Sh!Distinct(xs), k >= threshold PROVE result' = secret
    <2>1. result' = [b \in 1..Len(secret) |-> Back(xs, b)]
      BY <1>4, <1>7, <1>8 DEF Sh!Reconstruct, Back
    <2>2. \A b \in 1..Len(secret) : Back(xs, b) = secret[b]
      <3> SUFFICES ASSUME NEW b \in 1..Len(secret) PROVE Back(xs, b) = secret[b]
        OBVIOUS
      <3> QED BY <1>1, <1>2, <1>3, <1>6, <1>8, ByteComesBack
    <2>3. result' = [b \in 1..Len(secret) |-> secret[b]]
      BY <2>1, <2>2
    <2>4. secret = [b \in 1..Len(secret) |-> secret[b]]
      BY <1>2, SeqDef, LenProperties
    <2> QED BY <2>3, <2>4
  <1>9. EnoughSharesReconstruct'
    BY <1>2, <1>7, <1>8 DEF EnoughSharesReconstruct, Sh!EnoughSharesReconstruct, Sh!Distinct
  <1>10. Made(polys, n)'
    BY <1>2, <1>3 DEF Made
  <1> QED BY <1>2, <1>9, <1>10 DEF ShamirInv

(* Whatever field the bytes are, however many shares are made and however  *)
(* many are used, in any order: enough of them give the secret back.       *)
THEOREM EnoughSharesGiveTheSecret ==
  ASSUME Sh!InputsAreSound
  PROVE  Sh!Spec => []EnoughSharesReconstruct
  <1>1. Sh!Init => ShamirInv
    BY DEF Sh!Init, ShamirInv, Sh!InputsAreSound, B, EnoughSharesReconstruct, Sh!EnoughSharesReconstruct
  <1>2. ShamirInv /\ [Sh!Next]_(Sh!vars) => ShamirInv'
    <2> SUFFICES ASSUME ShamirInv, [Sh!Next]_(Sh!vars) PROVE ShamirInv'
      OBVIOUS
    <2>1. ASSUME NEW n \in 0..MaxN, Sh!Split(n) PROVE ShamirInv'
      BY <2>1, SplitMakes
    <2>2. ASSUME NEW xs \in Sh!Choices(IF shares = None \/ shares = Err THEN 0 ELSE Len(shares)),
                 Sh!Reconstruct(xs)
          PROVE  ShamirInv'
      <3>1. shares # None /\ shares # Err
        BY <2>2 DEF Sh!Reconstruct
      <3>2. xs \in Sh!Choices(Len(shares))
        BY <3>1
      <3> QED BY <2>2, <3>1, <3>2, ReconstructGivesBack
    <2>3. CASE UNCHANGED Sh!vars
      BY <2>3 DEF Sh!vars, ShamirInv, Made, EnoughSharesReconstruct, Sh!EnoughSharesReconstruct
    <2> QED BY <2>1, <2>2, <2>3 DEF Sh!Next
  <1>3. ShamirInv => EnoughSharesReconstruct
    BY DEF ShamirInv
  <1> QED BY <1>1, <1>2, <1>3, PTL DEF Sh!Spec

-----------------------------------------------------------------------------
(* Through the secret at 0 and any values at k points goes a polynomial.   *)
Through(c, s, xs, y, k) ==
  /\ c \in [1..(k + 1) -> B] /\ c[1] = s
  /\ \A j \in 1..k : Sh!eval_poly(c, xs[j]) = y[j]

LEMMA AnyValuesAtPoints ==
  ASSUME Field, NEW k \in Nat \ {0}, NEW s \in B, NEW xs, Points(xs, k),
         \A j \in 1..k : xs[j] # 0, NEW y \in [1..k -> B]
  PROVE  \E c : Through(c, s, xs, y, k)
  <1>1. PICK n \in Nat \ {0} : n = k + 1
    OBVIOUS
  <1>2. 0 \in B
    BY DEF Field
  <1>3. PICK ps : ps = [j \in 1..n |-> IF j = 1 THEN 0 ELSE xs[j - 1]]
    OBVIOUS
  <1>4. PICK v : v = [j \in 1..n |-> IF j = 1 THEN s ELSE y[j - 1]]
    OBVIOUS
  <1>5. \A j \in 1..n : j = 1 \/ j - 1 \in 1..k
    BY <1>1
  <1>6. Points(ps, n)
    <2>1. ps \in [1..n -> B]
      BY <1>2, <1>3, <1>5 DEF Points
    <2>2. ASSUME NEW i \in 1..n, NEW j \in 1..n, ps[i] = ps[j] PROVE i = j
      <3>1. CASE i = 1 \/ j = 1
        BY <1>3, <1>5, <2>2, <3>1
      <3>2. CASE i # 1 /\ j # 1
        <4>1. ps[i] = xs[i - 1] /\ ps[j] = xs[j - 1] /\ i - 1 \in 1..k /\ j - 1 \in 1..k
          BY <1>3, <1>5, <3>2
        <4>2. i - 1 = j - 1
          BY <2>2, <4>1 DEF Points
        <4> QED BY <4>2
      <3> QED BY <3>1, <3>2
    <2> QED BY <2>1, <2>2 DEF Points
  <1>7. v \in [1..n -> B]
    BY <1>4, <1>5
  <1>8. PICK g \in Pol(n) : \A i \in 1..n : g[ps[i]] = v[i]
    BY <1>6, <1>7, Interpolates
  <1>9. PICK c \in [1..n -> B] : g = Curve(c)
    BY <1>8 DEF Pol
  <1>10. c[1] = s
    <2>1. Curve(c)[0] = c[1]
      BY CurveAtZero
    <2>2. 1 \in 1..n /\ ps[1] = 0 /\ v[1] = s
      BY <1>3, <1>4
    <2> QED BY <1>8, <1>9, <2>1, <2>2
  <1>11. ASSUME NEW j \in 1..k PROVE Sh!eval_poly(c, xs[j]) = y[j]
    <2>1. j + 1 \in 1..n /\ j + 1 # 1 /\ (j + 1) - 1 = j
      BY <1>1
    <2>2. ps[j + 1] = xs[j] /\ v[j + 1] = y[j]
      BY <1>3, <1>4, <2>1
    <2>3. g[xs[j]] = y[j]
      BY <1>8, <2>1, <2>2
    <2>4. xs[j] \in B
      BY DEF Points
    <2> QED BY <1>9, <2>3, <2>4 DEF Curve
  <1>12. Through(c, s, xs, y, k)
    BY <1>1, <1>10, <1>11 DEF Through
  <1> QED BY <1>12

(* The shares of a byte are what its polynomial is at their indices.       *)
LEMMA ShareOfByte ==
  ASSUME NEW c, NEW x
  PROVE  Sh!Share(<<c>>, x).data[1] = Sh!eval_poly(c, x)
  BY DEF Sh!Share

LEMMA ValuesOfShares ==
  ASSUME Field, NEW k \in Nat \ {0}, NEW s \in B, NEW xs, Points(xs, k), \A j \in 1..k : xs[j] # 0
  PROVE  Sh!SharesOf(s, xs, k) = [1..k -> B]
  <1>1. ASSUME NEW c \in [1..k -> B]
        PROVE  /\ <<s>> \o c \in [1..(k + 1) -> B] /\ (<<s>> \o c)[1] = s
               /\ \A j \in 1..k : (<<s>> \o c)[j + 1] = c[j]
    <2>1. c \in Seq(B) /\ Len(c) = k
      BY IsSequence
    <2>2. <<s>> \in Seq(B) /\ Len(<<s>>) = 1 /\ <<s>>[1] = s
      OBVIOUS
    <2>3. PICK u : u = <<s>> \o c
      OBVIOUS
    <2>4. u \in Seq(B) /\ Len(u) = k + 1 /\ u[1] = s /\ \A j \in 1..k : u[j + 1] = c[j]
      BY <2>1, <2>2, <2>3
    <2>5. u \in [1..(k + 1) -> B]
      BY <2>4, SeqDef, LenProperties
    <2> QED BY <2>3, <2>4, <2>5
  <1>2. PICK V : V = Sh!SharesOf(s, xs, k)
    OBVIOUS
  <1>3. V = {[j \in 1..k |-> Sh!Share(<<<<s>> \o c>>, xs[j]).data[1]] : c \in [1..k -> B]}
    BY <1>2, Zenon DEF Sh!SharesOf, B
  <1>4. ASSUME NEW v \in V PROVE v \in [1..k -> B]
    <2>1. PICK c \in [1..k -> B] : v = [j \in 1..k |-> Sh!Share(<<<<s>> \o c>>, xs[j]).data[1]]
      BY <1>3, Zenon
    <2>2. PICK n \in Nat \ {0} : n = k + 1
      OBVIOUS
    <2>3. PICK u \in [1..n -> B] : u = <<s>> \o c
      BY <1>1, <2>2
    <2>4. Curve(u) \in [B -> B]
      BY CurveAtZero, PolType
    <2>5. ASSUME NEW j \in 1..k PROVE Sh!Share(<<u>>, xs[j]).data[1] \in B
      <3>1. xs[j] \in B
        BY DEF Points
      <3>2. Curve(u)[xs[j]] = Sh!eval_poly(u, xs[j])
        BY <3>1 DEF Curve
      <3> QED BY <2>4, <3>1, <3>2, ShareOfByte
    <2>6. v = [j \in 1..k |-> Sh!Share(<<u>>, xs[j]).data[1]]
      BY <2>1, <2>3, Zenon
    <2> QED BY <2>5, <2>6
  <1>5. ASSUME NEW y \in [1..k -> B] PROVE y \in V
    <2>1. PICK u : Through(u, s, xs, y, k)
      BY AnyValuesAtPoints
    <2>2. PICK c : c = [j \in 1..k |-> u[j + 1]]
      OBVIOUS
    <2>3. c \in [1..k -> B]
      BY <2>1, <2>2 DEF Through
    <2>4. <<s>> \o c = u
      <3>1. PICK w \in [1..(k + 1) -> B] : w = <<s>> \o c
        BY <1>1, <2>3
      <3>2. w[1] = s /\ \A j \in 1..k : w[j + 1] = c[j]
        BY <1>1, <2>3, <3>1
      <3>3. u \in [1..(k + 1) -> B] /\ u[1] = s
        BY <2>1 DEF Through
      <3>4. \A j \in 1..(k + 1) : w[j] = u[j]
        <4> SUFFICES ASSUME NEW j \in 1..(k + 1), j # 1 PROVE w[j] = u[j]
          BY <3>2, <3>3
        <4>1. j - 1 \in 1..k /\ (j - 1) + 1 = j
          OBVIOUS
        <4>2. w[(j - 1) + 1] = c[j - 1] /\ c[j - 1] = u[(j - 1) + 1]
          BY <2>2, <3>2, <4>1
        <4> QED BY <4>1, <4>2
      <3> QED BY <3>1, <3>3, <3>4
    <2>5. y = [j \in 1..k |-> Sh!Share(<<u>>, xs[j]).data[1]]
      <3>1. \A j \in 1..k : Sh!Share(<<u>>, xs[j]).data[1] = y[j]
        BY <2>1, ShareOfByte DEF Through
      <3> QED BY <3>1
    <2>6. y = [j \in 1..k |-> Sh!Share(<<<<s>> \o c>>, xs[j]).data[1]]
      BY <2>4, <2>5, Zenon
    <2> QED BY <1>3, <2>3, <2>6, Zenon
  <1> QED BY <1>2, <1>4, <1>5

(* Any m - 1 shares of a byte take all values, whatever the byte is.       *)
THEOREM FewSharesSayNothing ==
  ASSUME Sh!InputsAreSound
  PROVE  Sh!Spec => []FewSharesHide
  <1>1. Sh!Init => secret \in Seq(B)
    BY DEF Sh!Init, Sh!InputsAreSound, B
  <1>2. secret \in Seq(B) /\ [Sh!Next]_(Sh!vars) => (secret \in Seq(B))'
    BY DEF Sh!Next, Sh!Split, Sh!Reconstruct, Sh!vars
  <1>3. ASSUME secret \in Seq(B) PROVE FewSharesHide
    <2> SUFFICES ASSUME threshold \in 2..255, NEW i \in 1..Len(secret),
                        NEW xs \in [1..(threshold - 1) -> 1..MaxN], Sh!Distinct(xs)
                 PROVE  Sh!SharesOf(secret[i], xs, threshold - 1) = [1..(threshold - 1) -> Sh!Byte]
      BY DEF FewSharesHide, Sh!FewSharesHide
    <2>1. PICK k \in Nat \ {0} : k = threshold - 1
      OBVIOUS
    <2>2. PICK s \in B : s = secret[i]
      BY <1>3, ElementOfSeq
    <2>3. Field
      BY FieldLaws DEF Sh!InputsAreSound
    <2>4. Points(xs, k) /\ \A j \in 1..k : xs[j] # 0
      <3>1. MaxN \in Nat /\ MaxN <= 255
        BY DEF Sh!InputsAreSound
      <3>2. 1..MaxN \subseteq B \ {0}
        BY <3>1, IndicesAreBytes
      <3>3. xs \in [1..k -> 1..MaxN]
        BY <2>1
      <3>4. xs \in [1..k -> B] /\ \A j \in 1..k : xs[j] # 0
        BY <3>2, <3>3
      <3>5. Len(xs) = k
        BY <3>4, FunctionIsSeq
      <3> QED BY <3>4, <3>5 DEF Points, Sh!Distinct
    <2>5. Sh!SharesOf(s, xs, k) = [1..k -> B]
      BY <2>3, <2>4, ValuesOfShares
    <2> QED BY <2>1, <2>2, <2>5 DEF B
  <1> QED BY <1>1, <1>2, <1>3, PTL DEF Sh!Spec
=============================================================================
