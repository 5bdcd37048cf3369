----------------------------- MODULE DataProofs -----------------------------
(***************************************************************************)
(* Theorems about the parts that keep data: a secret that otp-add stores   *)
(* and otp reads back, the text in the editor, and the words of a phrase.  *)
(* They go by induction over the data, as PartsProofs has it.              *)
(***************************************************************************)
EXTENDS PartsProofs

Decoder == [acc : Nat, nbits : 0..7, out : Seq(0..255)]
Decoding(t, g) ==
  /\ g \in [0..Len(t) -> Decoder]
  /\ g[0] = [acc |-> 0, nbits |-> 0, out |-> <<>>]
  /\ \A i \in 1..Len(t) : g[i] = T!TakeChar(g[i - 1], t[i])

LEMMA PowersOfTwo ==
  /\ T!Pow2(0) = 1 /\ T!Pow2(1) = 2 /\ T!Pow2(2) = 4 /\ T!Pow2(3) = 8
  /\ T!Pow2(4) = 16 /\ T!Pow2(5) = 32 /\ T!Pow2(6) = 64 /\ T!Pow2(7) = 128
  BY DEF T!Pow2

LEMMA TakeCharType ==
  ASSUME NEW s \in Decoder, NEW c \in 0..33
  PROVE  T!TakeChar(s, c) \in Decoder
  <1>1. s.acc \in Nat /\ s.nbits \in 0..7 /\ s.out \in Seq(0..255)
    BY DEF Decoder
  <1>2. PICK acc, nbits : acc = T!ShiftIn(s.acc, 32, c) /\ nbits = s.nbits + 5
    OBVIOUS
  <1>n. nbits = s.nbits + 5
    BY <1>2
  <1>3. acc \in Nat /\ nbits \in 5..12
    <2>1. acc \in Nat
      <3>1. PICK a : a = s.acc
        OBVIOUS
      <3>2. a \in Nat
        BY <1>1, <3>1
      <3>3. a * 32 + c \in Nat
        BY <3>2
      <3> QED BY <1>2, <3>1, <3>3 DEF T!ShiftIn
    <2>2. nbits \in 5..12
      BY <1>1, <1>n
    <2> QED BY <2>1, <2>2
  <1>4. T!TakeChar(s, c) = IF c = 32 THEN s
          ELSE IF nbits < 8 THEN [acc |-> acc, nbits |-> nbits, out |-> s.out]
          ELSE [acc |-> acc, nbits |-> nbits - 8,
                out |-> Append(s.out, (acc \div T!Pow2(nbits - 8)) % 256)]
    BY <1>2 DEF T!TakeChar, T!Skipped
  <1>5. CASE c = 32
    BY <1>4, <1>5
  <1>6. CASE c # 32 /\ nbits < 8
    BY <1>1, <1>3, <1>4, <1>6 DEF Decoder
  <1>7. CASE c # 32 /\ ~(nbits < 8)
    <2>1. PICK p : p = T!Pow2(nbits - 8)
      OBVIOUS
    <2>2. p \in {1, 2, 4, 8, 16}
      <3>1. nbits - 8 \in {0, 1, 2, 3, 4}
        BY <1>3, <1>7
      <3> QED BY <2>1, <3>1, PowersOfTwo
    <2>3. PICK x : x = (acc \div p) % 256
      OBVIOUS
    <2>4. x \in 0..255
      <3>1. acc \div p \in Nat
        BY <1>3, <2>2
      <3> QED BY <2>3, <3>1
    <2>5. Append(s.out, x) \in Seq(0..255)
      BY <1>1, <2>4
    <2> QED BY <1>3, <1>4, <1>7, <2>1, <2>3, <2>5 DEF Decoder
  <1> QED BY <1>5, <1>6, <1>7

LEMMA DecodingExists ==
  ASSUME NEW t \in Seq(0..33)
  PROVE  \E g : Decoding(t, g) /\ T!Decoded(t) = g[Len(t)]
  <1>1. Len(t) \in Nat /\ \A i \in 1..Len(t) : t[i] \in 0..33
    BY LenProperties, ElementOfSeq
  <1>2. PICK c : c = [acc |-> 0, nbits |-> 0, out |-> <<>>]
    OBVIOUS
  <1>3. c \in Decoder
    BY <1>2 DEF Decoder
  <1>4. PICK D : D = [x \in (1..Len(t)) \X Decoder |-> T!TakeChar(x[2], t[x[1]])]
    OBVIOUS
  <1>5. D \in [(1..Len(t)) \X Decoder -> Decoder]
    BY <1>1, <1>4, TakeCharType
  <1>6. PICK g \in [0..Len(t) -> Decoder] : g[0] = c /\ \A i \in 1..Len(t) : g[i] = D[<<i, g[i - 1]>>]
    <2>1. PICK n \in Nat : n = Len(t)
      BY <1>1
    <2>2. D \in [(1..n) \X Decoder -> Decoder]
      BY <1>5, <2>1
    <2>3. \E g : Steps(g, Decoder, c, n, D)
      BY <1>3, <2>1, <2>2, RecursionExists, Zenon
    <2> QED BY <2>1, <2>3 DEF Steps
  <1>7. \A i \in 1..Len(t) : g[i] = T!TakeChar(g[i - 1], t[i])
    <2> SUFFICES ASSUME NEW i \in 1..Len(t) PROVE g[i] = T!TakeChar(g[i - 1], t[i])
      OBVIOUS
    <2>1. i - 1 \in 0..Len(t) /\ g[i - 1] \in Decoder
      BY <1>1, <1>6
    <2>2. D[<<i, g[i - 1]>>] = T!TakeChar(g[i - 1], t[i])
      BY <1>4, <2>1
    <2> QED BY <1>6, <2>2
  <1>8. g = [i \in 0..Len(t) |->
               IF i = 0 THEN [acc |-> 0, nbits |-> 0, out |-> <<>>] ELSE T!TakeChar(g[i - 1], t[i])]
    BY <1>1, <1>2, <1>6, <1>7
  <1>9. PICK h : /\ h = [i \in 0..Len(t) |->
                         IF i = 0 THEN [acc |-> 0, nbits |-> 0, out |-> <<>>] ELSE T!TakeChar(h[i - 1], t[i])]
                 /\ T!Decoded(t) = h[Len(t)]
    BY <1>8, Zenon DEF T!Decoded
  <1>10. \A i \in 0..Len(t) : g[i] = h[i]
    <2>1. g[0] = h[0] /\ \A i \in 1..Len(t) : h[i] = T!TakeChar(h[i - 1], t[i])
      BY <1>1, <1>2, <1>6, <1>9
    <2>2. \A i \in 1..Len(t) : g[i - 1] = h[i - 1] => g[i] = h[i]
      BY <1>7, <2>1
    <2>3. PICK n \in Nat : n = Len(t)
      BY <1>1
    <2>4. SameSteps(g, h, n)
      BY <2>1, <2>2, <2>3 DEF SameSteps
    <2>5. \A i \in 0..n : g[i] = h[i]
      BY <2>4, StepByStep, Zenon
    <2> QED BY <2>3, <2>5
  <1>11. T!Decoded(t) = g[Len(t)]
    BY <1>1, <1>9, <1>10
  <1> QED BY <1>2, <1>6, <1>7, <1>11 DEF Decoding

Secret == Seq(0..255) \ {<<>>}

LEMMA DecodedType ==
  ASSUME NEW t \in Seq(0..33)
  PROVE  T!decode_base32(t) \in Secret \cup {None}
  <1>1. PICK g : Decoding(t, g) /\ T!Decoded(t) = g[Len(t)]
    BY DecodingExists
  <1>2. g[Len(t)] \in Decoder
    <2>1. Len(t) \in 0..Len(t)
      BY LenProperties
    <2> QED BY <1>1, <2>1 DEF Decoding
  <1>3. T!Decoded(t).out \in Seq(0..255)
    BY <1>1, <1>2 DEF Decoder
  <1> QED BY <1>3 DEF T!decode_base32, Secret

Configs == [secret : Secret \cup {None}, digits : 1..9, period : Nat \ {0}, algorithm : T!Algorithms]

FieldIsRead(f) ==
  f.text \in Seq(0..33) /\ f.num \in Nat /\ (f.key = "algorithm" => f.name \in T!Algorithms)

LEMMA TakeFieldType ==
  ASSUME NEW c \in Configs, NEW f, FieldIsRead(f)
  PROVE  T!TakeField(c, f) \in Configs
  <1>1. CASE f.key = "secret"
    <2>1. PICK x : x = T!decode_base32(f.text)
      OBVIOUS
    <2>2. x \in Secret \cup {None}
      BY <2>1, DecodedType DEF FieldIsRead
    <2>3. [c EXCEPT !.secret = x] \in Configs
      BY <2>2 DEF Configs
    <2> QED BY <1>1, <2>1, <2>3 DEF T!TakeField
  <1>2. CASE f.key # "secret"
    BY <1>2 DEF T!TakeField, Configs, FieldIsRead
  <1> QED BY <1>1, <1>2

LEMMA DefaultType == T!Default \in Configs
  BY DEF T!Default, Configs, T!Algorithms

Taking(fields, g) ==
  /\ g \in [0..Len(fields) -> Configs] /\ g[0] = T!Default
  /\ \A i \in 1..Len(fields) : g[i] = T!TakeField(g[i - 1], fields[i])

LEMMA TakingExists ==
  ASSUME NEW fields, Len(fields) \in Nat, \A i \in 1..Len(fields) : FieldIsRead(fields[i])
  PROVE  \E g : Taking(fields, g) /\ T!TakenFrom(fields) = g[Len(fields)]
  <1>1. PICK n \in Nat : n = Len(fields)
    OBVIOUS
  <1>2. PICK D : D = [x \in (1..n) \X Configs |-> T!TakeField(x[2], fields[x[1]])]
    OBVIOUS
  <1>3. D \in [(1..n) \X Configs -> Configs]
    BY <1>1, <1>2, TakeFieldType
  <1>4. PICK g : Steps(g, Configs, T!Default, n, D)
    BY <1>3, DefaultType, RecursionExists, Zenon
  <1>5. \A i \in 1..n : g[i] = T!TakeField(g[i - 1], fields[i])
    <2> SUFFICES ASSUME NEW i \in 1..n PROVE g[i] = T!TakeField(g[i - 1], fields[i])
      OBVIOUS
    <2>1. i - 1 \in 0..n /\ g[i - 1] \in Configs
      BY <1>4 DEF Steps
    <2>2. D[<<i, g[i - 1]>>] = T!TakeField(g[i - 1], fields[i])
      BY <1>2, <2>1
    <2> QED BY <1>4, <2>2 DEF Steps
  <1>6. g = [i \in 0..Len(fields) |-> IF i = 0 THEN T!Default ELSE T!TakeField(g[i - 1], fields[i])]
    BY <1>1, <1>4, <1>5 DEF Steps
  <1>7. PICK h : /\ h = [i \in 0..Len(fields) |->
                           IF i = 0 THEN T!Default ELSE T!TakeField(h[i - 1], fields[i])]
                 /\ T!TakenFrom(fields) = h[Len(fields)]
    BY <1>6, Zenon DEF T!TakenFrom
  <1>8. SameSteps(g, h, n)
    <2>1. g[0] = h[0] /\ \A i \in 1..n : h[i] = T!TakeField(h[i - 1], fields[i])
      BY <1>1, <1>4, <1>7 DEF Steps
    <2> QED BY <1>5, <2>1 DEF SameSteps
  <1>9. T!TakenFrom(fields) = g[Len(fields)]
    BY <1>1, <1>7, <1>8, StepByStep
  <1> QED BY <1>1, <1>4, <1>5, <1>9 DEF Taking, Steps

LEMMA TakenType ==
  ASSUME NEW fields, Len(fields) \in Nat, \A i \in 1..Len(fields) : FieldIsRead(fields[i])
  PROVE  T!TakenFrom(fields) \in Configs
  BY TakingExists DEF Taking

(* What the vault may hold a configuration of.                             *)
Usable(c) == c \in Configs /\ c.secret \in Secret /\ c.secret # None

LEMMA ParsedIsUsable ==
  ASSUME T!InputsAreSound, NEW v \in T!Uris \cup T!Texts, T!parse(v) # None
  PROVE  Usable(T!parse(v))
  <1>1. CASE v \in T!Uris
    <2>1. PICK k, fs : k \in 0..MaxFields /\ fs \in [1..k -> Fields] /\ v = [kind |-> "uri", fields |-> fs]
      BY <1>1 DEF T!Uris
    <2>2. fs \in Seq(Fields) /\ Len(fs) = k /\ k \in Nat
      BY <2>1, FunctionIsSeq DEF T!InputsAreSound, T!Foreign
    <2>3. T!parse(v) = T!parse_otpauth(fs)
      BY <2>1 DEF T!parse
    <2>4. ~T!UnknownAlgorithm(fs) /\ T!parse(v) = T!TakenFrom(fs) /\ T!TakenFrom(fs).secret # None
      BY <2>3 DEF T!parse_otpauth
    <2>5. \A i \in 1..Len(fs) : FieldIsRead(fs[i])
      <3> SUFFICES ASSUME NEW i \in 1..k PROVE FieldIsRead(fs[i])
        BY <2>2
      <3>1. fs[i] \in Fields /\ i \in DOMAIN fs
        BY <2>1
      <3>2. fs[i].key = "algorithm" => fs[i].name \in T!Algorithms
        BY <2>4, <3>1 DEF T!UnknownAlgorithm
      <3>3. fs[i].text \in Seq(0..33) /\ fs[i].num \in Nat
        BY <3>1 DEF T!InputsAreSound, T!Foreign
      <3> QED BY <3>2, <3>3 DEF FieldIsRead
    <2>6. T!TakenFrom(fs) \in Configs
      BY <2>2, <2>5, TakenType
    <2> QED BY <2>4, <2>6 DEF Usable, Configs
  <1>2. CASE v \in T!Texts
    <2>1. PICK t \in Seeds : v = [kind |-> "text", text |-> t]
      BY <1>2 DEF T!Texts
    <2>2. t \in Seq(0..33)
      BY DEF T!InputsAreSound, T!Foreign
    <2>3. PICK x : x = T!decode_base32(t)
      OBVIOUS
    <2>4. x # None /\ T!parse(v) = [T!Default EXCEPT !.secret = x]
      BY <2>1, <2>3 DEF T!parse
    <2>5. x \in Secret
      BY <2>2, <2>3, <2>4, DecodedType
    <2> QED BY <2>4, <2>5, DefaultType DEF Usable, Configs
  <1> QED BY <1>1, <1>2

(* The decoder is at a place where n bits, whose value is low, wait for    *)
(* the rest of their byte, and the bytes before are o.                     *)
Holds(d, n, low, o) ==
  d \in Decoder /\ d.nbits = n /\ d.acc % T!Pow2(n) = low /\ d.out = o

(* The low bits of y, and the byte above them.                             *)
LowBits(a, c, y) ==
  /\ y % 32 = c /\ y % 64 = 32 * (a % 2) + c /\ y % 128 = 32 * (a % 4) + c
  /\ (y \div 1) % 256 = 32 * (a % 8) + c /\ (y \div 2) % 256 = 16 * (a % 16) + (c \div 2)
  /\ (y \div 4) % 256 = 8 * (a % 32) + (c \div 4) /\ (y \div 8) % 256 = 4 * (a % 64) + (c \div 8)
  /\ (y \div 16) % 256 = 2 * (a % 128) + (c \div 16)
  /\ y % 1 = 0 /\ y % 2 = c % 2 /\ y % 4 = c % 4 /\ y % 8 = c % 8 /\ y % 16 = c % 16

LEMMA LowBitsOf ==
  ASSUME NEW a \in Nat, NEW c \in 0..31, NEW q \in Nat, NEW y \in Nat, a * 32 + c = q * 65536 + y
  PROVE  LowBits(a, c, y)
  <1>1. y % 32 = c
    BY SMT
  <1>2. y % 64 = 32 * (a % 2) + c /\ y % 128 = 32 * (a % 4) + c
    BY SMT
  <1>3. (y \div 1) % 256 = 32 * (a % 8) + c
    BY SMT
  <1>4. (y \div 2) % 256 = 16 * (a % 16) + (c \div 2)
    BY SMT
  <1>5. (y \div 4) % 256 = 8 * (a % 32) + (c \div 4)
    BY SMT
  <1>6. (y \div 8) % 256 = 4 * (a % 64) + (c \div 8)
    BY SMT
  <1>7. (y \div 16) % 256 = 2 * (a % 128) + (c \div 16)
    BY SMT
  <1>8. y % 1 = 0 /\ y % 2 = c % 2
    BY SMT
  <1>9. y % 4 = c % 4 /\ y % 8 = c % 8 /\ y % 16 = c % 16
    BY SMT
  <1> QED BY <1>1, <1>2, <1>3, <1>4, <1>5, <1>6, <1>7, <1>8, <1>9, SMT DEF LowBits

LEMMA NewAccumulator ==
  ASSUME NEW a \in Nat, NEW c \in 0..31, NEW y, y = T!ShiftIn(a, 32, c)
  PROVE  LowBits(a, c, y)
  <1>1. PICK x : x = a * 32 + c
    OBVIOUS
  <1>2. PICK q : q = x \div 65536
    OBVIOUS
  <1>3. q \in Nat /\ y \in Nat /\ a * 32 + c = q * 65536 + y
    BY <1>1, <1>2, SMT DEF T!ShiftIn
  <1> QED BY <1>3, LowBitsOf

(* e is d after a character that made the accumulator y.                   *)
Next5(d, y, e) ==
  /\ d.nbits < 3 => e = [acc |-> y, nbits |-> d.nbits + 5, out |-> d.out]
  /\ d.nbits >= 3 =>
       e = [acc |-> y, nbits |-> d.nbits - 3, out |-> Append(d.out, (y \div T!Pow2(d.nbits - 3)) % 256)]

LEMMA TakeCharIs ==
  ASSUME NEW d \in Decoder, NEW c \in 0..31, NEW y, y = T!ShiftIn(d.acc, 32, c)
  PROVE  Next5(d, y, T!TakeChar(d, c))
  <1>1. PICK k : k = d.nbits
    OBVIOUS
  <1>2. k \in 0..7 /\ c # T!Skipped
    BY <1>1 DEF Decoder, T!Skipped
  <1>3. T!TakeChar(d, c) =
          IF k + 5 < 8 THEN [acc |-> y, nbits |-> k + 5, out |-> d.out]
          ELSE [acc |-> y, nbits |-> (k + 5) - 8, out |-> Append(d.out, (y \div T!Pow2((k + 5) - 8)) % 256)]
    BY <1>1, <1>2 DEF T!TakeChar
  <1>4. k \in Nat /\ (k + 5 < 8 <=> k < 3) /\ (k + 5) - 8 = k - 3 /\ (k >= 3 <=> ~(k < 3))
    BY <1>2
  <1>5. ASSUME k < 3 PROVE T!TakeChar(d, c) = [acc |-> y, nbits |-> k + 5, out |-> d.out]
    BY <1>3, <1>4, <1>5
  <1>6. ASSUME k >= 3
        PROVE  T!TakeChar(d, c) = [acc |-> y, nbits |-> k - 3, out |-> Append(d.out, (y \div T!Pow2(k - 3)) % 256)]
    <2>1. T!TakeChar(d, c) =
            [acc |-> y, nbits |-> (k + 5) - 8, out |-> Append(d.out, (y \div T!Pow2((k + 5) - 8)) % 256)]
      BY <1>3, <1>4, <1>6
    <2>2. (k + 5) - 8 = k - 3
      BY <1>4
    <2> QED BY <2>1, <2>2
  <1> QED BY <1>1, <1>5, <1>6 DEF Next5

(* What a character adds, for every number of bits that wait.              *)
LEMMA Taken ==
  ASSUME NEW d, NEW n \in 0..7, NEW low, NEW o, Holds(d, n, low, o), NEW c \in 0..31,
         NEW e, e = T!TakeChar(d, c)
  PROVE  /\ n = 0 => Holds(e, 5, c, o)
         /\ n = 1 => Holds(e, 6, 32 * low + c, o)
         /\ n = 2 => Holds(e, 7, 32 * low + c, o)
         /\ n = 3 => Holds(e, 0, 0, Append(o, 32 * low + c))
         /\ n = 4 => Holds(e, 1, c % 2, Append(o, 16 * low + (c \div 2)))
         /\ n = 5 => Holds(e, 2, c % 4, Append(o, 8 * low + (c \div 4)))
         /\ n = 6 => Holds(e, 3, c % 8, Append(o, 4 * low + (c \div 8)))
         /\ n = 7 => Holds(e, 4, c % 16, Append(o, 2 * low + (c \div 16)))
  <1>1. d \in Decoder /\ d.nbits = n /\ d.acc % T!Pow2(n) = low /\ d.out = o /\ e \in Decoder
    <2>1. d \in Decoder /\ d.nbits = n /\ d.acc % T!Pow2(n) = low /\ d.out = o
      BY DEF Holds
    <2>2. c \in 0..33
      OBVIOUS
    <2> QED BY <2>1, <2>2, TakeCharType
  <1>2. PICK a, y : a = d.acc /\ y = T!ShiftIn(a, 32, c)
    OBVIOUS
  <1>3. a \in Nat
    BY <1>1, <1>2 DEF Decoder
  <1>4. /\ n < 3 => e = [acc |-> y, nbits |-> n + 5, out |-> o]
        /\ n >= 3 => e = [acc |-> y, nbits |-> n - 3, out |-> Append(o, (y \div T!Pow2(n - 3)) % 256)]
    <2>1. y = T!ShiftIn(d.acc, 32, c)
      BY <1>2
    <2>2. Next5(d, y, e)
      BY <1>1, <2>1, TakeCharIs
    <2> QED BY <1>1, <2>2 DEF Next5
  <1>5. a % T!Pow2(n) = low
    BY <1>1, <1>2
  <1>6. LowBits(a, c, y)
    BY <1>2, <1>3, NewAccumulator
  <1>7. CASE n = 0
    <2>1. e.nbits = 5 /\ e.acc = y /\ e.out = o
      BY <1>4, <1>7
    <2>2. e.acc % T!Pow2(5) = c
      BY <1>6, <2>1, PowersOfTwo DEF LowBits
    <2> QED BY <1>1, <1>7, <2>1, <2>2 DEF Holds
  <1>8. CASE n = 1
    <2>1. e.nbits = 6 /\ e.acc = y /\ e.out = o
      BY <1>4, <1>8
    <2>2. e.acc % T!Pow2(6) = 32 * low + c
      BY <1>5, <1>6, <1>8, <2>1, PowersOfTwo DEF LowBits
    <2> QED BY <1>1, <1>8, <2>1, <2>2 DEF Holds
  <1>9. CASE n = 2
    <2>1. e.nbits = 7 /\ e.acc = y /\ e.out = o
      BY <1>4, <1>9
    <2>2. e.acc % T!Pow2(7) = 32 * low + c
      BY <1>5, <1>6, <1>9, <2>1, PowersOfTwo DEF LowBits
    <2> QED BY <1>1, <1>9, <2>1, <2>2 DEF Holds
  <1>10. CASE n = 3
    <2>1. e.nbits = 0 /\ e.acc = y /\ e.out = Append(o, (y \div T!Pow2(0)) % 256)
      BY <1>4, <1>10
    <2>2. e.acc % T!Pow2(0) = 0 /\ (y \div T!Pow2(0)) % 256 = 32 * low + c
      BY <1>5, <1>6, <1>10, <2>1, PowersOfTwo DEF LowBits
    <2> QED BY <1>1, <1>10, <2>1, <2>2 DEF Holds
  <1>11. CASE n = 4
    <2>1. e.nbits = 1 /\ e.acc = y /\ e.out = Append(o, (y \div T!Pow2(1)) % 256)
      BY <1>4, <1>11
    <2>2. e.acc % T!Pow2(1) = c % 2 /\ (y \div T!Pow2(1)) % 256 = 16 * low + (c \div 2)
      BY <1>5, <1>6, <1>11, <2>1, PowersOfTwo DEF LowBits
    <2> QED BY <1>1, <1>11, <2>1, <2>2 DEF Holds
  <1>12. CASE n = 5
    <2>1. e.nbits = 2 /\ e.acc = y /\ e.out = Append(o, (y \div T!Pow2(2)) % 256)
      BY <1>4, <1>12
    <2>2. e.acc % T!Pow2(2) = c % 4 /\ (y \div T!Pow2(2)) % 256 = 8 * low + (c \div 4)
      BY <1>5, <1>6, <1>12, <2>1, PowersOfTwo DEF LowBits
    <2> QED BY <1>1, <1>12, <2>1, <2>2 DEF Holds
  <1>13. CASE n = 6
    <2>1. e.nbits = 3 /\ e.acc = y /\ e.out = Append(o, (y \div T!Pow2(3)) % 256)
      BY <1>4, <1>13
    <2>2. e.acc % T!Pow2(3) = c % 8 /\ (y \div T!Pow2(3)) % 256 = 4 * low + (c \div 8)
      BY <1>5, <1>6, <1>13, <2>1, PowersOfTwo DEF LowBits
    <2> QED BY <1>1, <1>13, <2>1, <2>2 DEF Holds
  <1>14. CASE n = 7
    <2>1. e.nbits = 4 /\ e.acc = y /\ e.out = Append(o, (y \div T!Pow2(4)) % 256)
      BY <1>4, <1>14
    <2>2. e.acc % T!Pow2(4) = c % 16 /\ (y \div T!Pow2(4)) % 256 = 2 * low + (c \div 16)
      BY <1>5, <1>6, <1>14, <2>1, PowersOfTwo DEF LowBits
    <2> QED BY <1>1, <1>14, <2>1, <2>2 DEF Holds
  <1> QED BY <1>7, <1>8, <1>9, <1>10, <1>11, <1>12, <1>13, <1>14

LEMMA DecodedAppend ==
  ASSUME NEW t \in Seq(0..33), NEW c \in 0..33
  PROVE  T!Decoded(Append(t, c)) = T!TakeChar(T!Decoded(t), c)
  <1>1. PICK u, n : u = Append(t, c) /\ n = Len(t)
    OBVIOUS
  <1>2. n \in Nat /\ u \in Seq(0..33) /\ Len(u) = n + 1 /\ u[n + 1] = c /\ \A i \in 1..n : u[i] = t[i]
    BY <1>1
  <1>3. PICK g : Decoding(t, g) /\ T!Decoded(t) = g[n]
    BY <1>1, DecodingExists
  <1>4. PICK h : Decoding(u, h) /\ T!Decoded(u) = h[n + 1]
    BY <1>2, DecodingExists
  <1>5. SameSteps(g, h, n)
    <2>1. g[0] = h[0]
      BY <1>3, <1>4 DEF Decoding
    <2>2. \A i \in 1..n : g[i] = T!TakeChar(g[i - 1], t[i]) /\ h[i] = T!TakeChar(h[i - 1], u[i])
      BY <1>1, <1>2, <1>3, <1>4 DEF Decoding
    <2> QED BY <1>2, <2>1, <2>2 DEF SameSteps
  <1>6. g[n] = h[n]
    BY <1>2, <1>5, StepByStep
  <1>7. h[n + 1] = T!TakeChar(h[n], c)
    <2>1. n + 1 \in 1..Len(u) /\ (n + 1) - 1 = n
      BY <1>2
    <2> QED BY <1>2, <1>4, <2>1 DEF Decoding
  <1> QED BY <1>1, <1>3, <1>4, <1>6, <1>7

LEMMA DecodedEmpty == Holds(T!Decoded(<<>>), 0, 0, <<>>)
  <1>1. <<>> \in Seq(0..33) /\ Len(<<>>) = 0
    OBVIOUS
  <1>2. PICK g : Decoding(<<>>, g) /\ T!Decoded(<<>>) = g[0]
    BY <1>1, DecodingExists
  <1>3. g[0] = [acc |-> 0, nbits |-> 0, out |-> <<>>]
    BY <1>2 DEF Decoding
  <1>4. 0 % T!Pow2(0) = 0
    BY PowersOfTwo
  <1>5. PICK d : d = T!Decoded(<<>>)
    OBVIOUS
  <1>6. d = [acc |-> 0, nbits |-> 0, out |-> <<>>]
    BY <1>2, <1>3, <1>5
  <1>7. d \in Decoder /\ d.nbits = 0 /\ d.acc % T!Pow2(0) = 0 /\ d.out = <<>>
    BY <1>4, <1>6 DEF Decoder
  <1> QED BY <1>5, <1>7 DEF Holds

Encoder == [acc : Nat, bits : 0..4, out : Seq(0..31)]

LEMMA GroupsAre ==
  ASSUME NEW y
  PROVE  /\ T!Groups(y, 8) = <<(y \div 8) % 32>>
         /\ T!Groups(y, 9) = <<(y \div 16) % 32>>
         /\ T!Groups(y, 10) = <<(y \div 32) % 32, (y \div 1) % 32>>
         /\ T!Groups(y, 11) = <<(y \div 64) % 32, (y \div 2) % 32>>
         /\ T!Groups(y, 12) = <<(y \div 128) % 32, (y \div 4) % 32>>
  <1>1. ASSUME NEW x, NEW z
        PROVE  [i \in 1..1 |-> x] = <<x>> /\ [i \in 1..2 |-> IF i = 1 THEN x ELSE z] = <<x, z>>
    OBVIOUS
  <1>2. T!Groups(y, 8) = [i \in 1..1 |-> (y \div 8) % 32]
    BY PowersOfTwo DEF T!Groups
  <1>3. T!Groups(y, 9) = [i \in 1..1 |-> (y \div 16) % 32]
    BY PowersOfTwo DEF T!Groups
  <1>4. T!Groups(y, 10) = [i \in 1..2 |-> IF i = 1 THEN (y \div 32) % 32 ELSE (y \div 1) % 32]
    BY PowersOfTwo DEF T!Groups
  <1>5. T!Groups(y, 11) = [i \in 1..2 |-> IF i = 1 THEN (y \div 64) % 32 ELSE (y \div 2) % 32]
    BY PowersOfTwo DEF T!Groups
  <1>6. T!Groups(y, 12) = [i \in 1..2 |-> IF i = 1 THEN (y \div 128) % 32 ELSE (y \div 4) % 32]
    BY PowersOfTwo DEF T!Groups
  <1> QED BY <1>1, <1>2, <1>3, <1>4, <1>5, <1>6

(* The groups of five bits of y, which is a byte a with a byte b behind it.*)
GroupsOf(a, b, y) ==
  /\ (y \div 8) % 32 = b \div 8
  /\ (y \div 16) % 32 = 16 * (a % 2) + (b \div 16)
  /\ (y \div 32) % 32 = 8 * (a % 4) + (b \div 32) /\ (y \div 1) % 32 = b % 32
  /\ (y \div 64) % 32 = 4 * (a % 8) + (b \div 64) /\ (y \div 2) % 32 = (b \div 2) % 32
  /\ (y \div 128) % 32 = 2 * (a % 16) + (b \div 128) /\ (y \div 4) % 32 = (b \div 4) % 32

LEMMA TwoBytes ==
  ASSUME NEW a \in 0..255, NEW b \in 0..255, NEW y, y = 256 * a + b
  PROVE  GroupsOf(a, b, y)
  <1>1. y \in Nat
    BY SMT
  <1>2. (y \div 8) % 32 = b \div 8 /\ (y \div 16) % 32 = 16 * (a % 2) + (b \div 16)
    BY SMT
  <1>3. (y \div 32) % 32 = 8 * (a % 4) + (b \div 32) /\ (y \div 1) % 32 = b % 32
    BY SMT
  <1>4. (y \div 64) % 32 = 4 * (a % 8) + (b \div 64) /\ (y \div 2) % 32 = (b \div 2) % 32
    BY SMT
  <1>5. (y \div 128) % 32 = 2 * (a % 16) + (b \div 128) /\ (y \div 4) % 32 = (b \div 4) % 32
    BY SMT
  <1> QED BY <1>2, <1>3, <1>4, <1>5, SMT DEF GroupsOf

LEMMA ByteShiftedIn ==
  ASSUME NEW x \in Nat, NEW b \in 0..255
  PROVE  T!ShiftIn(x, 256, b) = 256 * (x % 256) + b
  <1>1. PICK q, a : q = x \div 256 /\ a = x % 256
    OBVIOUS
  <1>2. q \in Nat /\ a \in Nat /\ a < 256 /\ x = 256 * q + a
    BY <1>1, SMT
  <1>3. (x * 256 + b) % 65536 = 256 * a + b
    BY <1>2, SMT
  <1> QED BY <1>1, <1>3, SMT DEF T!ShiftIn

(* What e has put out decodes to q, but for the bits of the last byte that *)
(* are still in e; p is q without that byte.                               *)
Synced(e, q) ==
  /\ e \in Encoder
  /\ e.bits = 0 => Holds(T!Decoded(e.out), 0, 0, q)
  /\ e.bits # 0 => \E p : /\ q = Append(p, e.acc % 256)
                          /\ Holds(T!Decoded(e.out), 8 - e.bits, (e.acc % 256) \div T!Pow2(e.bits), p)

(* One or two characters more.                                             *)
LEMMA PutOne ==
  ASSUME NEW t \in Seq(0..31), NEW x \in 0..31
  PROVE  /\ t \o <<x>> \in Seq(0..31)
         /\ T!Decoded(t \o <<x>>) = T!TakeChar(T!Decoded(t), x)
  <1>1. t \o <<x>> = Append(t, x) /\ t \o <<x>> \in Seq(0..31)
    OBVIOUS
  <1>2. t \in Seq(0..33) /\ x \in 0..33
    BY SeqMonotonic
  <1> QED BY <1>1, <1>2, DecodedAppend

LEMMA ShortSeqs ==
  ASSUME NEW S, NEW x \in S, NEW z \in S
  PROVE  /\ <<x>> \in Seq(S) /\ <<z>> \in Seq(S) /\ <<x, z>> \in Seq(S)
         /\ <<x>> \o <<z>> = <<x, z>>
  <1>1. <<x>> \in Seq(S) /\ <<z>> \in Seq(S) /\ <<x, z>> \in Seq(S)
    OBVIOUS
  <1>2. PICK u : u = <<x>> \o <<z>>
    OBVIOUS
  <1>3. u \in Seq(S) /\ Len(u) = 2 /\ u[1] = x /\ u[2] = z
    BY <1>1, <1>2, ConcatProperties
  <1>4. PICK v : v = <<x, z>>
    OBVIOUS
  <1>5. v \in Seq(S) /\ Len(v) = 2 /\ v[1] = x /\ v[2] = z
    BY <1>1, <1>4
  <1>6. \A i \in 1..Len(u) : u[i] = v[i]
    <2>1. \A i \in 1..2 : i = 1 \/ i = 2
      OBVIOUS
    <2> QED BY <1>3, <1>5, <2>1
  <1>7. u = v
    BY <1>3, <1>5, <1>6, SeqEqual
  <1> QED BY <1>1, <1>2, <1>4, <1>7

LEMMA PutTwo ==
  ASSUME NEW t \in Seq(0..31), NEW x \in 0..31, NEW z \in 0..31
  PROVE  /\ t \o <<x, z>> \in Seq(0..31)
         /\ T!Decoded(t \o <<x, z>>) = T!TakeChar(T!TakeChar(T!Decoded(t), x), z)
  <1>1. PICK u : u = t \o <<x>>
    OBVIOUS
  <1>2. t \o <<x, z>> = u \o <<z>>
    <2>1. <<x>> \in Seq(0..31) /\ <<z>> \in Seq(0..31) /\ <<x>> \o <<z>> = <<x, z>>
      BY ShortSeqs
    <2>2. (t \o <<x>>) \o <<z>> = t \o (<<x>> \o <<z>>)
      BY <2>1, ConcatAssociative
    <2> QED BY <1>1, <2>1, <2>2
  <1>3. u \in Seq(0..31) /\ T!Decoded(u) = T!TakeChar(T!Decoded(t), x)
    BY <1>1, PutOne
  <1>4. u \o <<z>> \in Seq(0..31) /\ T!Decoded(u \o <<z>>) = T!TakeChar(T!Decoded(u), z)
    BY <1>3, PutOne
  <1> QED BY <1>2, <1>3, <1>4

LEMMA PutByteIs ==
  ASSUME NEW e \in Encoder, NEW b \in 0..255, NEW y, y = T!ShiftIn(e.acc, 256, b)
  PROVE  T!PutByte(e, b) = [acc |-> y, bits |-> (e.bits + 8) % 5, out |-> e.out \o T!Groups(y, e.bits + 8)]
  BY DEF T!PutByte

(* The bits of a byte a that waited and of the byte b behind it.           *)
LEMMA PutByteType ==
  ASSUME NEW e \in Encoder, NEW b \in 0..255
  PROVE  /\ T!PutByte(e, b) \in Encoder
         /\ T!PutByte(e, b).bits = (e.bits + 8) % 5
         /\ T!PutByte(e, b).acc = 256 * (e.acc % 256) + b
         /\ T!PutByte(e, b).out = e.out \o T!Groups(256 * (e.acc % 256) + b, e.bits + 8)
  <1>1. PICK y, k : y = T!ShiftIn(e.acc, 256, b) /\ k = e.bits
    OBVIOUS
  <1>2. y = 256 * (e.acc % 256) + b /\ y \in Nat /\ k \in 0..4 /\ e.out \in Seq(0..31)
    <2>1. e.acc \in Nat /\ k \in 0..4 /\ e.out \in Seq(0..31)
      BY <1>1 DEF Encoder
    <2>2. PICK x : x = e.acc % 256
      OBVIOUS
    <2>3. x \in Nat
      BY <2>1, <2>2
    <2>4. y = 256 * (e.acc % 256) + b
      BY <1>1, <2>1, ByteShiftedIn, ZenonT(40)
    <2>5. y \in Nat
      <3>1. y = 256 * x + b
        BY <2>2, <2>4
      <3> QED BY <2>3, <3>1
    <2> QED BY <2>1, <2>4, <2>5
  <1>3. T!PutByte(e, b) = [acc |-> y, bits |-> (k + 8) % 5, out |-> e.out \o T!Groups(y, k + 8)]
    BY <1>1, PutByteIs, ZenonT(40)
  <1>4. T!Groups(y, k + 8) \in Seq(0..31)
    <2>1. ASSUME NEW x \in Nat PROVE x % 32 \in 0..31
      OBVIOUS
    <2>y. y \in Nat
      BY <1>2
    <2>2. y \div 8 \in Nat /\ y \div 16 \in Nat /\ y \div 32 \in Nat /\ y \div 64 \in Nat /\ y \div 128 \in Nat
      BY <2>y, SMTT(40)
    <2>3. y \div 1 \in Nat /\ y \div 2 \in Nat /\ y \div 4 \in Nat
      BY <2>y, SMTT(40)
    <2>4. PICK S : S = 0..31
      OBVIOUS
    <2>5. /\ (y \div 8) % 32 \in S /\ (y \div 16) % 32 \in S /\ (y \div 32) % 32 \in S
          /\ (y \div 64) % 32 \in S /\ (y \div 128) % 32 \in S
      BY <2>1, <2>2, <2>4
    <2>6. (y \div 1) % 32 \in S /\ (y \div 2) % 32 \in S /\ (y \div 4) % 32 \in S
      BY <2>1, <2>3, <2>4
    <2>7. T!Groups(y, 8) \in Seq(S) /\ T!Groups(y, 9) \in Seq(S) /\ T!Groups(y, 10) \in Seq(S)
          /\ T!Groups(y, 11) \in Seq(S) /\ T!Groups(y, 12) \in Seq(S)
      <3>1. \A x \in S, z \in S : <<x>> \in Seq(S) /\ <<x, z>> \in Seq(S)
        BY ShortSeqs
      <3>2. PICK Q : Q = Seq(S)
        OBVIOUS
      <3>3. T!Groups(y, 8) \in Q /\ T!Groups(y, 9) \in Q
        <4>1. PICK u, w : u = (y \div 8) % 32 /\ w = (y \div 16) % 32
          OBVIOUS
        <4>2. u \in S /\ w \in S
          BY <2>5, <4>1
        <4>3. T!Groups(y, 8) = <<u>> /\ T!Groups(y, 9) = <<w>>
          BY <4>1, GroupsAre, Zenon
        <4> QED BY <3>1, <3>2, <4>2, <4>3
      <3>4. T!Groups(y, 10) \in Q
        <4>1. PICK u, w : u = (y \div 32) % 32 /\ w = (y \div 1) % 32
          OBVIOUS
        <4>2. u \in S /\ w \in S
          BY <2>5, <2>6, <4>1
        <4>3. T!Groups(y, 10) = <<u, w>>
          BY <4>1, GroupsAre, Zenon
        <4> QED BY <3>1, <3>2, <4>2, <4>3
      <3>5. T!Groups(y, 11) \in Q
        <4>1. PICK u, w : u = (y \div 64) % 32 /\ w = (y \div 2) % 32
          OBVIOUS
        <4>2. u \in S /\ w \in S
          BY <2>5, <2>6, <4>1
        <4>3. T!Groups(y, 11) = <<u, w>>
          BY <4>1, GroupsAre, Zenon
        <4> QED BY <3>1, <3>2, <4>2, <4>3
      <3>6. T!Groups(y, 12) \in Q
        <4>1. PICK u, w : u = (y \div 128) % 32 /\ w = (y \div 4) % 32
          OBVIOUS
        <4>2. u \in S /\ w \in S
          BY <2>5, <2>6, <4>1
        <4>3. T!Groups(y, 12) = <<u, w>>
          BY <4>1, GroupsAre, Zenon
        <4> QED BY <3>1, <3>2, <4>2, <4>3
      <3> QED BY <3>2, <3>3, <3>4, <3>5, <3>6
    <2>8. k = 0 \/ k = 1 \/ k = 2 \/ k = 3 \/ k = 4
      BY <1>2
    <2> QED BY <2>4, <2>7, <2>8
  <1>5. e.out \o T!Groups(y, k + 8) \in Seq(0..31)
    BY <1>2, <1>4, ConcatProperties
  <1>6. (k + 8) % 5 \in 0..4
    BY <1>2
  <1>7. T!PutByte(e, b) \in Encoder
    BY <1>2, <1>3, <1>5, <1>6 DEF Encoder
  <1>8. PICK r : r = T!PutByte(e, b)
    OBVIOUS
  <1>9. r.acc = y /\ r.bits = (k + 8) % 5 /\ r.out = e.out \o T!Groups(y, k + 8)
    <2>1. PICK m, o : m = (k + 8) % 5 /\ o = e.out \o T!Groups(y, k + 8)
      OBVIOUS
    <2>2. r = [acc |-> y, bits |-> m, out |-> o]
      BY <1>3, <1>8, <2>1, Zenon
    <2> QED BY <2>1, <2>2
  <1> QED BY <1>1, <1>2, <1>7, <1>8, <1>9

(* Where a byte a ends and the byte b behind it begins, for each number of *)
(* the low bits of a that waited.                                          *)
Seams(a, b) ==
  /\ b \div 8 \in 0..31
  /\ 16 * (a % 2) + (b \div 16) \in 0..31 /\ 8 * (a % 4) + (b \div 32) \in 0..31 /\ b % 32 \in 0..31
  /\ 4 * (a % 8) + (b \div 64) \in 0..31 /\ (b \div 2) % 32 \in 0..31
  /\ 2 * (a % 16) + (b \div 128) \in 0..31 /\ (b \div 4) % 32 \in 0..31
  /\ (16 * (a % 2) + (b \div 16)) % 16 = b \div 16
  /\ 2 * (a \div 2) + ((16 * (a % 2) + (b \div 16)) \div 16) = a
  /\ (8 * (a % 4) + (b \div 32)) % 8 = b \div 32
  /\ 4 * (a \div 4) + ((8 * (a % 4) + (b \div 32)) \div 8) = a
  /\ 32 * (b \div 32) + (b % 32) = b
  /\ (4 * (a % 8) + (b \div 64)) % 4 = b \div 64
  /\ 8 * (a \div 8) + ((4 * (a % 8) + (b \div 64)) \div 4) = a
  /\ 32 * (b \div 64) + ((b \div 2) % 32) = b \div 2
  /\ (2 * (a % 16) + (b \div 128)) % 2 = b \div 128
  /\ 16 * (a \div 16) + ((2 * (a % 16) + (b \div 128)) \div 2) = a
  /\ 32 * (b \div 128) + ((b \div 4) % 32) = b \div 4

LEMMA SeamsFit ==
  ASSUME NEW a \in Nat, a < 256, NEW b \in Nat, b < 256
  PROVE  Seams(a, b)
  <1>1. /\ b \div 8 \in 0..31
        /\ 16 * (a % 2) + (b \div 16) \in 0..31 /\ 8 * (a % 4) + (b \div 32) \in 0..31 /\ b % 32 \in 0..31
    BY SMT
  <1>2. /\ 4 * (a % 8) + (b \div 64) \in 0..31 /\ (b \div 2) % 32 \in 0..31
        /\ 2 * (a % 16) + (b \div 128) \in 0..31 /\ (b \div 4) % 32 \in 0..31
    BY SMT
  <1>3. /\ (16 * (a % 2) + (b \div 16)) % 16 = b \div 16
        /\ 2 * (a \div 2) + ((16 * (a % 2) + (b \div 16)) \div 16) = a
    BY SMT
  <1>4. /\ (8 * (a % 4) + (b \div 32)) % 8 = b \div 32
        /\ 4 * (a \div 4) + ((8 * (a % 4) + (b \div 32)) \div 8) = a
        /\ 32 * (b \div 32) + (b % 32) = b
    BY SMT
  <1>5. /\ (4 * (a % 8) + (b \div 64)) % 4 = b \div 64
        /\ 8 * (a \div 8) + ((4 * (a % 8) + (b \div 64)) \div 4) = a
        /\ 32 * (b \div 64) + ((b \div 2) % 32) = b \div 2
    BY SMT
  <1>6. /\ (2 * (a % 16) + (b \div 128)) % 2 = b \div 128
        /\ 16 * (a \div 16) + ((2 * (a % 16) + (b \div 128)) \div 2) = a
        /\ 32 * (b \div 128) + ((b \div 4) % 32) = b \div 4
    BY SMT
  <1> QED BY <1>1, <1>2, <1>3, <1>4, <1>5, <1>6, Zenon DEF Seams

(* One byte more.                                                          *)
LEMMA PutByteSynced ==
  ASSUME NEW e, NEW q, Synced(e, q), NEW b \in 0..255, NEW r, r = T!PutByte(e, b)
  PROVE  Synced(r, Append(q, b))
  <1>1. PICK k, x, t : k = e.bits /\ x = e.acc /\ t = e.out
    OBVIOUS
  <1>2. e \in Encoder /\ k \in 0..4 /\ x \in Nat /\ t \in Seq(0..31)
    BY <1>1 DEF Synced, Encoder
  <1>3. PICK a : a = x % 256
    OBVIOUS
  <1>4. a \in Nat /\ a < 256 /\ a \in 0..255 /\ b \in Nat /\ b < 256
    BY <1>2, <1>3
  <1>5. PICK y : y = 256 * a + b
    OBVIOUS
  <1>6. y % 256 = b
    BY <1>4, <1>5
  <1>7. r \in Encoder /\ r.bits = (k + 8) % 5 /\ r.acc = y /\ r.out = t \o T!Groups(y, k + 8)
    <2>1. y = 256 * (e.acc % 256) + b
      BY <1>1, <1>3, <1>5
    <2>2. PICK w : w = 256 * (e.acc % 256) + b
      OBVIOUS
    <2>3. r \in Encoder /\ r.bits = (e.bits + 8) % 5 /\ r.acc = w /\ r.out = e.out \o T!Groups(w, e.bits + 8)
      <3>1. /\ T!PutByte(e, b) \in Encoder
            /\ T!PutByte(e, b).bits = (e.bits + 8) % 5
            /\ T!PutByte(e, b).acc = 256 * (e.acc % 256) + b
            /\ T!PutByte(e, b).out = e.out \o T!Groups(256 * (e.acc % 256) + b, e.bits + 8)
        BY <1>2, PutByteType, ZenonT(40)
      <3> QED BY <2>2, <3>1, Zenon
    <2> QED BY <1>1, <2>1, <2>2, <2>3, Zenon
  <1>8. GroupsOf(a, b, y)
    BY <1>4, <1>5, TwoBytes
  <1>9. Seams(a, b)
    BY <1>4, SeamsFit
  <1>10. PICK d : d = T!Decoded(t)
    OBVIOUS
  <1>11. k # 0 => \E p : q = Append(p, a) /\ Holds(d, 8 - k, a \div T!Pow2(k), p)
    BY <1>1, <1>3, <1>10 DEF Synced
  <1>12. CASE k = 0
    <2>1. Holds(d, 0, 0, q)
      BY <1>1, <1>10, <1>12 DEF Synced
    <2>2. PICK c : c = b \div 8
      OBVIOUS
    <2>3. c \in 0..31 /\ r.out = t \o <<c>> /\ r.bits = 3
      <3>1. T!Groups(y, 8) = <<c>>
        BY <1>8, <2>2, GroupsAre DEF GroupsOf
      <3>2. c \in 0..31
        BY <1>9, <2>2 DEF Seams
      <3>3. k + 8 = 8 /\ r.bits = 3
        BY <1>7, <1>12, SMT
      <3>4. r.out = t \o <<c>>
        BY <1>7, <3>1, <3>3, Zenon
      <3> QED BY <3>2, <3>3, <3>4
    <2>4. PICK f : f = T!TakeChar(d, c)
      OBVIOUS
    <2>5. T!Decoded(r.out) = f
      BY <1>2, <1>10, <2>3, <2>4, PutOne
    <2>6. Holds(f, 5, c, q)
      BY <2>1, <2>3, <2>4, Taken
    <2>7. 8 - r.bits = 5 /\ r.acc % 256 = b /\ (r.acc % 256) \div T!Pow2(r.bits) = c
      BY <1>6, <1>7, <2>2, <2>3, PowersOfTwo
    <2> QED BY <1>7, <2>3, <2>5, <2>6, <2>7 DEF Synced
  <1>13. CASE k = 1
    <2>1. PICK p : q = Append(p, a) /\ Holds(d, 7, a \div 2, p)
      <3>1. 8 - k = 7 /\ T!Pow2(k) = 2
        BY <1>13, PowersOfTwo
      <3> QED BY <1>11, <1>13, <3>1
    <2>2. PICK c : c = 16 * (a % 2) + (b \div 16)
      OBVIOUS
    <2>3. c \in 0..31 /\ r.out = t \o <<c>> /\ r.bits = 4
      <3>1. T!Groups(y, 9) = <<c>>
        BY <1>8, <2>2, GroupsAre DEF GroupsOf
      <3>2. c \in 0..31
        BY <1>9, <2>2 DEF Seams
      <3>3. k + 8 = 9 /\ r.bits = 4
        BY <1>7, <1>13, SMT
      <3>4. r.out = t \o <<c>>
        BY <1>7, <3>1, <3>3, Zenon
      <3> QED BY <3>2, <3>3, <3>4
    <2>4. PICK f, low : f = T!TakeChar(d, c) /\ low = a \div 2
      OBVIOUS
    <2>5. T!Decoded(r.out) = f
      BY <1>2, <1>10, <2>3, <2>4, PutOne
    <2>6. Holds(f, 4, c % 16, Append(p, 2 * low + (c \div 16)))
      <3>1. PICK n : n = 7
        OBVIOUS
      <3>c. c \in 0..31
        BY <2>3
      <3>f. f = T!TakeChar(d, c)
        BY <2>4
      <3>2. Holds(d, n, low, p) /\ n \in 0..7
        BY <2>1, <2>4, <3>1
      <3>3. Holds(f, 4, c % 16, Append(p, 2 * low + (c \div 16)))
        BY <3>c, <3>f, <3>1, <3>2, Taken, SMT
      <3> QED BY <3>3
    <2>7. 2 * low + (c \div 16) = a /\ c % 16 = b \div 16
      BY <1>9, <2>2, <2>4 DEF Seams
    <2>8. 8 - r.bits = 4 /\ r.acc % 256 = b /\ (r.acc % 256) \div T!Pow2(r.bits) = b \div 16
      BY <1>6, <1>7, <2>3, PowersOfTwo
    <2>9. Holds(f, 4, b \div 16, q)
      BY <2>1, <2>6, <2>7
    <2> QED BY <1>7, <2>3, <2>5, <2>8, <2>9 DEF Synced
  <1>14. CASE k = 2
    <2>1. PICK p : q = Append(p, a) /\ Holds(d, 6, a \div 4, p)
      <3>1. 8 - k = 6 /\ T!Pow2(k) = 4
        BY <1>14, PowersOfTwo
      <3> QED BY <1>11, <1>14, <3>1
    <2>2. PICK c, z, h : c = 8 * (a % 4) + (b \div 32) /\ z = b % 32 /\ h = b \div 32
      OBVIOUS
    <2>3. c \in 0..31 /\ z \in 0..31 /\ r.out = t \o <<c, z>> /\ r.bits = 0
      <3>1. T!Groups(y, 10) = <<c, z>>
        BY <1>8, <2>2, GroupsAre, ZenonT(40) DEF GroupsOf
      <3>2. c \in 0..31 /\ z \in 0..31
        BY <1>9, <2>2 DEF Seams
      <3>3. k + 8 = 10 /\ r.bits = 0
        BY <1>7, <1>14, SMT
      <3>4. r.out = t \o <<c, z>>
        BY <1>7, <3>1, <3>3, Zenon
      <3> QED BY <3>2, <3>3, <3>4
    <2>4. PICK f, g, low : f = T!TakeChar(d, c) /\ g = T!TakeChar(f, z) /\ low = a \div 4
      OBVIOUS
    <2>5. T!Decoded(r.out) = g
      <3>c. c \in 0..31 /\ z \in 0..31
        BY <2>3
      <3>1. T!Decoded(t \o <<c, z>>) = T!TakeChar(T!TakeChar(T!Decoded(t), c), z)
        BY <1>2, <3>c, PutTwo
      <3> QED BY <1>10, <2>3, <2>4, <3>1
    <2>6. Holds(f, 3, c % 8, Append(p, 4 * low + (c \div 8)))
      <3>1. PICK n : n = 6
        OBVIOUS
      <3>c. c \in 0..31
        BY <2>3
      <3>f. f = T!TakeChar(d, c)
        BY <2>4
      <3>2. Holds(d, n, low, p) /\ n \in 0..7
        BY <2>1, <2>4, <3>1
      <3>3. Holds(f, 3, c % 8, Append(p, 4 * low + (c \div 8)))
        BY <3>c, <3>f, <3>1, <3>2, Taken, SMT
      <3> QED BY <3>3
    <2>7. 4 * low + (c \div 8) = a /\ c % 8 = h /\ 32 * h + z = b
      BY <1>9, <2>2, <2>4 DEF Seams
    <2>8. Holds(f, 3, h, q)
      BY <2>1, <2>6, <2>7
    <2>9. Holds(g, 0, 0, Append(q, 32 * h + z))
      BY <2>3, <2>4, <2>8, Taken, SMTT(40)
    <2> QED BY <1>7, <2>3, <2>5, <2>7, <2>9 DEF Synced
  <1>15. CASE k = 3
    <2>1. PICK p : q = Append(p, a) /\ Holds(d, 5, a \div 8, p)
      <3>1. 8 - k = 5 /\ T!Pow2(k) = 8
        BY <1>15, PowersOfTwo
      <3> QED BY <1>11, <1>15, <3>1
    <2>2. PICK c, z, h : c = 4 * (a % 8) + (b \div 64) /\ z = (b \div 2) % 32 /\ h = b \div 64
      OBVIOUS
    <2>3. c \in 0..31 /\ z \in 0..31 /\ r.out = t \o <<c, z>> /\ r.bits = 1
      <3>1. T!Groups(y, 11) = <<c, z>>
        BY <1>8, <2>2, GroupsAre, ZenonT(40) DEF GroupsOf
      <3>2. c \in 0..31 /\ z \in 0..31
        BY <1>9, <2>2 DEF Seams
      <3>3. k + 8 = 11 /\ r.bits = 1
        BY <1>7, <1>15, SMT
      <3>4. r.out = t \o <<c, z>>
        BY <1>7, <3>1, <3>3, Zenon
      <3> QED BY <3>2, <3>3, <3>4
    <2>4. PICK f, g, low : f = T!TakeChar(d, c) /\ g = T!TakeChar(f, z) /\ low = a \div 8
      OBVIOUS
    <2>5. T!Decoded(r.out) = g
      <3>c. c \in 0..31 /\ z \in 0..31
        BY <2>3
      <3>1. T!Decoded(t \o <<c, z>>) = T!TakeChar(T!TakeChar(T!Decoded(t), c), z)
        BY <1>2, <3>c, PutTwo
      <3> QED BY <1>10, <2>3, <2>4, <3>1
    <2>6. Holds(f, 2, c % 4, Append(p, 8 * low + (c \div 4)))
      <3>1. PICK n : n = 5
        OBVIOUS
      <3>c. c \in 0..31
        BY <2>3
      <3>f. f = T!TakeChar(d, c)
        BY <2>4
      <3>2. Holds(d, n, low, p) /\ n \in 0..7
        BY <2>1, <2>4, <3>1
      <3>3. Holds(f, 2, c % 4, Append(p, 8 * low + (c \div 4)))
        BY <3>c, <3>f, <3>1, <3>2, Taken, SMT
      <3> QED BY <3>3
    <2>7. 8 * low + (c \div 4) = a /\ c % 4 = h /\ 32 * h + z = b \div 2
      BY <1>9, <2>2, <2>4 DEF Seams
    <2>8. Holds(f, 2, h, q)
      BY <2>1, <2>6, <2>7
    <2>9. Holds(g, 7, 32 * h + z, q)
      BY <2>3, <2>4, <2>8, Taken
    <2>10. 8 - r.bits = 7 /\ r.acc % 256 = b /\ (r.acc % 256) \div T!Pow2(r.bits) = b \div 2
      BY <1>6, <1>7, <2>3, PowersOfTwo
    <2>11. Holds(T!Decoded(r.out), 8 - r.bits, (r.acc % 256) \div T!Pow2(r.bits), q)
      BY <2>5, <2>7, <2>9, <2>10
    <2>12. Append(q, b) = Append(q, r.acc % 256)
      BY <2>10
    <2> QED BY <1>7, <2>3, <2>11, <2>12 DEF Synced
  <1>16. CASE k = 4
    <2>1. PICK p : q = Append(p, a) /\ Holds(d, 4, a \div 16, p)
      <3>1. 8 - k = 4 /\ T!Pow2(k) = 16
        BY <1>16, PowersOfTwo
      <3> QED BY <1>11, <1>16, <3>1
    <2>2. PICK c, z, h : c = 2 * (a % 16) + (b \div 128) /\ z = (b \div 4) % 32 /\ h = b \div 128
      OBVIOUS
    <2>3. c \in 0..31 /\ z \in 0..31 /\ r.out = t \o <<c, z>> /\ r.bits = 2
      <3>1. T!Groups(y, 12) = <<c, z>>
        BY <1>8, <2>2, GroupsAre, ZenonT(40) DEF GroupsOf
      <3>2. c \in 0..31 /\ z \in 0..31
        BY <1>9, <2>2 DEF Seams
      <3>3. k + 8 = 12 /\ r.bits = 2
        BY <1>7, <1>16, SMT
      <3>4. r.out = t \o <<c, z>>
        BY <1>7, <3>1, <3>3, Zenon
      <3> QED BY <3>2, <3>3, <3>4
    <2>4. PICK f, g, low : f = T!TakeChar(d, c) /\ g = T!TakeChar(f, z) /\ low = a \div 16
      OBVIOUS
    <2>5. T!Decoded(r.out) = g
      <3>c. c \in 0..31 /\ z \in 0..31
        BY <2>3
      <3>1. T!Decoded(t \o <<c, z>>) = T!TakeChar(T!TakeChar(T!Decoded(t), c), z)
        BY <1>2, <3>c, PutTwo
      <3> QED BY <1>10, <2>3, <2>4, <3>1
    <2>6. Holds(f, 1, c % 2, Append(p, 16 * low + (c \div 2)))
      <3>1. PICK n : n = 4
        OBVIOUS
      <3>c. c \in 0..31
        BY <2>3
      <3>f. f = T!TakeChar(d, c)
        BY <2>4
      <3>2. Holds(d, n, low, p) /\ n \in 0..7
        BY <2>1, <2>4, <3>1
      <3>3. Holds(f, 1, c % 2, Append(p, 16 * low + (c \div 2)))
        BY <3>c, <3>f, <3>1, <3>2, Taken, SMT
      <3> QED BY <3>3
    <2>7. 16 * low + (c \div 2) = a /\ c % 2 = h /\ 32 * h + z = b \div 4
      BY <1>9, <2>2, <2>4 DEF Seams
    <2>8. Holds(f, 1, h, q)
      BY <2>1, <2>6, <2>7
    <2>9. Holds(g, 6, 32 * h + z, q)
      BY <2>3, <2>4, <2>8, Taken
    <2>10. 8 - r.bits = 6 /\ r.acc % 256 = b /\ (r.acc % 256) \div T!Pow2(r.bits) = b \div 4
      BY <1>6, <1>7, <2>3, PowersOfTwo
    <2>11. Holds(T!Decoded(r.out), 8 - r.bits, (r.acc % 256) \div T!Pow2(r.bits), q)
      BY <2>5, <2>7, <2>9, <2>10
    <2>12. Append(q, b) = Append(q, r.acc % 256)
      BY <2>10
    <2> QED BY <1>7, <2>3, <2>11, <2>12 DEF Synced
  <1> QED BY <1>2, <1>12, <1>13, <1>14, <1>15, <1>16

Encoding(q, g) ==
  /\ g \in [0..Len(q) -> Encoder]
  /\ g[0] = [acc |-> 0, bits |-> 0, out |-> <<>>]
  /\ \A i \in 1..Len(q) : g[i] = T!PutByte(g[i - 1], q[i])

LEMMA EncodingExists ==
  ASSUME NEW q \in Seq(0..255)
  PROVE  \E g : Encoding(q, g) /\ T!Encoded(q) = g[Len(q)]
  <1>1. PICK n \in Nat : n = Len(q)
    BY LenProperties
  <1>2. \A i \in 1..n : q[i] \in 0..255
    BY <1>1, ElementOfSeq
  <1>3. PICK c : c = [acc |-> 0, bits |-> 0, out |-> <<>>]
    OBVIOUS
  <1>4. c \in Encoder
    BY <1>3 DEF Encoder
  <1>5. PICK D : D = [x \in (1..n) \X Encoder |-> T!PutByte(x[2], q[x[1]])]
    OBVIOUS
  <1>6. D \in [(1..n) \X Encoder -> Encoder]
    BY <1>2, <1>5, PutByteType, ZenonT(40)
  <1>7. PICK g : Steps(g, Encoder, c, n, D)
    BY <1>4, <1>6, RecursionExists, Zenon
  <1>8. \A i \in 1..n : g[i] = T!PutByte(g[i - 1], q[i])
    <2> SUFFICES ASSUME NEW i \in 1..n PROVE g[i] = T!PutByte(g[i - 1], q[i])
      OBVIOUS
    <2>1. i - 1 \in 0..n /\ g[i - 1] \in Encoder
      BY <1>7 DEF Steps
    <2>2. D[<<i, g[i - 1]>>] = T!PutByte(g[i - 1], q[i])
      BY <1>5, <2>1
    <2> QED BY <1>7, <2>2 DEF Steps
  <1>9. g = [i \in 0..Len(q) |->
               IF i = 0 THEN [acc |-> 0, bits |-> 0, out |-> <<>>] ELSE T!PutByte(g[i - 1], q[i])]
    BY <1>1, <1>3, <1>7, <1>8 DEF Steps
  <1>10. PICK h : /\ h = [i \in 0..Len(q) |->
                           IF i = 0 THEN [acc |-> 0, bits |-> 0, out |-> <<>>] ELSE T!PutByte(h[i - 1], q[i])]
                  /\ T!Encoded(q) = h[Len(q)]
    BY <1>9, Zenon DEF T!Encoded
  <1>11. SameSteps(g, h, n)
    <2>1. g[0] = h[0]
      <3>1. g[0] = c
        BY <1>7 DEF Steps
      <3>2. h[0] = [acc |-> 0, bits |-> 0, out |-> <<>>]
        BY <1>1, <1>10
      <3> QED BY <1>3, <3>1, <3>2
    <2>2. \A i \in 1..n : h[i] = T!PutByte(h[i - 1], q[i])
      BY <1>1, <1>10, SMTT(40)
    <2> QED BY <1>8, <2>1, <2>2 DEF SameSteps
  <1>12. T!Encoded(q) = g[Len(q)]
    BY <1>1, <1>10, <1>11, StepByStep
  <1> QED BY <1>1, <1>3, <1>7, <1>8, <1>12 DEF Encoding, Steps

(* All bytes of q are put in, one after the other.                         *)
LEMMA EncodedSynced ==
  ASSUME NEW q \in Seq(0..255)
  PROVE  Synced(T!Encoded(q), q)
  <1>1. PICK n \in Nat : n = Len(q)
    BY LenProperties
  <1>2. PICK g : Encoding(q, g) /\ T!Encoded(q) = g[n]
    BY <1>1, EncodingExists
  <1> DEFINE S == {i \in Nat : i <= n => Synced(g[i], SubSeq(q, 1, i))}
  <1>3. 0 \in S
    <2>1. g[0] = [acc |-> 0, bits |-> 0, out |-> <<>>] /\ SubSeq(q, 1, 0) = <<>>
      BY <1>2, SubSeqEmpty DEF Encoding
    <2>2. PICK e : e = g[0]
      OBVIOUS
    <2>3. e \in Encoder /\ e.bits = 0 /\ e.out = <<>>
      BY <2>1, <2>2 DEF Encoder
    <2> QED BY <2>1, <2>2, <2>3, DecodedEmpty DEF Synced
  <1>4. ASSUME NEW i \in Nat, i \in S PROVE i + 1 \in S
    <2> SUFFICES ASSUME i + 1 <= n PROVE Synced(g[i + 1], SubSeq(q, 1, i + 1))
      OBVIOUS
    <2>1. i + 1 \in 1..n /\ (i + 1) - 1 = i
      OBVIOUS
    <2>2. PICK e, r, p, w, b : e = g[i] /\ r = g[i + 1] /\ p = SubSeq(q, 1, i)
                               /\ w = SubSeq(q, 1, i + 1) /\ b = q[i + 1]
      OBVIOUS
    <2>3. Synced(e, p)
      BY <1>4, <2>1, <2>2
    <2>4. b \in 0..255
      BY <1>1, <2>1, <2>2, ElementOfSeq
    <2>5. r = T!PutByte(e, b)
      BY <1>1, <1>2, <2>1, <2>2 DEF Encoding
    <2>6. w = Append(p, b)
      <3>1. p \in Seq(0..255)
        <4>1. \A j \in 1..i : q[j] \in 0..255
          <5> SUFFICES ASSUME NEW j \in 1..i PROVE q[j] \in 0..255
            OBVIOUS
          <5>1. j \in 1..Len(q)
            BY <1>1, <2>1
          <5> QED BY <5>1, ElementOfSeq
        <4> QED BY <2>2, <4>1, SubSeqProperties
      <3>2. w = p \o <<b>>
        <4>1. 1 \in 1..Len(q) /\ i + 1 \in 1..Len(q)
          BY <1>1, <2>1
        <4>2. w = SubSeq(q, 1, (i + 1) - 1) \o <<q[i + 1]>>
          BY <2>2, <4>1, SubSeqRecursiveSecond
        <4> QED BY <2>1, <2>2, <4>2
      <3> QED BY <2>4, <3>1, <3>2
    <2>7. Synced(r, w)
      <3>1. Synced(r, Append(p, b))
        BY <2>3, <2>4, <2>5, PutByteSynced
      <3> QED BY <2>6, <3>1
    <2> QED BY <2>2, <2>7
  <1> HIDE DEF S
  <1>5. n \in S
    BY <1>3, <1>4, SetInduction
  <1>6. Synced(g[n], SubSeq(q, 1, n))
    BY <1>5 DEF S
  <1>7. SubSeq(q, 1, n) = q
    BY <1>1, SubSeqFull
  <1> QED BY <1>2, <1>6, <1>7

(* The last character holds the bits that are left.                        *)
LEMMA LastBits ==
  ASSUME NEW x \in Nat
  PROVE  /\ 2 * ((x % 256) \div 2) + (((x * 16) % 32) \div 16) = x % 256
         /\ 4 * ((x % 256) \div 4) + (((x * 8) % 32) \div 8) = x % 256
         /\ 8 * ((x % 256) \div 8) + (((x * 4) % 32) \div 4) = x % 256
         /\ 16 * ((x % 256) \div 16) + (((x * 2) % 32) \div 2) = x % 256
  <1>1. 2 * ((x % 256) \div 2) + (((x * 16) % 32) \div 16) = x % 256
    BY SMT
  <1>2. 4 * ((x % 256) \div 4) + (((x * 8) % 32) \div 8) = x % 256
    BY SMT
  <1>3. 8 * ((x % 256) \div 8) + (((x * 4) % 32) \div 4) = x % 256
    BY SMT
  <1>4. 16 * ((x % 256) \div 16) + (((x * 2) % 32) \div 2) = x % 256
    BY SMT
  <1> QED BY <1>1, <1>2, <1>3, <1>4, Zenon

(* What is encoded decodes to itself, to the last bit.                     *)
LEMMA DecodesToItself ==
  ASSUME NEW q \in Seq(0..255)
  PROVE  /\ T!encode_base32(q) \in Seq(0..31)
         /\ T!Decoded(T!encode_base32(q)).out = q
  <1>1. PICK e, k, x, t : e = T!Encoded(q) /\ k = e.bits /\ x = e.acc /\ t = e.out
    OBVIOUS
  <1>2. Synced(e, q)
    BY <1>1, EncodedSynced
  <1>3. e \in Encoder /\ k \in 0..4 /\ x \in Nat /\ t \in Seq(0..31)
    BY <1>1, <1>2 DEF Synced, Encoder
  <1>4. PICK c : c = (x * T!Pow2(5 - k)) % 32
    OBVIOUS
  <1>5. T!encode_base32(q) = IF k = 0 THEN t ELSE Append(t, c)
    BY <1>1, <1>4, Zenon DEF T!encode_base32
  <1>6. CASE k = 0
    <2>1. T!encode_base32(q) = t /\ Holds(T!Decoded(t), 0, 0, q)
      BY <1>1, <1>2, <1>5, <1>6 DEF Synced
    <2> QED BY <1>3, <2>1 DEF Holds
  <1>7. CASE k # 0
    <2>1. PICK a, d : a = x % 256 /\ d = T!Decoded(t)
      OBVIOUS
    <2>2. PICK p : q = Append(p, a) /\ Holds(d, 8 - k, a \div T!Pow2(k), p)
      BY <1>1, <1>2, <1>7, <2>1 DEF Synced
    <2>3. PICK y, f : y = Append(t, c) /\ f = T!TakeChar(d, c)
      OBVIOUS
    <2>4. T!encode_base32(q) = y /\ y = t \o <<c>>
      BY <1>3, <1>5, <1>7, <2>3
    <2>5. c \in 0..31
      <3>1. k \in {1, 2, 3, 4}
        BY <1>3, <1>7
      <3>2. T!Pow2(5 - k) \in Nat
        BY <3>1, PowersOfTwo
      <3>3. PICK z : z = x * T!Pow2(5 - k)
        OBVIOUS
      <3>4. z \in Nat
        BY <1>3, <3>2, <3>3
      <3>5. c = z % 32
        BY <1>4, <3>3, Zenon
      <3> QED BY <3>4, <3>5
    <2>6. y \in Seq(0..31) /\ T!Decoded(y) = f
      BY <1>3, <2>1, <2>3, <2>4, <2>5, PutOne
    <2>7. PICK n, low : n = 8 - k /\ low = a \div T!Pow2(k)
      OBVIOUS
    <2>8. Holds(d, n, low, p) /\ n \in 0..7
      BY <1>3, <1>7, <2>2, <2>7
    <2>9. /\ n = 4 => Holds(f, 1, c % 2, Append(p, 16 * low + (c \div 2)))
          /\ n = 5 => Holds(f, 2, c % 4, Append(p, 8 * low + (c \div 4)))
          /\ n = 6 => Holds(f, 3, c % 8, Append(p, 4 * low + (c \div 8)))
          /\ n = 7 => Holds(f, 4, c % 16, Append(p, 2 * low + (c \div 16)))
      BY <2>3, <2>5, <2>8, Taken
    <2>10. CASE k = 1
      <3>1. n = 7 /\ low = a \div 2 /\ c = (x * 16) % 32
        <4>1. 5 - k = 4
          BY <2>10
        <4> QED BY <1>4, <2>7, <2>10, <4>1, PowersOfTwo
      <3>2. 2 * low + (c \div 16) = a
        BY <1>3, <2>1, <3>1, LastBits, Zenon
      <3> QED BY <2>2, <2>4, <2>6, <2>9, <3>1, <3>2, ZenonT(40) DEF Holds
    <2>11. CASE k = 2
      <3>1. n = 6 /\ low = a \div 4 /\ c = (x * 8) % 32
        <4>1. 5 - k = 3
          BY <2>11
        <4> QED BY <1>4, <2>7, <2>11, <4>1, PowersOfTwo
      <3>2. 4 * low + (c \div 8) = a
        BY <1>3, <2>1, <3>1, LastBits, Zenon
      <3> QED BY <2>2, <2>4, <2>6, <2>9, <3>1, <3>2, ZenonT(40) DEF Holds
    <2>12. CASE k = 3
      <3>1. n = 5 /\ low = a \div 8 /\ c = (x * 4) % 32
        <4>1. 5 - k = 2
          BY <2>12
        <4> QED BY <1>4, <2>7, <2>12, <4>1, PowersOfTwo
      <3>2. 8 * low + (c \div 4) = a
        BY <1>3, <2>1, <3>1, LastBits, Zenon
      <3> QED BY <2>2, <2>4, <2>6, <2>9, <3>1, <3>2 DEF Holds
    <2>13. CASE k = 4
      <3>1. n = 4 /\ low = a \div 16 /\ c = (x * 2) % 32
        <4>1. 5 - k = 1
          BY <2>13
        <4> QED BY <1>4, <2>7, <2>13, <4>1, PowersOfTwo
      <3>2. 16 * low + (c \div 2) = a
        BY <1>3, <2>1, <3>1, LastBits, Zenon
      <3> QED BY <2>2, <2>4, <2>6, <2>9, <3>1, <3>2 DEF Holds
    <2> QED BY <1>3, <1>7, <2>10, <2>11, <2>12, <2>13
  <1> QED BY <1>6, <1>7

LEMMA EncodedIsDecoded ==
  ASSUME NEW q \in Secret
  PROVE  T!encode_base32(q) \in Seq(0..33) /\ T!decode_base32(T!encode_base32(q)) = q
  <1>1. PICK t : t = T!encode_base32(q)
    OBVIOUS
  <1>2. q \in Seq(0..255) /\ q # <<>>
    BY DEF Secret
  <1>3. t \in Seq(0..31) /\ T!Decoded(t).out = q
    BY <1>1, <1>2, DecodesToItself
  <1>4. \A i \in 1..Len(t) : t[i] # T!Foreign
    <2> SUFFICES ASSUME NEW i \in 1..Len(t) PROVE t[i] # T!Foreign
      OBVIOUS
    <2>1. t[i] \in 0..31
      BY <1>3, ElementOfSeq
    <2>2. \A z \in 0..31 : z # 33
      OBVIOUS
    <2> QED BY <2>1, <2>2 DEF T!Foreign
  <1>5. T!decode_base32(t) = q
    BY <1>2, <1>3, <1>4 DEF T!decode_base32
  <1>6. t \in Seq(0..33)
    BY <1>3, SeqMonotonic
  <1> QED BY <1>1, <1>5, <1>6

(* A configuration is read from the URI that was made of it.               *)
LEMMA UriIsParsed ==
  ASSUME NEW c, Usable(c)
  PROVE  T!parse(T!to_uri(c)) = c
  <1>1. PICK s, d, p, a : s = c.secret /\ d = c.digits /\ p = c.period /\ a = c.algorithm
    OBVIOUS
  <1>2. /\ c = [secret |-> s, digits |-> d, period |-> p, algorithm |-> a]
        /\ s \in Secret /\ s # None /\ d \in 1..9 /\ p \in Nat \ {0} /\ a \in T!Algorithms
    BY <1>1 DEF Usable, Configs
  <1>3. PICK t : t = T!encode_base32(s)
    OBVIOUS
  <1>4. t \in Seq(0..33) /\ T!decode_base32(t) = s
    BY <1>2, <1>3, EncodedIsDecoded
  <1>5. PICK f1, f2, f3, f4 :
            /\ f1 = [key |-> "secret", text |-> t, num |-> 0, name |-> ""]
            /\ f2 = [key |-> "digits", text |-> <<>>, num |-> d, name |-> ""]
            /\ f3 = [key |-> "period", text |-> <<>>, num |-> p, name |-> ""]
            /\ f4 = [key |-> "algorithm", text |-> <<>>, num |-> 0, name |-> a]
    OBVIOUS
  <1>6. FieldIsRead(f1) /\ FieldIsRead(f2) /\ FieldIsRead(f3) /\ FieldIsRead(f4)
    <2>1. <<>> \in Seq(0..33) /\ d \in Nat /\ p \in Nat
      BY <1>2, EmptySeq
    <2> QED BY <1>2, <1>4, <1>5, <2>1 DEF FieldIsRead
  <1>k. /\ f1.key = "secret" /\ f1.text = t /\ f2.key = "digits" /\ f2.num = d
        /\ f3.key = "period" /\ f3.num = p /\ f4.key = "algorithm" /\ f4.name = a
    BY <1>5
  <1>7. PICK fs : fs = <<f1, f2, f3, f4>>
    OBVIOUS
  <1>8. Len(fs) = 4 /\ fs[1] = f1 /\ fs[2] = f2 /\ fs[3] = f3 /\ fs[4] = f4 /\ DOMAIN fs = 1..4
    BY <1>7
  <1>9. \A i \in 1..4 : i = 1 \/ i = 2 \/ i = 3 \/ i = 4
    OBVIOUS
  <1>10. PICK g : Taking(fs, g) /\ T!TakenFrom(fs) = g[4]
    <2>1. Len(fs) \in Nat /\ \A i \in 1..Len(fs) : FieldIsRead(fs[i])
      BY <1>6, <1>8, <1>9
    <2> QED BY <1>8, <2>1, TakingExists
  <1>11. /\ g[0] = T!Default /\ g[1] = T!TakeField(g[0], f1) /\ g[2] = T!TakeField(g[1], f2)
         /\ g[3] = T!TakeField(g[2], f3) /\ g[4] = T!TakeField(g[3], f4)
    <2>1. 1 \in 1..4 /\ 2 \in 1..4 /\ 3 \in 1..4 /\ 4 \in 1..4 /\ 1-1 = 0 /\ 2-1 = 1 /\ 3-1 = 2 /\ 4-1 = 3
      OBVIOUS
    <2> QED BY <1>8, <1>10, <2>1 DEF Taking
  <1>12. g[0] = [secret |-> None, digits |-> 6, period |-> 30, algorithm |-> "SHA1"]
    BY <1>11 DEF T!Default
  <1>13. g[1] = [secret |-> s, digits |-> 6, period |-> 30, algorithm |-> "SHA1"]
    <2>1. T!TakeField(g[0], f1) = [g[0] EXCEPT !.secret = s]
      BY <1>4, <1>k DEF T!TakeField
    <2> QED BY <1>11, <1>12, <2>1
  <1>14. g[2] = [secret |-> s, digits |-> d, period |-> 30, algorithm |-> "SHA1"]
    <2>1. T!TakeField(g[1], f2) = [g[1] EXCEPT !.digits = d]
      BY <1>2, <1>k DEF T!TakeField
    <2> QED BY <1>11, <1>13, <2>1
  <1>15. g[3] = [secret |-> s, digits |-> d, period |-> p, algorithm |-> "SHA1"]
    <2>1. T!TakeField(g[2], f3) = [g[2] EXCEPT !.period = p]
      BY <1>2, <1>k DEF T!TakeField
    <2> QED BY <1>11, <1>14, <2>1
  <1>16. g[4] = c
    <2>1. T!TakeField(g[3], f4) = [g[3] EXCEPT !.algorithm = a]
      BY <1>2, <1>k DEF T!TakeField
    <2> QED BY <1>11, <1>2, <1>15, <2>1
  <1>17. ~T!UnknownAlgorithm(fs)
    <2> SUFFICES ASSUME NEW i \in 1..4, fs[i].key = "algorithm" PROVE fs[i].name \in T!Algorithms
      BY <1>8 DEF T!UnknownAlgorithm
    <2>1. CASE i = 4
      BY <1>2, <1>8, <1>k, <2>1
    <2>2. CASE i # 4
      <3>1. fs[i].key # "algorithm"
        BY <1>8, <1>9, <1>k, <2>2
      <3> QED BY <3>1
    <2> QED BY <2>1, <2>2
  <1>18. T!parse_otpauth(fs) = c
    BY <1>2, <1>10, <1>16, <1>17 DEF T!parse_otpauth
  <1>19. T!to_uri(c) = [kind |-> "uri", fields |-> fs]
    BY <1>1, <1>3, <1>5, <1>7 DEF T!to_uri, T!Field
  <1> QED BY <1>18, <1>19 DEF T!parse

-----------------------------------------------------------------------------
(* A code shown at a time, and what was said of it.                        *)
Shown(x) ==
  /\ x.at \in Nat /\ x.period \in Nat \ {0}
  /\ x.counter = x.at \div x.period /\ x.remaining = x.period - (x.at % x.period)

TotpInv ==
  /\ now \in Nat
  /\ stored # None => Usable(meant) /\ T!parse(stored) = meant
  /\ shown # None => Shown(shown) /\ shown.at <= now

LEMMA FreshIsUsable ==
  ASSUME T!InputsAreSound, NEW q \in Fresh
  PROVE  Usable([T!Default EXCEPT !.secret = q])
  <1>1. q \in Secret /\ q # None
    BY DEF T!InputsAreSound, T!Byte, Secret
  <1>2. [T!Default EXCEPT !.secret = q] \in Configs
    BY <1>1, DefaultType DEF Configs
  <1>3. [T!Default EXCEPT !.secret = q].secret = q
    BY DefaultType DEF Configs
  <1> QED BY <1>1, <1>2, <1>3 DEF Usable

LEMMA AddReadsBack ==
  ASSUME T!InputsAreSound, TotpInv, NEW v \in T!Uris \cup T!Texts, T!OtpAdd(v)
  PROVE  TotpInv'
  <1>1. meant' = T!parse(v) /\ stored' = IF meant' = None THEN None ELSE T!to_uri(meant')
    BY DEF T!OtpAdd
  <1>2. now' = now /\ shown' = shown
    BY DEF T!OtpAdd
  <1>3. stored' # None => Usable(meant') /\ T!parse(stored') = meant'
    <2> SUFFICES ASSUME stored' # None PROVE Usable(meant') /\ T!parse(stored') = meant'
      OBVIOUS
    <2>1. meant' # None /\ stored' = T!to_uri(meant')
      BY <1>1
    <2>2. Usable(meant')
      BY <1>1, <2>1, ParsedIsUsable
    <2> QED BY <2>1, <2>2, UriIsParsed
  <1> QED BY <1>2, <1>3 DEF TotpInv

LEMMA GeneratedReadsBack ==
  ASSUME T!InputsAreSound, TotpInv, NEW q \in Fresh, T!OtpAddGenerated(q)
  PROVE  TotpInv'
  <1>1. meant' = [T!Default EXCEPT !.secret = q] /\ stored' = T!to_uri(meant')
    BY DEF T!OtpAddGenerated
  <1>2. now' = now /\ shown' = shown
    BY DEF T!OtpAddGenerated
  <1>3. Usable(meant')
    BY <1>1, FreshIsUsable
  <1>4. T!parse(stored') = meant'
    BY <1>1, <1>3, UriIsParsed
  <1> QED BY <1>2, <1>3, <1>4 DEF TotpInv

LEMMA OtpShows ==
  ASSUME TotpInv, NEW z \in HashEnds, T!Otp(z)
  PROVE  TotpInv'
  <1>1. stored # None /\ meant' = meant /\ stored' = stored /\ now' = now
    BY DEF T!Otp
  <1>2. PICK c : c = T!parse(stored)
    OBVIOUS
  <1>3. c = meant /\ Usable(meant)
    BY <1>1, <1>2 DEF TotpInv
  <1>4. c.period \in Nat \ {0} /\ now \in Nat
    BY <1>3 DEF Usable, Configs, TotpInv
  <1>5. \E code : shown' = [at |-> now, counter |-> now \div c.period, period |-> c.period,
                            remaining |-> T!seconds_remaining(c, now), digits |-> c.digits, code |-> code]
    BY <1>2 DEF T!Otp
  <1>6. Shown(shown') /\ shown'.at = now
    BY <1>4, <1>5 DEF Shown, T!seconds_remaining
  <1> QED BY <1>1, <1>4, <1>6 DEF TotpInv

LEMMA TotpStep ==
  ASSUME T!InputsAreSound, TotpInv, [T!Next]_T!vars
  PROVE  TotpInv'
  <1>1. CASE \E v \in T!Uris \cup T!Texts : T!OtpAdd(v)
    BY <1>1, AddReadsBack
  <1>2. CASE \E q \in Fresh : T!OtpAddGenerated(q)
    BY <1>2, GeneratedReadsBack
  <1>3. CASE \E z \in HashEnds : T!Otp(z)
    BY <1>3, OtpShows
  <1>4. CASE T!Tick
    <2>1. meant' = meant /\ stored' = stored /\ shown' = shown /\ now' = now + 1
      BY <1>4 DEF T!Tick
    <2>2. now \in Nat /\ now' \in Nat
      BY <2>1 DEF TotpInv
    <2>3. shown # None => shown.at <= now'
      BY <2>1, <2>2 DEF TotpInv, Shown
    <2> QED BY <2>1, <2>2, <2>3 DEF TotpInv
  <1>5. CASE UNCHANGED T!vars
    BY <1>5 DEF T!vars, TotpInv
  <1> QED BY <1>1, <1>2, <1>3, <1>4, <1>5 DEF T!Next

LEMMA TotpInvariant ==
  ASSUME T!InputsAreSound
  PROVE  T!Spec => []TotpInv
  <1>1. T!Init => TotpInv
    BY DEF T!Init, TotpInv, T!InputsAreSound
  <1>2. TotpInv /\ [T!Next]_T!vars => TotpInv'
    BY TotpStep
  <1> QED BY <1>1, <1>2, PTL DEF T!Spec

(* For every URI and every base32 text, of any length, and for every       *)
(* secret that is generated: what otp-add stores, otp reads back as it was *)
(* meant, to the last bit of the secret.                                   *)
THEOREM SecretsReadBack ==
  ASSUME T!InputsAreSound
  PROVE  T!Spec => []StoredReadsBack
  <1>1. TotpInv => StoredReadsBack
    BY DEF TotpInv, StoredReadsBack, T!StoredReadsBack
  <1> QED BY <1>1, TotpInvariant, PTL

(* A period that began before a time has passed when its seconds have.     *)
LEMMA PeriodEnds ==
  ASSUME NEW a \in Nat, NEW t \in Nat, a <= t, NEW n \in Nat \ {0}
  PROVE  (t < a + (n - (a % n))) <=> (t \div n = a \div n)
  <1>1. PICK i, c, j, d : i = a \div n /\ c = a % n /\ j = t \div n /\ d = t % n
    OBVIOUS
  <1>2. i \in Nat /\ c \in 0..(n - 1) /\ a = i * n + c
    BY <1>1, Division
  <1>3. j \in Nat /\ d \in 0..(n - 1) /\ t = j * n + d
    BY <1>1, Division
  <1>4. i * n \in Nat /\ j * n \in Nat /\ (i + 1) * n = i * n + n /\ (j + 1) * n = j * n + n
    BY <1>2, <1>3, TimesNext
  <1>5. ~(j + 1 <= i)
    <2> SUFFICES ASSUME j + 1 <= i PROVE FALSE
      OBVIOUS
    <2>1. (j + 1) * n <= i * n
      BY <1>2, <1>3, TimesOrdered
    <2> QED BY <1>2, <1>3, <1>4, <2>1
  <1>6. (t < i * n + n) <=> (j = i)
    <2>1. ASSUME j = i PROVE t < i * n + n
      BY <1>3, <1>4, <2>1
    <2>2. ASSUME i + 1 <= j PROVE ~(t < i * n + n)
      <3>1. (i + 1) * n <= j * n
        BY <1>2, <1>3, <2>2, TimesOrdered
      <3> QED BY <1>3, <1>4, <3>1
    <2> QED BY <1>2, <1>3, <1>5, <2>1, <2>2
  <1>7. a + (n - c) = i * n + n
    BY <1>2, <1>4
  <1> QED BY <1>1, <1>6, <1>7

(* For every period and every time: the code otp printed is the current    *)
(* one for exactly the seconds it said.                                    *)
THEOREM CodesLastAsLongAsShown ==
  ASSUME T!InputsAreSound
  PROVE  T!Spec => []ValidForAsLongAsShown
  <1>1. ASSUME TotpInv PROVE ValidForAsLongAsShown
    <2> SUFFICES ASSUME shown # None
                 PROVE  (now < shown.at + shown.remaining) <=> (now \div shown.period = shown.counter)
      BY DEF ValidForAsLongAsShown, T!ValidForAsLongAsShown
    <2>1. now \in Nat /\ Shown(shown) /\ shown.at <= now
      BY <1>1 DEF TotpInv
    <2>2. PICK a, n : a = shown.at /\ n = shown.period
      OBVIOUS
    <2>3. a \in Nat /\ n \in Nat \ {0} /\ a <= now /\ shown.counter = a \div n /\ shown.remaining = n - (a % n)
      BY <2>1, <2>2 DEF Shown
    <2>4. (now < a + (n - (a % n))) <=> (now \div n = a \div n)
      BY <2>1, <2>3, PeriodEnds
    <2> QED BY <2>2, <2>3, <2>4
  <1> QED BY <1>1, TotpInvariant, PTL

-----------------------------------------------------------------------------
(* g joins the sequences of t, one after the other.                        *)
Joining(t, g, Q) ==
  /\ g \in [0..Len(t) -> Q] /\ g[0] = <<>>
  /\ \A i \in 1..Len(t) : g[i] = g[i - 1] \o t[i]

LEMMA FlattenExists ==
  ASSUME NEW A, NEW t \in Seq(Seq(A))
  PROVE  \E g : Joining(t, g, Seq(A)) /\ E!FlattenSeq(t) = g[Len(t)]
  <1>1. PICK n \in Nat : n = Len(t)
    BY LenProperties
  <1>2. PICK Q : Q = Seq(A)
    OBVIOUS
  <1>3. \A i \in 1..n : t[i] \in Q
    BY <1>1, <1>2, ElementOfSeq
  <1>4. PICK D : D = [x \in (1..n) \X Q |-> x[2] \o t[x[1]]]
    OBVIOUS
  <1>5. D \in [(1..n) \X Q -> Q]
    <2>1. ASSUME NEW x \in (1..n) \X Q PROVE x[2] \o t[x[1]] \in Q
      <3>1. x[2] \in Seq(A) /\ t[x[1]] \in Seq(A)
        BY <1>2, <1>3
      <3> QED BY <1>2, <3>1, ConcatProperties
    <2> QED BY <1>4, <2>1
  <1>6. PICK c : c = <<>>
    OBVIOUS
  <1>7. c \in Q
    BY <1>2, <1>6
  <1>8. PICK g : Steps(g, Q, c, n, D)
    BY <1>5, <1>7, RecursionExists, Zenon
  <1>9. \A i \in 1..n : g[i] = g[i - 1] \o t[i]
    <2> SUFFICES ASSUME NEW i \in 1..n PROVE g[i] = g[i - 1] \o t[i]
      OBVIOUS
    <2>1. i - 1 \in 0..n /\ g[i - 1] \in Q
      BY <1>8 DEF Steps
    <2>2. D[<<i, g[i - 1]>>] = g[i - 1] \o t[i]
      BY <1>4, <2>1
    <2> QED BY <1>8, <2>2 DEF Steps
  <1>10. g \in [0..n -> Q] /\ g[0] = <<>>
    BY <1>6, <1>8 DEF Steps
  <1>11. E!FlattenSeq(t) = g[n]
    <2>1. CASE n = 0
      <3>1. t = <<>>
        BY <1>1, <2>1, EmptySeq
      <3>2. E!FlattenSeq(t) = t
        BY <1>1, <2>1, Zenon DEF E!FlattenSeq
      <3> QED BY <1>10, <2>1, <3>1, <3>2
    <2>2. CASE n # 0
      <3>1. PICK f : f = [i \in 1..n |-> g[i]]
        OBVIOUS
      <3>2. \A i \in 1..n : f[i] = IF i = 1 THEN t[i] ELSE f[i - 1] \o t[i]
        <4> SUFFICES ASSUME NEW i \in 1..n PROVE f[i] = IF i = 1 THEN t[i] ELSE f[i - 1] \o t[i]
          OBVIOUS
        <4>1. CASE i = 1
          <5>1. g[1] = <<>> \o t[1] /\ t[1] \in Seq(A)
            <6>1. 1 \in 1..n /\ 1 - 1 = 0
              BY <2>2
            <6>2. g[1] = g[1 - 1] \o t[1] /\ t[1] \in Q
              BY <1>3, <1>9, <6>1
            <6> QED BY <1>2, <1>10, <6>1, <6>2
          <5>2. <<>> \o t[1] = t[1]
            BY <5>1, ConcatEmptySeq
          <5> QED BY <3>1, <4>1, <5>1, <5>2
        <4>2. CASE i # 1
          <5>1. i - 1 \in 1..n
            BY <4>2
          <5> QED BY <1>9, <3>1, <4>2, <5>1
        <4> QED BY <4>1, <4>2
      <3>3. f = [i \in 1..Len(t) |-> IF i = 1 THEN t[i] ELSE f[i - 1] \o t[i]]
        BY <1>1, <3>1, <3>2
      <3>4. Len(t) # 0
        BY <1>1, <2>2
      <3>5. PICK h : /\ h = [i \in 1..Len(t) |-> IF i = 1 THEN t[i] ELSE h[i - 1] \o t[i]]
                     /\ E!FlattenSeq(t) = h[Len(t)]
        BY <3>3, <3>4, Zenon DEF E!FlattenSeq
      <3>6. \A i \in 1..n : h[i] = IF i = 1 THEN t[i] ELSE h[i - 1] \o t[i]
        BY <1>1, <3>5
      <3>7. PICK k : k = [i \in 0..n |-> IF i = 0 THEN g[0] ELSE h[i]]
        OBVIOUS
      <3>8. ASSUME NEW i \in 1..n, g[i - 1] = k[i - 1] PROVE g[i] = k[i]
        <4>1. CASE i = 1
          <5>1. g[i] = f[i] /\ f[i] = t[i] /\ h[i] = t[i] /\ k[i] = h[i]
            BY <3>1, <3>2, <3>6, <3>7, <4>1
          <5> QED BY <5>1
        <4>2. CASE i # 1
          <5>1. i - 1 \in 1..n /\ k[i - 1] = h[i - 1] /\ k[i] = h[i]
            BY <3>7, <4>2
          <5>2. h[i] = h[i - 1] \o t[i] /\ g[i] = g[i - 1] \o t[i]
            BY <1>9, <3>6, <4>2
          <5> QED BY <3>8, <5>1, <5>2
        <4> QED BY <4>1, <4>2
      <3>9. SameSteps(g, k, n)
        <4>1. k[0] = g[0]
          BY <3>7
        <4> QED BY <3>8, <4>1 DEF SameSteps
      <3>10. g[n] = k[n]
        <4>1. \A i \in 0..n : g[i] = k[i]
          BY <3>9, StepByStep, Zenon
        <4> QED BY <4>1
      <3> QED BY <1>1, <2>2, <3>5, <3>7, <3>10
    <2> QED BY <2>1, <2>2
  <1> QED BY <1>1, <1>2, <1>9, <1>10, <1>11 DEF Joining

(* Joining one sequence more.                                              *)
LEMMA FlattenAppend ==
  ASSUME NEW A, NEW t \in Seq(Seq(A)), NEW c \in Seq(A)
  PROVE  /\ E!FlattenSeq(t) \in Seq(A)
         /\ E!FlattenSeq(Append(t, c)) = E!FlattenSeq(t) \o c
  <1>1. PICK u, n : u = Append(t, c) /\ n = Len(t)
    OBVIOUS
  <1>2. n \in Nat /\ u \in Seq(Seq(A)) /\ Len(u) = n + 1 /\ u[n + 1] = c /\ \A i \in 1..n : u[i] = t[i]
    BY <1>1
  <1>3. PICK g : Joining(t, g, Seq(A)) /\ E!FlattenSeq(t) = g[n]
    BY <1>1, FlattenExists
  <1>4. PICK h : Joining(u, h, Seq(A)) /\ E!FlattenSeq(u) = h[n + 1]
    BY <1>2, FlattenExists
  <1>5. SameSteps(g, h, n)
    <2>1. g[0] = h[0]
      BY <1>3, <1>4 DEF Joining
    <2>2. \A i \in 1..n : g[i] = g[i - 1] \o t[i]
      BY <1>1, <1>3 DEF Joining
    <2>3. \A i \in 1..n : h[i] = h[i - 1] \o t[i]
      <3>1. \A i \in 1..n : i \in 1..Len(u)
        BY <1>2
      <3>2. \A i \in 1..Len(u) : h[i] = h[i - 1] \o u[i]
        BY <1>4 DEF Joining
      <3> QED BY <1>2, <3>1, <3>2
    <2> QED BY <2>1, <2>2, <2>3 DEF SameSteps
  <1>6. g[n] = h[n] /\ g[n] \in Seq(A)
    <2>1. g[n] = h[n]
      <3>1. n \in Nat
        BY <1>2
      <3>2. \A i \in 0..n : g[i] = h[i]
        BY <1>5, <3>1, StepByStep
      <3> QED BY <3>1, <3>2
    <2>2. n \in 0..Len(t)
      BY <1>1, <1>2
    <2> QED BY <1>3, <2>1, <2>2 DEF Joining
  <1>7. h[n + 1] = h[n] \o c
    <2>1. n + 1 \in 1..Len(u) /\ (n + 1) - 1 = n
      BY <1>2
    <2> QED BY <1>2, <1>4, <2>1 DEF Joining
  <1> QED BY <1>1, <1>3, <1>4, <1>6, <1>7

LEMMA FlattenEmpty == E!FlattenSeq(<<>>) = <<>>
  BY DEF E!FlattenSeq

LEMMA FrontAndLast ==
  ASSUME NEW A, NEW s \in Seq(A), s # <<>>
  PROVE  E!Front(s) \in Seq(A) /\ s[Len(s)] \in A /\ s = Append(E!Front(s), s[Len(s)])
  <1>1. PICK n \in Nat : n = Len(s)
    BY LenProperties
  <1>2. n # 0 /\ n - 1 \in Nat
    BY <1>1, EmptySeq
  <1>3. PICK t, x : t = E!Front(s) /\ x = s[n]
    OBVIOUS
  <1>4. \A i \in 1..n : s[i] \in A
    BY <1>1, ElementOfSeq
  <1>5. t \in Seq(A) /\ Len(t) = n - 1 /\ \A i \in 1..(n - 1) : t[i] = s[i]
    <2>1. t = SubSeq(s, 1, n - 1)
      BY <1>1, <1>3 DEF E!Front
    <2>2. 1 \in Int /\ n - 1 \in Int /\ \A i \in 1..(n - 1) : s[i] \in A
      BY <1>2, <1>4
    <2>3. PICK m : m = n - 1
      OBVIOUS
    <2>4. m \in Nat /\ t = SubSeq(s, 1, m) /\ \A i \in 1..m : s[i] \in A
      BY <1>2, <2>1, <2>2, <2>3
    <2>5. t \in Seq(A) /\ Len(t) = m /\ \A i \in 1..m : t[i] = s[i]
      BY <2>4, SubSeqProperties
    <2> QED BY <2>3, <2>5
  <1>6. x \in A
    BY <1>2, <1>3, <1>4
  <1>7. PICK u : u = Append(t, x)
    OBVIOUS
  <1>8. u \in Seq(A) /\ Len(u) = n /\ \A i \in 1..n : u[i] = s[i]
    BY <1>2, <1>3, <1>5, <1>6, <1>7
  <1>9. s = u
    BY <1>1, <1>8, SeqEqual
  <1> QED BY <1>1, <1>3, <1>5, <1>6, <1>7, <1>9

(* The bytes of a character, of which the first may be one that continues, *)
(* and a text of such characters, of which only the first may.             *)
Chars == Seq(E!Byte) \ {<<>>}
Trails(c) == c \in Chars /\ \A j \in 2..Len(c) : E!IsContinuation(c[j])
Heads(c) == ~E!IsContinuation(c[1])
Whole(t) ==
  /\ t \in Seq(Chars)
  /\ \A i \in 1..Len(t) : Trails(t[i])
  /\ \A i \in 2..Len(t) : Heads(t[i])

LEMMA WholeEmpty == Whole(<<>>)
  <1>1. <<>> \in Seq(Chars) /\ Len(<<>>) = 0
    BY EmptySeq
  <1> QED BY <1>1 DEF Whole

LEMMA WholeAppend ==
  ASSUME NEW t, Whole(t), NEW c, Trails(c), t # <<>> => Heads(c)
  PROVE  Whole(Append(t, c))
  <1>1. t \in Seq(Chars) /\ c \in Chars
    BY DEF Whole, Trails
  <1>2. PICK n \in Nat : n = Len(t)
    BY <1>1, LenProperties
  <1>3. PICK u : u = Append(t, c)
    OBVIOUS
  <1>4. u \in Seq(Chars) /\ Len(u) = n + 1 /\ u[n + 1] = c /\ \A i \in 1..n : u[i] = t[i]
    BY <1>1, <1>2, <1>3, AppendProperties
  <1>5. ASSUME NEW i \in 1..Len(u) PROVE Trails(u[i])
    <2>1. CASE i = n + 1
      BY <1>4, <2>1
    <2>2. CASE i # n + 1
      <3>1. i \in 1..n
        BY <1>4, <2>2
      <3> QED BY <1>2, <1>4, <3>1 DEF Whole
    <2> QED BY <2>1, <2>2
  <1>6. ASSUME NEW i \in 2..Len(u) PROVE Heads(u[i])
    <2>1. CASE i = n + 1
      <3>1. n # 0 /\ t # <<>>
        BY <1>2, <2>1
      <3> QED BY <1>4, <2>1, <3>1
    <2>2. CASE i # n + 1
      <3>1. i \in 2..n
        BY <1>4, <2>2
      <3> QED BY <1>2, <1>4, <3>1 DEF Whole
    <2> QED BY <2>1, <2>2
  <1> QED BY <1>3, <1>4, <1>5, <1>6 DEF Whole

LEMMA WholeSplit ==
  ASSUME NEW t, Whole(t), t # <<>>
  PROVE  \E f, c : /\ f = E!Front(t) /\ c = t[Len(t)] /\ t = Append(f, c)
                   /\ Whole(f) /\ Trails(c) /\ (f # <<>> => Heads(c))
  <1>1. t \in Seq(Chars)
    BY DEF Whole
  <1>2. PICK f, c : f = E!Front(t) /\ c = t[Len(t)]
    OBVIOUS
  <1>3. f \in Seq(Chars) /\ c \in Chars /\ t = Append(f, c)
    BY <1>1, <1>2, FrontAndLast
  <1>4. PICK n \in Nat : n = Len(f)
    BY <1>3, LenProperties
  <1>5. Len(t) = n + 1 /\ \A i \in 1..n : t[i] = f[i]
    BY <1>3, <1>4, AppendProperties
  <1>6. \A i \in 1..n : Trails(f[i])
    BY <1>5 DEF Whole
  <1>7. \A i \in 2..n : Heads(f[i])
    BY <1>5 DEF Whole
  <1>8. Trails(c)
    <2>1. n + 1 \in 1..Len(t)
      BY <1>5
    <2> QED BY <1>2, <1>5, <2>1 DEF Whole
  <1>9. f # <<>> => Heads(c)
    <2> SUFFICES ASSUME f # <<>> PROVE Heads(c)
      OBVIOUS
    <2>1. n # 0
      BY <1>3, <1>4, EmptySeq
    <2>2. n + 1 \in 2..Len(t)
      BY <1>5, <2>1
    <2> QED BY <1>2, <1>5, <2>2 DEF Whole
  <1>10. Whole(f)
    BY <1>3, <1>4, <1>6, <1>7 DEF Whole
  <1> QED BY <1>2, <1>3, <1>8, <1>9, <1>10

LEMMA TextFlattens ==
  ASSUME NEW t, Whole(t)
  PROVE  /\ t \in Seq(Seq(E!Byte)) /\ E!FlattenSeq(t) \in Seq(E!Byte)
         /\ \A c \in Seq(E!Byte) : E!FlattenSeq(Append(t, c)) = E!FlattenSeq(t) \o c
  <1>1. Chars \subseteq Seq(E!Byte) /\ t \in Seq(Chars)
    BY DEF Chars, Whole
  <1>2. PICK Q : Q = Seq(E!Byte)
    OBVIOUS
  <1>3. t \in Seq(Q)
    BY <1>1, <1>2, SeqMonotonic
  <1>4. <<>> \in Seq(E!Byte)
    BY EmptySeq
  <1> QED BY <1>2, <1>3, <1>4, FlattenAppend

LEMMA AppendToConcat ==
  ASSUME NEW A, NEW s \in Seq(A), NEW c \in Seq(A), NEW b \in A
  PROVE  s \o Append(c, b) = Append(s \o c, b)
  <1>1. <<b>> \in Seq(A) /\ Append(c, b) = c \o <<b>>
    BY AppendIsConcat
  <1>2. s \o c \in Seq(A)
    BY ConcatProperties
  <1>3. Append(s \o c, b) = (s \o c) \o <<b>>
    BY <1>2, AppendIsConcat
  <1> QED BY <1>1, <1>3, ConcatAssociative

(* A byte more is a byte more of the text.                                 *)
LEMMA AddByteAdds ==
  ASSUME NEW t, Whole(t), NEW b \in E!Byte
  PROVE  /\ Whole(E!AddByte(t, b))
         /\ E!FlattenSeq(E!AddByte(t, b)) = Append(E!FlattenSeq(t), b)
  <1>1. t \in Seq(Chars)
    BY DEF Whole
  <1>2. CASE t # <<>> /\ E!IsContinuation(b)
    <2>1. PICK f, c : /\ c = t[Len(t)] /\ t = Append(f, c)
                      /\ Whole(f) /\ Trails(c) /\ (f # <<>> => Heads(c))
      BY <1>2, WholeSplit
    <2>2. f \in Seq(Chars) /\ c \in Chars /\ c \in Seq(E!Byte) /\ c # <<>>
      BY <2>1 DEF Whole, Trails, Chars
    <2>3. PICK d, m : d = Append(c, b) /\ m = Len(c)
      OBVIOUS
    <2>4. m \in Nat \ {0}
      BY <2>2, <2>3, EmptySeq
    <2>5. /\ d \in Seq(E!Byte) /\ d # <<>> /\ Len(d) = m + 1 /\ d[m + 1] = b
          /\ \A j \in 1..m : d[j] = c[j]
      BY <2>2, <2>3, AppendProperties
    <2>6. Trails(d)
      <3>1. ASSUME NEW j \in 2..Len(d) PROVE E!IsContinuation(d[j])
        <4>1. CASE j = m + 1
          BY <1>2, <2>5, <4>1
        <4>2. CASE j # m + 1
          <5>1. j \in 2..m /\ j \in 1..m
            BY <2>4, <2>5, <4>2
          <5> QED BY <2>1, <2>3, <2>5, <5>1 DEF Trails
        <4> QED BY <4>1, <4>2
      <3> QED BY <2>5, <3>1 DEF Trails, Chars
    <2>7. f # <<>> => Heads(d)
      <3>1. d[1] = c[1]
        BY <2>4, <2>5
      <3> QED BY <2>1, <3>1 DEF Heads
    <2>8. Whole(Append(f, d))
      BY <2>1, <2>6, <2>7, WholeAppend
    <2>9. E!AddByte(t, b) = Append(f, d)
      <3>1. PICK n, u, v : n = Len(f) /\ u = [t EXCEPT ![Len(t)] = d] /\ v = Append(f, d)
        OBVIOUS
      <3>2. E!AddByte(t, b) = u
        BY <1>2, <2>1, <2>3, <3>1 DEF E!AddByte
      <3>3. n \in Nat /\ Len(t) = n + 1 /\ (\A i \in 1..n : t[i] = f[i])
        <4>1. n \in Nat
          BY <2>2, <3>1, LenProperties
        <4>2. Len(t) = n + 1 /\ (\A i \in 1..n : t[i] = f[i])
          BY <2>1, <2>2, <3>1, AppendProperties
        <4> QED BY <4>1, <4>2
      <3>4. d \in Chars
        BY <2>6 DEF Trails
      <3>5. v \in Seq(Chars) /\ Len(v) = n + 1 /\ v[n + 1] = d /\ \A i \in 1..n : v[i] = f[i]
        BY <2>2, <3>1, <3>4, AppendProperties
      <3>6. u \in Seq(Chars) /\ Len(u) = n + 1 /\ \A j \in 1..(n + 1) : u[j] = IF j = n + 1 THEN d ELSE t[j]
        <4>1. PICK i : i = Len(t)
          OBVIOUS
        <4>2. i \in 1..Len(t) /\ i = n + 1
          BY <3>3, <4>1
        <4>3. /\ [t EXCEPT ![i] = d] \in Seq(Chars) /\ Len([t EXCEPT ![i] = d]) = Len(t)
              /\ \A j \in 1..Len(t) : [t EXCEPT ![i] = d][j] = IF j = i THEN d ELSE t[j]
          BY <1>1, <3>4, <4>2, ExceptSeq
        <4> QED BY <3>1, <3>3, <4>1, <4>2, <4>3
      <3>7. \A j \in 1..Len(u) : u[j] = v[j]
        <4> SUFFICES ASSUME NEW j \in 1..(n + 1) PROVE u[j] = v[j]
          BY <3>6
        <4>1. CASE j = n + 1
          BY <3>5, <3>6, <4>1
        <4>2. CASE j # n + 1
          <5>1. j \in 1..n
            BY <3>3, <4>2
          <5> QED BY <3>3, <3>5, <3>6, <4>2, <5>1
        <4> QED BY <4>1, <4>2
      <3>8. u = v
        BY <3>5, <3>6, <3>7, SeqEqual
      <3> QED BY <3>1, <3>2, <3>8
    <2>10. E!FlattenSeq(Append(f, d)) = E!FlattenSeq(f) \o Append(c, b)
      BY <2>1, <2>3, <2>5, TextFlattens
    <2>11. E!FlattenSeq(f) \in Seq(E!Byte) /\ E!FlattenSeq(t) = E!FlattenSeq(f) \o c
      BY <2>1, <2>2, TextFlattens
    <2>12. E!FlattenSeq(f) \o Append(c, b) = Append(E!FlattenSeq(f) \o c, b)
      BY <2>2, <2>11, AppendToConcat
    <2> QED BY <2>8, <2>9, <2>10, <2>11, <2>12
  <1>3. CASE t = <<>> \/ ~E!IsContinuation(b)
    <2>1. E!AddByte(t, b) = Append(t, <<b>>)
      BY <1>3 DEF E!AddByte
    <2>2. <<b>> \in Seq(E!Byte) /\ <<b>> # <<>> /\ Len(<<b>>) = 1 /\ <<b>>[1] = b
      OBVIOUS
    <2>3. Trails(<<b>>)
      BY <2>2 DEF Trails, Chars
    <2>4. t # <<>> => Heads(<<b>>)
      BY <1>3, <2>2 DEF Heads
    <2>5. Whole(Append(t, <<b>>))
      BY <2>3, <2>4, WholeAppend
    <2>6. E!FlattenSeq(Append(t, <<b>>)) = E!FlattenSeq(t) \o <<b>>
      BY <2>2, TextFlattens
    <2>7. E!FlattenSeq(t) \o <<b>> = Append(E!FlattenSeq(t), b)
      <3>1. E!FlattenSeq(t) \in Seq(E!Byte)
        BY TextFlattens
      <3> QED BY <3>1, AppendIsConcat
    <2> QED BY <2>1, <2>5, <2>6, <2>7
  <1> QED BY <1>2, <1>3

(* The characters of any bytes hold those bytes.                           *)
LEMMA CharactersAre ==
  ASSUME NEW q \in Seq(E!Byte)
  PROVE  Whole(E!CharactersOf(q)) /\ E!FlattenSeq(E!CharactersOf(q)) = q
  <1>1. PICK n \in Nat : n = Len(q)
    BY LenProperties
  <1>2. \A i \in 1..n : q[i] \in E!Byte
    BY <1>1, ElementOfSeq
  <1>3. PICK W : W = {t \in Seq(Chars) : Whole(t)}
    OBVIOUS
  <1>4. PICK c : c = <<>>
    OBVIOUS
  <1>5. c \in W
    BY <1>3, <1>4, WholeEmpty DEF Whole
  <1>6. PICK D : D = [x \in (1..n) \X W |-> E!AddByte(x[2], q[x[1]])]
    OBVIOUS
  <1>7. D \in [(1..n) \X W -> W]
    <2>1. ASSUME NEW x \in (1..n) \X W PROVE E!AddByte(x[2], q[x[1]]) \in W
      <3>1. Whole(x[2]) /\ q[x[1]] \in E!Byte
        BY <1>2, <1>3
      <3>2. Whole(E!AddByte(x[2], q[x[1]]))
        BY <3>1, AddByteAdds
      <3> QED BY <1>3, <3>2 DEF Whole
    <2> QED BY <1>6, <2>1
  <1>8. PICK g : Steps(g, W, c, n, D)
    BY <1>5, <1>7, RecursionExists, Zenon
  <1>9. g \in [0..n -> W] /\ g[0] = <<>>
    BY <1>4, <1>8 DEF Steps
  <1>10. \A i \in 1..n : g[i] = E!AddByte(g[i - 1], q[i])
    <2> SUFFICES ASSUME NEW i \in 1..n PROVE g[i] = E!AddByte(g[i - 1], q[i])
      OBVIOUS
    <2>1. i - 1 \in 0..n /\ g[i - 1] \in W
      BY <1>9
    <2>2. D[<<i, g[i - 1]>>] = E!AddByte(g[i - 1], q[i])
      BY <1>6, <2>1
    <2> QED BY <1>8, <2>2 DEF Steps
  <1>11. E!CharactersOf(q) = g[n]
    <2>1. g = [i \in 0..Len(q) |-> IF i = 0 THEN <<>> ELSE E!AddByte(g[i - 1], q[i])]
      BY <1>1, <1>9, <1>10
    <2>2. PICK h : /\ h = [i \in 0..Len(q) |-> IF i = 0 THEN <<>> ELSE E!AddByte(h[i - 1], q[i])]
                   /\ E!CharactersOf(q) = h[Len(q)]
      BY <2>1, Zenon DEF E!CharactersOf
    <2>3. h[0] = <<>> /\ \A i \in 1..n : h[i] = E!AddByte(h[i - 1], q[i])
      BY <1>1, <2>2
    <2>4. SameSteps(g, h, n)
      BY <1>9, <1>10, <2>3 DEF SameSteps
    <2>5. \A i \in 0..n : g[i] = h[i]
      BY <2>4, StepByStep
    <2> QED BY <1>1, <2>2, <2>5
  <1> DEFINE S == {i \in Nat : i <= n => E!FlattenSeq(g[i]) = SubSeq(q, 1, i)}
  <1>12. 0 \in S
    <2>1. SubSeq(q, 1, 0) = <<>>
      BY SubSeqEmpty
    <2> QED BY <1>9, <2>1, FlattenEmpty
  <1>13. ASSUME NEW i \in Nat, i \in S PROVE i + 1 \in S
    <2> SUFFICES ASSUME i + 1 <= n PROVE E!FlattenSeq(g[i + 1]) = SubSeq(q, 1, i + 1)
      OBVIOUS
    <2>1. i + 1 \in 1..n /\ (i + 1) - 1 = i /\ i \in 0..n
      OBVIOUS
    <2>2. PICK t, u, v, b : t = g[i] /\ u = g[i + 1] /\ v = SubSeq(q, 1, i) /\ b = q[i + 1]
      OBVIOUS
    <2>3. Whole(t) /\ b \in E!Byte /\ E!FlattenSeq(t) = v
      BY <1>2, <1>3, <1>9, <1>13, <2>1, <2>2
    <2>4. u = E!AddByte(t, b)
      BY <1>10, <2>1, <2>2
    <2>5. E!FlattenSeq(u) = Append(v, b)
      BY <2>3, <2>4, AddByteAdds
    <2>6. SubSeq(q, 1, i + 1) = Append(v, b)
      <3>1. v \in Seq(E!Byte)
        BY <2>3, TextFlattens
      <3>2. 1 \in 1..Len(q) /\ i + 1 \in 1..Len(q)
        BY <1>1, <2>1
      <3>3. SubSeq(q, 1, i + 1) = SubSeq(q, 1, (i + 1) - 1) \o <<q[i + 1]>>
        BY <3>2, SubSeqRecursiveSecond
      <3> QED BY <2>1, <2>2, <2>3, <3>1, <3>3, AppendIsConcat
    <2> QED BY <2>2, <2>5, <2>6
  <1> HIDE DEF S
  <1>14. n \in S
    BY <1>12, <1>13, SetInduction
  <1>15. E!FlattenSeq(g[n]) = SubSeq(q, 1, n)
    BY <1>14 DEF S
  <1>16. SubSeq(q, 1, n) = q
    BY <1>1, SubSeqFull
  <1>17. Whole(g[n])
    <2>1. n \in 0..n
      OBVIOUS
    <2> QED BY <1>3, <1>9, <2>1
  <1> QED BY <1>11, <1>15, <1>16, <1>17

(* The buffer that holds x and no more.                                    *)
LEMMA Padded ==
  ASSUME Capacity \in Nat, NEW x \in Seq(E!Byte), NEW n \in Nat, n = Len(x), n <= Capacity
  PROVE  x \o E!Zeros(Capacity - n) = [i \in 1..Capacity |-> IF i <= n THEN x[i] ELSE 0]
  <1>1. PICK m : m = Capacity - n
    OBVIOUS
  <1>2. m \in Nat /\ n + m = Capacity
    BY <1>1
  <1>3. PICK z, y, w : z = E!Zeros(m) /\ y = x \o z /\ w = [i \in 1..Capacity |-> IF i <= n THEN x[i] ELSE 0]
    OBVIOUS
  <1>4. 0 \in E!Byte /\ \A i \in 1..n : x[i] \in E!Byte
    <2>1. 0 \in E!Byte
      BY DEF E!Byte
    <2> QED BY <2>1, ElementOfSeq
  <1>5. z \in [1..m -> E!Byte] /\ \A i \in 1..m : z[i] = 0
    BY <1>3, <1>4 DEF E!Zeros
  <1>6. z \in Seq(E!Byte) /\ Len(z) = m
    BY <1>2, <1>5, FunctionIsSeq
  <1>7. y \in Seq(E!Byte) /\ Len(y) = Capacity /\ \A i \in 1..Capacity : y[i] = IF i <= n THEN x[i] ELSE z[i - n]
    <2>1. /\ x \o z \in Seq(E!Byte) /\ Len(x \o z) = Len(x) + Len(z)
          /\ \A i \in 1..(Len(x) + Len(z)) : (x \o z)[i] = IF i <= Len(x) THEN x[i] ELSE z[i - Len(x)]
      BY <1>6, ConcatProperties
    <2> QED BY <1>2, <1>3, <1>6, <2>1
  <1>8. w \in [1..Capacity -> E!Byte]
    BY <1>2, <1>3, <1>4
  <1>9. w \in Seq(E!Byte) /\ Len(w) = Capacity
    BY <1>8, FunctionIsSeq
  <1>10. ASSUME NEW i \in 1..Len(y) PROVE y[i] = w[i]
    <2>1. CASE i <= n
      BY <1>3, <1>7, <2>1
    <2>2. CASE ~(i <= n)
      <3>1. i - n \in 1..m
        BY <1>2, <1>7, <2>2
      <3> QED BY <1>3, <1>5, <1>7, <2>2, <3>1
    <2> QED BY <2>1, <2>2
  <1>11. y = w
    BY <1>7, <1>9, <1>10, SeqEqual
  <1> QED BY <1>1, <1>3, <1>11

(* The buffer b, of which n bytes are used, holds the text t.              *)
Kept(b, n, t) ==
  /\ Whole(t) /\ n = Len(E!FlattenSeq(t)) /\ n <= Capacity
  /\ b = E!FlattenSeq(t) \o E!Zeros(Capacity - n)

LEMMA KeptBytes ==
  ASSUME Capacity \in Nat, NEW b, NEW n, NEW t, Kept(b, n, t)
  PROVE  /\ n \in Nat /\ E!FlattenSeq(t) \in Seq(E!Byte)
         /\ b = [i \in 1..Capacity |-> IF i <= n THEN E!FlattenSeq(t)[i] ELSE 0]
  <1>1. PICK x : x = E!FlattenSeq(t)
    OBVIOUS
  <1>2. x \in Seq(E!Byte)
    BY <1>1, TextFlattens DEF Kept
  <1>3. n \in Nat /\ n = Len(x) /\ n <= Capacity
    BY <1>1, <1>2, LenProperties DEF Kept
  <1>4. x \o E!Zeros(Capacity - n) = [i \in 1..Capacity |-> IF i <= n THEN x[i] ELSE 0]
    BY <1>2, <1>3, Padded
  <1> QED BY <1>1, <1>2, <1>3, <1>4 DEF Kept

LEMMA SeedKeeps ==
  ASSUME Capacity \in Nat, NEW v \in Seq(E!Byte), E!Seed(v), text' = E!CharactersOf(SubSeq(v, 1, len'))
  PROVE  Kept(buf', len', text')
  <1>1. PICK n, x : n = len' /\ x = SubSeq(v, 1, n)
    OBVIOUS
  <1>2. n = (IF Len(v) < Capacity THEN Len(v) ELSE Capacity) /\ buf' = x \o E!Zeros(Capacity - n)
    BY <1>1 DEF E!Seed
  <1>3. n \in Nat /\ n <= Len(v) /\ n <= Capacity /\ Len(v) \in Nat
    BY <1>2, LenProperties
  <1>4. \A i \in 1..n : v[i] \in E!Byte
    BY <1>3, ElementOfSeq
  <1>5. x \in Seq(E!Byte) /\ Len(x) = n
    <2>1. 1 \in Int /\ n \in Int
      BY <1>3
    <2>2. /\ SubSeq(v, 1, n) \in Seq(E!Byte)
          /\ Len(SubSeq(v, 1, n)) = IF 1 <= n THEN n - 1 + 1 ELSE 0
      BY <1>4, <2>1, SubSeqProperties
    <2>3. (IF 1 <= n THEN n - 1 + 1 ELSE 0) = n
      <3>1. \A k \in Nat : (IF 1 <= k THEN k - 1 + 1 ELSE 0) = k
        OBVIOUS
      <3> QED BY <1>3, <3>1, Zenon
    <2> QED BY <1>1, <2>2, <2>3, Zenon
  <1>6. Whole(text') /\ E!FlattenSeq(text') = x
    BY <1>1, <1>5, CharactersAre
  <1> QED BY <1>1, <1>2, <1>3, <1>5, <1>6 DEF Kept

(* Where the character that is typed begins the one before has ended.      *)
LEMMA TypingKeeps ==
  ASSUME Capacity \in Nat, NEW b, NEW n, NEW t, Kept(b, n, t),
         NEW c, Trails(c), Heads(c), n + Len(c) <= Capacity
  PROVE  Kept([i \in 1..Capacity |-> IF i - n \in 1..Len(c) THEN c[i - n] ELSE b[i]],
              n + Len(c), Append(t, c))
  <1>1. PICK x, k, m : x = E!FlattenSeq(t) /\ k = Len(c) /\ m = n + k
    OBVIOUS
  <1>2. n \in Nat /\ x \in Seq(E!Byte) /\ n = Len(x) /\ b = [i \in 1..Capacity |-> IF i <= n THEN x[i] ELSE 0]
    <2>1. /\ n \in Nat /\ E!FlattenSeq(t) \in Seq(E!Byte)
          /\ b = [i \in 1..Capacity |-> IF i <= n THEN E!FlattenSeq(t)[i] ELSE 0]
      BY KeptBytes
    <2>2. n = Len(E!FlattenSeq(t))
      BY DEF Kept
    <2> QED BY <1>1, <2>1, <2>2
  <1>3. c \in Seq(E!Byte) /\ k \in Nat
    BY <1>1, LenProperties DEF Trails, Chars
  <1>4. Whole(Append(t, c)) /\ E!FlattenSeq(Append(t, c)) = x \o c
    BY <1>1, <1>3, WholeAppend, TextFlattens DEF Kept
  <1>5. PICK y : y = x \o c
    OBVIOUS
  <1>6. /\ y \in Seq(E!Byte) /\ Len(y) = m
        /\ \A i \in 1..m : y[i] = IF i <= n THEN x[i] ELSE c[i - n]
    BY <1>1, <1>2, <1>3, <1>5, ConcatProperties
  <1>7. m \in Nat /\ m <= Capacity
    BY <1>1, <1>2, <1>3
  <1>8. y \o E!Zeros(Capacity - m) = [i \in 1..Capacity |-> IF i <= m THEN y[i] ELSE 0]
    BY <1>6, <1>7, Padded
  <1>9. ASSUME NEW i \in 1..Capacity
        PROVE  (IF i - n \in 1..k THEN c[i - n] ELSE b[i]) = IF i <= m THEN y[i] ELSE 0
    <2>1. CASE i <= n
      <3>1. i \in 1..m /\ ~(i - n \in 1..k) /\ i <= m
        BY <1>1, <1>2, <1>3, <2>1
      <3> QED BY <1>2, <1>6, <2>1, <3>1
    <2>2. CASE ~(i <= n) /\ i <= m
      <3>1. i \in 1..m /\ i - n \in 1..k
        BY <1>1, <1>2, <1>3, <2>2
      <3> QED BY <1>6, <2>2, <3>1
    <2>3. CASE ~(i <= m)
      <3>1. ~(i - n \in 1..k) /\ ~(i <= n)
        BY <1>1, <1>2, <1>3, <2>3
      <3> QED BY <1>2, <2>3, <3>1
    <2> QED BY <2>1, <2>2, <2>3
  <1>10. [i \in 1..Capacity |-> IF i - n \in 1..k THEN c[i - n] ELSE b[i]]
           = [i \in 1..Capacity |-> IF i <= m THEN y[i] ELSE 0]
    BY <1>9
  <1> QED BY <1>1, <1>4, <1>5, <1>6, <1>7, <1>8, <1>10 DEF Kept

(* What a backspace finds is where the last character begins.              *)
LEMMA LastStartIs ==
  ASSUME Capacity \in Nat, Kept(buf, len, text), len > 0
  PROVE  /\ Whole(E!Front(text)) /\ text # <<>>
         /\ E!LastStart = Len(E!FlattenSeq(E!Front(text))) /\ E!LastStart \in 0..(len - 1)
         /\ \A i \in 1..E!LastStart : E!FlattenSeq(text)[i] = E!FlattenSeq(E!Front(text))[i]
  <1>1. len \in Nat /\ len = Len(E!FlattenSeq(text)) /\ len <= Capacity /\ Whole(text)
    BY KeptBytes DEF Kept
  <1>2. PICK x : x = E!FlattenSeq(text)
    OBVIOUS
  <1>3. buf = [i \in 1..Capacity |-> IF i <= len THEN x[i] ELSE 0]
    BY <1>2, KeptBytes
  <1>4. text # <<>>
    BY <1>1, FlattenEmpty, EmptySeq
  <1>5. PICK f, c : /\ f = E!Front(text) /\ text = Append(f, c)
                    /\ Whole(f) /\ Trails(c) /\ (f # <<>> => Heads(c))
    BY <1>1, <1>4, WholeSplit
  <1>6. c \in Seq(E!Byte) /\ c # <<>>
    BY <1>5 DEF Trails, Chars
  <1>7. PICK y, k, m : y = E!FlattenSeq(f) /\ k = Len(y) /\ m = Len(c)
    OBVIOUS
  <1>8. x = y \o c /\ y \in Seq(E!Byte)
    BY <1>2, <1>5, <1>6, <1>7, TextFlattens
  <1>9. k \in Nat /\ m \in Nat \ {0}
    BY <1>6, <1>7, <1>8, EmptySeq, LenProperties
  <1>10. len = k + m /\ \A i \in 1..(k + m) : x[i] = IF i <= k THEN y[i] ELSE c[i - k]
    <2>1. /\ Len(y \o c) = Len(y) + Len(c)
          /\ \A i \in 1..(Len(y) + Len(c)) : (y \o c)[i] = IF i <= Len(y) THEN y[i] ELSE c[i - Len(y)]
      BY <1>6, <1>8, ConcatProperties
    <2> QED BY <1>1, <1>2, <1>7, <1>8, <2>1
  <1>11. k \in 0..(len - 1)
    BY <1>9, <1>10
  <1>12. \A i \in 1..m : buf[k + i] = c[i]
    <2> SUFFICES ASSUME NEW i \in 1..m PROVE buf[k + i] = c[i]
      OBVIOUS
    <2>1. PICK j : j = k + i
      OBVIOUS
    <2>2. j \in 1..Capacity /\ j <= len /\ j \in 1..(k + m) /\ ~(j <= k) /\ j - k = i
      BY <1>1, <1>9, <1>10, <2>1
    <2> QED BY <1>3, <1>10, <2>1, <2>2
  <1>13. \A j \in (k + 1)..(len - 1) : E!IsContinuation(buf[j + 1])
    <2> SUFFICES ASSUME NEW j \in (k + 1)..(len - 1) PROVE E!IsContinuation(buf[j + 1])
      OBVIOUS
    <2>1. PICK i : i = (j - k) + 1
      OBVIOUS
    <2>2. i \in 1..m /\ i \in 2..m /\ k + i = j + 1
      BY <1>9, <1>10, <2>1
    <2>3. buf[j + 1] = c[i]
      BY <1>12, <2>2
    <2> QED BY <1>5, <1>7, <2>2, <2>3 DEF Trails
  <1>14. k = 0 \/ ~E!IsContinuation(buf[k + 1])
    <2>1. CASE f = <<>>
      BY <1>7, <2>1, FlattenEmpty, EmptySeq
    <2>2. CASE f # <<>>
      <3>1. 1 \in 1..m
        BY <1>9
      <3>2. buf[k + 1] = c[1]
        BY <1>12, <3>1
      <3> QED BY <1>5, <2>2, <3>2 DEF Heads
    <2> QED BY <2>1, <2>2
  <1>15. ASSUME NEW i \in 0..(len - 1), i = 0 \/ ~E!IsContinuation(buf[i + 1]),
                \A j \in (i + 1)..(len - 1) : E!IsContinuation(buf[j + 1])
         PROVE  i = k
    <2>1. ~(i < k)
      <3> SUFFICES ASSUME i < k PROVE FALSE
        OBVIOUS
      <3>1. k # 0 /\ k \in (i + 1)..(len - 1)
        BY <1>9, <1>11
      <3> QED BY <1>14, <1>15, <3>1
    <2>2. ~(k < i)
      <3> SUFFICES ASSUME k < i PROVE FALSE
        OBVIOUS
      <3>1. i # 0 /\ i \in (k + 1)..(len - 1)
        BY <1>9
      <3> QED BY <1>13, <1>15, <3>1
    <2> QED BY <1>9, <2>1, <2>2
  <1>16. E!LastStart = k
    <2> DEFINE Last(i) == /\ i = 0 \/ ~E!IsContinuation(buf[i + 1])
                          /\ \A j \in (i + 1)..(len - 1) : E!IsContinuation(buf[j + 1])
    <2>1. Last(k) /\ \A i \in 0..(len - 1) : Last(i) => i = k
      BY <1>13, <1>14, <1>15
    <2>2. E!LastStart = CHOOSE i \in 0..(len - 1) : Last(i)
      BY DEF E!LastStart
    <2> HIDE DEF Last
    <2> QED BY <1>11, <2>1, <2>2
  <1>17. \A i \in 1..k : x[i] = y[i]
    BY <1>9, <1>10
  <1> QED BY <1>2, <1>4, <1>5, <1>7, <1>11, <1>16, <1>17

LEMMA BackspaceKeeps ==
  ASSUME Capacity \in Nat, Kept(buf, len, text), E!backspace
  PROVE  Kept(buf', len', text')
  <1>1. PICK k, f, x, y : /\ k = E!LastStart /\ f = E!Front(text)
                          /\ x = E!FlattenSeq(text) /\ y = E!FlattenSeq(f)
    OBVIOUS
  <1>2. len > 0 /\ len' = k /\ text' = f
        /\ buf' = [i \in 1..Capacity |-> IF i \in (len' + 1)..len THEN 0 ELSE buf[i]]
    BY <1>1 DEF E!backspace
  <1>3. Whole(f) /\ k = Len(y) /\ k \in 0..(len - 1) /\ \A i \in 1..k : x[i] = y[i]
    BY <1>1, <1>2, LastStartIs
  <1>4. len \in Nat /\ len <= Capacity /\ buf = [i \in 1..Capacity |-> IF i <= len THEN x[i] ELSE 0]
    <2>1. /\ len \in Nat /\ E!FlattenSeq(text) \in Seq(E!Byte)
          /\ buf = [i \in 1..Capacity |-> IF i <= len THEN E!FlattenSeq(text)[i] ELSE 0]
      BY KeptBytes
    <2>2. len = Len(E!FlattenSeq(text)) /\ len <= Capacity
      BY DEF Kept
    <2> QED BY <1>1, <2>1, <2>2
  <1>5. y \in Seq(E!Byte) /\ k \in Nat /\ k <= Capacity
    BY <1>1, <1>3, <1>4, TextFlattens
  <1>6. y \o E!Zeros(Capacity - k) = [i \in 1..Capacity |-> IF i <= k THEN y[i] ELSE 0]
    BY <1>3, <1>5, Padded
  <1>7. ASSUME NEW i \in 1..Capacity
        PROVE  (IF i \in (k + 1)..len THEN 0 ELSE buf[i]) = IF i <= k THEN y[i] ELSE 0
    <2>1. CASE i <= k
      <3>1. i \in 1..k /\ ~(i \in (k + 1)..len) /\ i <= len
        BY <1>3, <1>4, <1>5, <2>1
      <3> QED BY <1>3, <1>4, <2>1, <3>1
    <2>2. CASE ~(i <= k) /\ i <= len
      <3>1. i \in (k + 1)..len
        BY <1>4, <1>5, <2>2
      <3> QED BY <2>2, <3>1
    <2>3. CASE ~(i <= len)
      <3>1. ~(i \in (k + 1)..len) /\ ~(i <= k)
        BY <1>3, <1>4, <1>5, <2>3
      <3> QED BY <1>4, <2>3, <3>1
    <2> QED BY <2>1, <2>2, <2>3
  <1>8. buf' = [i \in 1..Capacity |-> IF i <= k THEN y[i] ELSE 0]
    BY <1>2, <1>7
  <1> QED BY <1>1, <1>2, <1>3, <1>5, <1>6, <1>8 DEF Kept

EditorInv == value \in Seq(E!Byte) /\ Kept(buf, len, text)

LEMMA EmptyCharacters == E!CharactersOf(<<>>) = <<>>
  <1>1. PICK q, t : q = <<>> /\ t = E!CharactersOf(q)
    OBVIOUS
  <1>2. q \in Seq(E!Byte)
    BY <1>1, EmptySeq
  <1>3. Whole(t) /\ E!FlattenSeq(t) = <<>>
    BY <1>1, <1>2, CharactersAre
  <1>4. ASSUME t # <<>> PROVE FALSE
    <2>1. PICK f, c : t = Append(f, c) /\ Whole(f) /\ Trails(c)
      BY <1>3, <1>4, WholeSplit
    <2>2. c \in Seq(E!Byte) /\ c # <<>>
      BY <2>1 DEF Trails, Chars
    <2>3. E!FlattenSeq(f) \in Seq(E!Byte) /\ E!FlattenSeq(t) = E!FlattenSeq(f) \o c
      BY <2>1, <2>2, TextFlattens
    <2>4. PICK y : y = E!FlattenSeq(f)
      OBVIOUS
    <2>5. y \in Seq(E!Byte) /\ y \o c = <<>>
      BY <1>3, <2>3, <2>4
    <2>6. c = <<>>
      BY <2>2, <2>5, ConcatEqualIffEmpty
    <2> QED BY <2>2, <2>6
  <1> QED BY <1>1, <1>4

LEMMA CloseKeeps ==
  ASSUME Capacity \in Nat, E!Close
  PROVE  Kept(buf', len', text')
  <1>1. E!Seed(<<>>) /\ text' = <<>>
    BY DEF E!Close
  <1>2. <<>> \in Seq(E!Byte) /\ Len(<<>>) = 0
    BY EmptySeq
  <1>3. len' = 0
    <2>1. len' = IF 0 < Capacity THEN 0 ELSE Capacity
      BY <1>1, <1>2 DEF E!Seed
    <2> QED BY <2>1
  <1>4. SubSeq(<<>>, 1, len') = <<>>
    BY <1>3, SubSeqEmpty
  <1>5. text' = E!CharactersOf(SubSeq(<<>>, 1, len'))
    BY <1>1, <1>4, EmptyCharacters
  <1> QED BY <1>1, <1>2, <1>5, SeedKeeps

LEMMA BytesOfBuffer ==
  ASSUME Capacity \in Nat, Kept(buf, len, text)
  PROVE  E!as_bytes \in Seq(E!Byte)
  <1>1. PICK x : x = E!FlattenSeq(text)
    OBVIOUS
  <1>2. x \in Seq(E!Byte) /\ len \in Nat /\ len = Len(x) /\ len <= Capacity
        /\ buf = [i \in 1..Capacity |-> IF i <= len THEN x[i] ELSE 0]
    <2>1. /\ len \in Nat /\ E!FlattenSeq(text) \in Seq(E!Byte)
          /\ buf = [i \in 1..Capacity |-> IF i <= len THEN E!FlattenSeq(text)[i] ELSE 0]
      BY KeptBytes
    <2>2. len = Len(E!FlattenSeq(text)) /\ len <= Capacity
      BY DEF Kept
    <2> QED BY <1>1, <2>1, <2>2
  <1>3. ASSUME NEW i \in 1..len PROVE buf[i] \in E!Byte
    <2>1. i \in 1..Capacity /\ i <= len /\ i \in 1..Len(x)
      BY <1>2
    <2>2. x[i] \in E!Byte
      BY <1>2, <2>1, ElementOfSeq
    <2> QED BY <1>2, <2>1, <2>2
  <1>4. SubSeq(buf, 1, len) \in Seq(E!Byte)
    <2>1. 1 \in Int /\ len \in Int
      BY <1>2
    <2> QED BY <1>3, <2>1, SubSeqProperties
  <1> QED BY <1>4 DEF E!as_bytes

LEMMA EditorStep ==
  ASSUME E!InputsAreSound, EditorInv, [E!Next]_E!vars
  PROVE  EditorInv'
  <1>1. Capacity \in Nat /\ value \in Seq(E!Byte) /\ Kept(buf, len, text)
    BY DEF E!InputsAreSound, EditorInv
  <1>2. CASE E!Open
    <2>1. E!Seed(value) /\ text' = E!CharactersOf(SubSeq(value, 1, len')) /\ value' = value
      BY <1>2 DEF E!Open
    <2>2. Kept(buf', len', text')
      BY <1>1, <2>1, SeedKeeps
    <2> QED BY <1>1, <2>1, <2>2 DEF EditorInv
  <1>3. CASE E!backspace
    <2>1. value' = value
      BY <1>3 DEF E!backspace
    <2>2. Kept(buf', len', text')
      BY <1>1, <1>3, BackspaceKeeps
    <2> QED BY <1>1, <2>1, <2>2 DEF EditorInv
  <1>4. CASE E!Save
    <2>1. value' \in Seq(E!Byte)
      BY <1>1, <1>4, BytesOfBuffer DEF E!Save
    <2>2. Kept(buf', len', text')
      BY <1>1, <1>4, CloseKeeps DEF E!Save
    <2> QED BY <2>1, <2>2 DEF EditorInv
  <1>5. CASE E!Cancel
    <2>1. value' = value
      BY <1>5 DEF E!Cancel
    <2>2. Kept(buf', len', text')
      BY <1>1, <1>5, CloseKeeps DEF E!Cancel
    <2> QED BY <1>1, <2>1, <2>2 DEF EditorInv
  <1>6. ASSUME NEW c \in Keys, E!push_char(c) PROVE EditorInv'
    <2>1. value' = value
      BY <1>6 DEF E!push_char
    <2>2. CASE len + Len(c) > Capacity
      <3>1. buf' = buf /\ len' = len /\ text' = text
        BY <1>6, <2>2 DEF E!push_char
      <3> QED BY <1>1, <2>1, <3>1 DEF EditorInv
    <2>3. CASE ~(len + Len(c) > Capacity)
      <3>1. /\ buf' = [i \in 1..Capacity |-> IF i - len \in 1..Len(c) THEN c[i - len] ELSE buf[i]]
            /\ len' = len + Len(c) /\ text' = Append(text, c)
        BY <1>6, <2>3 DEF E!push_char
      <3>2. c \in Seq(E!Byte) /\ Trails(c) /\ Heads(c)
        BY DEF E!InputsAreSound, E!IsCharacter, Trails, Heads, Chars
      <3>3. len + Len(c) <= Capacity
        <4>1. len \in Nat /\ Len(c) \in Nat
          BY <1>1, <3>2, KeptBytes, LenProperties
        <4> QED BY <1>1, <2>3, <4>1
      <3>4. Kept([i \in 1..Capacity |-> IF i - len \in 1..Len(c) THEN c[i - len] ELSE buf[i]],
                 len + Len(c), Append(text, c))
        BY <1>1, <3>2, <3>3, TypingKeeps
      <3>5. Kept(buf', len', text')
        BY <3>1, <3>4
      <3> QED BY <1>1, <2>1, <3>5 DEF EditorInv
    <2> QED BY <2>2, <2>3
  <1>7. ASSUME NEW v \in Values, E!Generate(v) PROVE EditorInv'
    <2>1. E!Seed(v) /\ text' = E!CharactersOf(SubSeq(v, 1, len')) /\ value' = value
      BY <1>7 DEF E!Generate
    <2>2. v \in Seq(E!Byte)
      BY DEF E!InputsAreSound
    <2>3. Kept(buf', len', text')
      BY <1>1, <2>1, <2>2, SeedKeeps
    <2> QED BY <1>1, <2>1, <2>3 DEF EditorInv
  <1>8. CASE UNCHANGED E!vars
    BY <1>1, <1>8 DEF E!vars, EditorInv
  <1> QED BY <1>2, <1>3, <1>4, <1>5, <1>6, <1>7, <1>8 DEF E!Next

(* For any capacity, any values and any keys that are whole characters:    *)
(* the buffer holds the characters the user sees and nothing else, no      *)
(* character is cut in two by typing or deleting, and of what was deleted, *)
(* replaced or closed no byte is left.                                     *)
THEOREM WhatIsTypedIsKept ==
  ASSUME E!InputsAreSound
  PROVE  E!Spec => []TypedIsKept
  <1>1. E!Init => EditorInv
    <2> SUFFICES ASSUME E!Init PROVE EditorInv
      OBVIOUS
    <2>1. value \in Seq(E!Byte) /\ buf = E!Zeros(Capacity) /\ len = 0 /\ text = <<>> /\ Capacity \in Nat
      BY DEF E!Init, E!InputsAreSound
    <2>2. <<>> \in Seq(E!Byte) /\ Len(<<>>) = 0
      BY EmptySeq
    <2>3. <<>> \o E!Zeros(Capacity - 0) = E!Zeros(Capacity)
      <3>1. E!Zeros(Capacity) \in [1..Capacity -> E!Byte]
        BY DEF E!Zeros, E!Byte
      <3>2. E!Zeros(Capacity) \in Seq(E!Byte) /\ Capacity - 0 = Capacity
        BY <2>1, <3>1, FunctionIsSeq
      <3> QED BY <3>2, ConcatEmptySeq
    <2>4. Kept(buf, len, text)
      <3>1. E!FlattenSeq(text) = <<>>
        BY <2>1, FlattenEmpty
      <3>2. len <= Capacity
        BY <2>1
      <3> QED BY <2>1, <2>2, <2>3, <3>1, <3>2, WholeEmpty, Zenon DEF Kept
    <2> QED BY <2>1, <2>4 DEF EditorInv
  <1>2. EditorInv /\ [E!Next]_E!vars => EditorInv'
    BY EditorStep
  <1>3. EditorInv => TypedIsKept
    BY DEF EditorInv, Kept, TypedIsKept, E!TypedIsKept
  <1> QED BY <1>1, <1>2, <1>3, PTL DEF E!Spec

-----------------------------------------------------------------------------
(* Numbers by their digits.                                                *)
LEMMA ValueIs ==
  ASSUME NEW n \in Nat, NEW q \in [1..n -> Nat], NEW b \in Nat
  PROVE  \E f \in [0..n -> Nat] :
           /\ f[0] = 0 /\ \A i \in 1..n : f[i] = b * f[i - 1] + q[i]
           /\ G!Value(q, b) = f[n]
  <1>1. Len(q) = n
    BY FunctionIsSeq
  <1>2. PICK D : D = [x \in (1..n) \X Nat |-> b * x[2] + q[x[1]]]
    OBVIOUS
  <1>3. D \in [(1..n) \X Nat -> Nat]
    <2>1. ASSUME NEW x \in (1..n) \X Nat PROVE b * x[2] + q[x[1]] \in Nat
      <3>1. PICK y \in Nat, z \in Nat : y = x[2] /\ z = q[x[1]]
        OBVIOUS
      <3>2. b * y + z \in Nat
        OBVIOUS
      <3> QED BY <3>1, <3>2
    <2> QED BY <1>2, <2>1
  <1>4. PICK f : Steps(f, Nat, 0, n, D)
    BY <1>3, RecursionExists
  <1>5. \A i \in 1..n : f[i] = b * f[i - 1] + q[i]
    <2> SUFFICES ASSUME NEW i \in 1..n PROVE f[i] = b * f[i - 1] + q[i]
      OBVIOUS
    <2>1. i - 1 \in 0..n /\ f[i - 1] \in Nat
      BY <1>4 DEF Steps
    <2>2. D[<<i, f[i - 1]>>] = b * f[i - 1] + q[i]
      BY <1>2, <2>1
    <2> QED BY <1>4, <2>2 DEF Steps
  <1>6. f = [i \in 0..Len(q) |-> IF i = 0 THEN 0 ELSE b * f[i - 1] + q[i]]
    BY <1>1, <1>4, <1>5 DEF Steps
  <1>7. PICK h : /\ h = [i \in 0..Len(q) |-> IF i = 0 THEN 0 ELSE b * h[i - 1] + q[i]]
                 /\ G!Value(q, b) = h[Len(q)]
    BY <1>6, Zenon DEF G!Value
  <1>8. SameSteps(f, h, n)
    <2>1. h[0] = 0 /\ \A i \in 1..n : h[i] = b * h[i - 1] + q[i]
      BY <1>1, <1>7
    <2> QED BY <1>4, <1>5, <2>1 DEF SameSteps, Steps
  <1>9. f[n] = h[n]
    BY <1>8, StepByStep
  <1> QED BY <1>1, <1>4, <1>5, <1>7, <1>9 DEF Steps

(* The number of the first n digits of q, and of the n behind the m-th.    *)
First(q, n, b) == G!Value([j \in 1..n |-> q[j]], b)
Behind(q, m, n, b) == G!Value([j \in 1..n |-> q[m + j]], b)

LEMMA ValueNext ==
  ASSUME NEW n \in Nat, NEW b \in Nat, NEW q, \A j \in 1..(n + 1) : q[j] \in Nat
  PROVE  First(q, n, b) \in Nat /\ First(q, n + 1, b) = b * First(q, n, b) + q[n + 1]
  <1>2. PICK v : v = [j \in 1..n |-> q[j]]
    OBVIOUS
  <1>3. PICK w : w = [j \in 1..(n + 1) |-> q[j]]
    OBVIOUS
  <1>4. v \in [1..n -> Nat] /\ w \in [1..(n + 1) -> Nat]
    BY <1>2, <1>3
  <1>6. PICK f \in [0..n -> Nat] :
          /\ f[0] = 0 /\ \A i \in 1..n : f[i] = b * f[i - 1] + v[i]
          /\ G!Value(v, b) = f[n]
    BY <1>4, ValueIs
  <1>7. PICK h \in [0..(n + 1) -> Nat] :
          /\ h[0] = 0 /\ \A i \in 1..(n + 1) : h[i] = b * h[i - 1] + w[i]
          /\ G!Value(w, b) = h[n + 1]
    <2>1. PICK k \in Nat : k = n + 1
      OBVIOUS
    <2>2. w \in [1..k -> Nat]
      BY <1>4, <2>1
    <2>3. PICK h \in [0..k -> Nat] :
            /\ h[0] = 0 /\ \A i \in 1..k : h[i] = b * h[i - 1] + w[i]
            /\ G!Value(w, b) = h[k]
      BY <2>2, ValueIs
    <2> QED BY <2>1, <2>3
  <1>8. SameSteps(f, h, n)
    <2>1. \A i \in 1..n : v[i] = w[i] /\ h[i] = b * h[i - 1] + w[i]
      BY <1>2, <1>3, <1>7
    <2> QED BY <1>6, <1>7, <2>1 DEF SameSteps
  <1>9. f[n] = h[n]
    BY <1>8, StepByStep, SMTT(40)
  <1>10. h[n + 1] = b * h[n] + q[n + 1]
    <2>1. n + 1 \in 1..(n + 1) /\ (n + 1) - 1 = n /\ w[n + 1] = q[n + 1]
      BY <1>3
    <2> QED BY <1>7, <2>1
  <1>11. G!Value(v, b) \in Nat
    BY <1>6
  <1> QED BY <1>2, <1>3, <1>6, <1>7, <1>9, <1>10, <1>11 DEF First

LEMMA EmptyValue ==
  ASSUME NEW b \in Nat, NEW q
  PROVE  First(q, 0, b) = 0
  <1>1. PICK u : u = [j \in 1..0 |-> q[j]]
    OBVIOUS
  <1>2. u \in [1..0 -> Nat]
    BY <1>1
  <1>3. G!Value(u, b) = 0
    <2>1. PICK n \in Nat : n = 0
      OBVIOUS
    <2>2. u \in [1..n -> Nat]
      BY <1>2, <2>1
    <2>3. PICK f \in [0..n -> Nat] : f[0] = 0 /\ G!Value(u, b) = f[n]
      BY <2>2, ValueIs
    <2> QED BY <2>1, <2>3
  <1> QED BY <1>1, <1>3 DEF First

LEMMA BehindNext ==
  ASSUME NEW m \in Nat, NEW n \in Nat, NEW b \in Nat, NEW q, \A j \in 1..(m + n + 1) : q[j] \in Nat
  PROVE  /\ Behind(q, m, 0, b) = 0
         /\ Behind(q, m, n, b) \in Nat
         /\ Behind(q, m, n + 1, b) = b * Behind(q, m, n, b) + q[m + n + 1]
  <1>1. PICK p : p = [j \in 1..(n + 1) |-> q[m + j]]
    OBVIOUS
  <1>2. \A j \in 1..(n + 1) : p[j] = q[m + j] /\ p[j] \in Nat
    <2> SUFFICES ASSUME NEW j \in 1..(n + 1) PROVE p[j] = q[m + j] /\ p[j] \in Nat
      OBVIOUS
    <2>1. m + j \in 1..(m + n + 1)
      OBVIOUS
    <2> QED BY <1>1, <2>1
  <1>3. First(p, 0, b) = Behind(q, m, 0, b)
    <2>1. [j \in 1..0 |-> p[j]] = [j \in 1..0 |-> q[m + j]]
      OBVIOUS
    <2> QED BY <2>1, Zenon DEF First, Behind
  <1>4. First(p, n, b) = Behind(q, m, n, b)
    <2>1. [j \in 1..n |-> p[j]] = [j \in 1..n |-> q[m + j]]
      BY <1>2
    <2> QED BY <2>1, Zenon DEF First, Behind
  <1>5. First(p, n + 1, b) = Behind(q, m, n + 1, b)
    <2>1. [j \in 1..(n + 1) |-> p[j]] = [j \in 1..(n + 1) |-> q[m + j]]
      BY <1>2
    <2> QED BY <2>1, Zenon DEF First, Behind
  <1>6. First(p, n, b) \in Nat /\ First(p, n + 1, b) = b * First(p, n, b) + p[n + 1]
    BY <1>2, ValueNext
  <1>7. p[n + 1] = q[m + n + 1]
    BY <1>1
  <1> QED BY <1>3, <1>4, <1>5, <1>6, <1>7, EmptyValue

LEMMA PowersDouble ==
  /\ G!Pow2(0) = 1
  /\ \A j \in 0..15 : G!Pow2(j) \in Nat /\ G!Pow2(j + 1) = 2 * G!Pow2(j)
  /\ \A j \in 0..16 : G!Pow2(j) \in Nat \ {0}
  BY DEF G!Pow2

(* Bits behind bits.                                                       *)
LEMMA BitsBehind ==
  ASSUME NEW m \in Nat, NEW q, NEW n \in 0..16, \A j \in 1..(m + n) : q[j] \in 0..1
  PROVE  /\ First(q, m, 2) \in Nat
         /\ Behind(q, m, n, 2) \in 0..(G!Pow2(n) - 1)
         /\ First(q, m + n, 2) = G!Pow2(n) * First(q, m, 2) + Behind(q, m, n, 2)
  <1> DEFINE S == {k \in Nat : k <= n =>
                     /\ First(q, m, 2) \in Nat
                     /\ Behind(q, m, k, 2) \in 0..(G!Pow2(k) - 1)
                     /\ First(q, m + k, 2) = G!Pow2(k) * First(q, m, 2) + Behind(q, m, k, 2)}
  <1>1. 0 \in S
    <2>1. First(q, m, 2) \in Nat
      <3>1. CASE m = 0
        BY <3>1, EmptyValue
      <3>2. CASE m # 0
        <4>1. PICK l \in Nat : m = l + 1
          <5>1. m - 1 \in Nat /\ m = (m - 1) + 1
            BY <3>2
          <5> QED BY <5>1
        <4>2. \A j \in 1..(l + 1) : q[j] \in Nat
          BY <4>1
        <4>3. First(q, l, 2) \in Nat /\ First(q, l + 1, 2) = 2 * First(q, l, 2) + q[l + 1]
          BY <4>2, ValueNext
        <4>4. q[l + 1] \in Nat
          BY <4>2
        <4> QED BY <4>1, <4>3, <4>4
      <3> QED BY <3>1, <3>2
    <2>2. Behind(q, m, 0, 2) = 0
      <3>1. PICK u, p : u = [j \in 1..0 |-> q[m + j]] /\ p = <<>>
        OBVIOUS
      <3>2. u = [j \in 1..0 |-> p[j]]
        BY <3>1
      <3>3. G!Value(u, 2) = 0
        BY <3>2, EmptyValue DEF First
      <3> QED BY <3>1, <3>3 DEF Behind
    <2>3. m + 0 = m /\ G!Pow2(0) = 1
      BY PowersDouble
    <2> QED BY <2>1, <2>2, <2>3
  <1>2. ASSUME NEW k \in Nat, k \in S
        PROVE  k + 1 \in S
    <2> SUFFICES ASSUME k + 1 <= n
                 PROVE  /\ First(q, m, 2) \in Nat
                        /\ Behind(q, m, k + 1, 2) \in 0..(G!Pow2(k + 1) - 1)
                        /\ First(q, m + (k + 1), 2) = G!Pow2(k + 1) * First(q, m, 2) + Behind(q, m, k + 1, 2)
      OBVIOUS
    <2>1. PICK a, c, p, d : a = First(q, m, 2) /\ c = Behind(q, m, k, 2) /\ p = G!Pow2(k) /\ d = q[m + k + 1]
      OBVIOUS
    <2>2. a \in Nat /\ c \in 0..(p - 1) /\ First(q, m + k, 2) = p * a + c
      BY <1>2, <2>1
    <2>3. p \in Nat /\ G!Pow2(k + 1) = 2 * p
      <3>1. k \in 0..15
        OBVIOUS
      <3> QED BY <2>1, <3>1, PowersDouble
    <2>4. \A j \in 1..(m + k + 1) : q[j] \in 0..1 /\ q[j] \in Nat
      OBVIOUS
    <2>5. d \in 0..1
      <3>1. m + k + 1 \in 1..(m + k + 1)
        OBVIOUS
      <3> QED BY <2>1, <2>4, <3>1
    <2>6. Behind(q, m, k + 1, 2) = 2 * c + d
      <3>1. \A j \in 1..(m + k + 1) : q[j] \in Nat
        BY <2>4
      <3>2. Behind(q, m, k + 1, 2) = 2 * Behind(q, m, k, 2) + q[m + k + 1]
        BY <3>1, BehindNext
      <3> QED BY <2>1, <3>2
    <2>7. First(q, m + (k + 1), 2) = 2 * (p * a + c) + d
      <3>1. PICK l \in Nat : l = m + k
        OBVIOUS
      <3>2. First(q, l + 1, 2) = 2 * First(q, l, 2) + q[l + 1]
        BY <2>4, <3>1, ValueNext
      <3>3. m + (k + 1) = l + 1
        BY <3>1
      <3> QED BY <2>1, <2>2, <3>1, <3>2, <3>3
    <2>8. 2 * c + d \in 0..(2 * p - 1)
      BY <2>2, <2>3, <2>5
    <2>9. 2 * (p * a + c) + d = (2 * p) * a + (2 * c + d)
      <3>1. c \in Nat /\ d \in Nat
        BY <2>2, <2>3, <2>5
      <3>2. PICK y \in Nat : y = p * a
        BY <2>2, <2>3
      <3>3. (2 * p) * a = 2 * y
        BY <2>2, <2>3, <3>2
      <3> QED BY <3>1, <3>2, <3>3
    <2>10. First(q, m + (k + 1), 2) = (2 * p) * a + Behind(q, m, k + 1, 2)
      BY <2>6, <2>7, <2>9, Zenon
    <2> QED BY <2>1, <2>2, <2>3, <2>6, <2>8, <2>10
  <1> HIDE DEF S
  <1>3. Nat \subseteq S
    BY <1>1, <1>2, SetInduction
  <1> QED BY <1>3 DEF S

(* The bits of a byte are those of BitAt.                                  *)
LEMMA HalfOfByte ==
  ASSUME NEW v \in Nat, NEW j \in 0..7
  PROVE  /\ v \div G!Pow2(j + 1) \in Nat
         /\ v \div G!Pow2(j) = 2 * (v \div G!Pow2(j + 1)) + ((v \div G!Pow2(j)) % 2)
  <1>1. ASSUME NEW x \in Nat PROVE x \div 2 \in Nat /\ x = 2 * (x \div 2) + (x % 2)
    OBVIOUS
  <1>2. /\ v \div 1 = v /\ v \div 4 = (v \div 2) \div 2 /\ v \div 8 = (v \div 4) \div 2
        /\ v \div 16 = (v \div 8) \div 2 /\ v \div 32 = (v \div 16) \div 2
        /\ v \div 64 = (v \div 32) \div 2 /\ v \div 128 = (v \div 64) \div 2
        /\ v \div 256 = (v \div 128) \div 2
    OBVIOUS
  <1>3. /\ G!Pow2(0) = 1 /\ G!Pow2(1) = 2 /\ G!Pow2(2) = 4 /\ G!Pow2(3) = 8 /\ G!Pow2(4) = 16
        /\ G!Pow2(5) = 32 /\ G!Pow2(6) = 64 /\ G!Pow2(7) = 128 /\ G!Pow2(8) = 256
    BY DEF G!Pow2
  <1>4. PICK x : x = v \div G!Pow2(j)
    OBVIOUS
  <1>5. x \in Nat /\ v \div G!Pow2(j + 1) = x \div 2
    <2>1. CASE j = 0
      BY <1>2, <1>3, <1>4, <2>1
    <2>2. CASE j = 1
      BY <1>2, <1>3, <1>4, <2>2
    <2>3. CASE j = 2
      BY <1>2, <1>3, <1>4, <2>3
    <2>4. CASE j = 3
      BY <1>2, <1>3, <1>4, <2>4
    <2>5. CASE j = 4
      BY <1>2, <1>3, <1>4, <2>5
    <2>6. CASE j = 5
      BY <1>2, <1>3, <1>4, <2>6
    <2>7. CASE j = 6
      BY <1>2, <1>3, <1>4, <2>7
    <2>8. CASE j = 7
      BY <1>2, <1>3, <1>4, <2>8
    <2> QED BY <2>1, <2>2, <2>3, <2>4, <2>5, <2>6, <2>7, <2>8
  <1> QED BY <1>1, <1>4, <1>5

LEMMA ByteIsItsBits ==
  ASSUME NEW m \in Nat, NEW v \in 0..255, NEW q, \A j \in 1..(m + 8) : q[j] \in Nat,
         \A i \in 0..7 : q[m + i + 1] = (v \div G!Pow2(7 - i)) % 2
  PROVE  Behind(q, m, 8, 2) = v
  <1> DEFINE S == {i \in Nat : i <= 8 => Behind(q, m, i, 2) = v \div G!Pow2(8 - i)}
  <1>1. 0 \in S
    <2>1. Behind(q, m, 0, 2) = 0
      <3>1. 0 \in Nat /\ 2 \in Nat /\ \A j \in 1..(m + 0 + 1) : q[j] \in Nat
        OBVIOUS
      <3> QED BY <3>1, BehindNext, ZenonT(40)
    <2>2. v \div G!Pow2(8 - 0) = 0
      <3>1. G!Pow2(8) = 256
        BY DEF G!Pow2
      <3>2. 8 - 0 = 8 /\ v \div 256 = 0
        OBVIOUS
      <3> QED BY <3>1, <3>2
    <2> QED BY <2>1, <2>2
  <1>2. ASSUME NEW i \in Nat, i \in S
        PROVE  i + 1 \in S
    <2> SUFFICES ASSUME i + 1 <= 8 PROVE Behind(q, m, i + 1, 2) = v \div G!Pow2(8 - (i + 1))
      OBVIOUS
    <2>1. PICK j \in 0..7 : j = 7 - i
      OBVIOUS
    <2>2. 8 - (i + 1) = j /\ 8 - i = j + 1 /\ i \in 0..7
      BY <2>1
    <2>3. Behind(q, m, i, 2) = v \div G!Pow2(j + 1)
      BY <1>2, <2>2
    <2>4. Behind(q, m, i + 1, 2) = 2 * Behind(q, m, i, 2) + q[m + i + 1]
      <3>1. \A k \in 1..(m + i + 1) : q[k] \in Nat
        OBVIOUS
      <3> QED BY <3>1, BehindNext
    <2>5. q[m + i + 1] = (v \div G!Pow2(j)) % 2
      BY <2>1, <2>2
    <2>6. v \div G!Pow2(j) = 2 * (v \div G!Pow2(j + 1)) + ((v \div G!Pow2(j)) % 2)
      <3>1. v \in Nat
        OBVIOUS
      <3> QED BY <3>1, HalfOfByte
    <2> QED BY <2>2, <2>3, <2>4, <2>5, <2>6, Zenon
  <1> HIDE DEF S
  <1>3. 8 \in S
    BY <1>1, <1>2, SetInduction
  <1>4. v \div G!Pow2(0) = v
    BY DEF G!Pow2
  <1>5. Behind(q, m, 8, 2) = v \div G!Pow2(8 - 8)
    BY <1>3 DEF S
  <1>6. 8 - 8 = 0
    OBVIOUS
  <1> QED BY <1>4, <1>5, <1>6

(* q is the bits of nb bytes, one behind the other.                        *)
BitsOf(q, bytes, nb) ==
  /\ bytes \in [1..nb -> 0..255]
  /\ \A j \in 1..(8 * nb) : q[j] \in 0..1 /\ q[j] = G!BitAt(bytes, j - 1)

LEMMA BitsExist ==
  ASSUME NEW nb \in Nat, NEW bytes \in [1..nb -> 0..255]
  PROVE  \E q : BitsOf(q, bytes, nb)
  <1>1. PICK q : q = [j \in 1..(8 * nb) |-> G!BitAt(bytes, j - 1)]
    OBVIOUS
  <1>2. ASSUME NEW j \in 1..(8 * nb) PROVE G!BitAt(bytes, j - 1) \in 0..1
    <2>1. PICK i \in Nat : i = j - 1
      OBVIOUS
    <2>2. i \div 8 + 1 \in 1..nb /\ 7 - (i % 8) \in 0..7
      BY <2>1
    <2>3. PICK v, p : v = bytes[i \div 8 + 1] /\ p = G!Pow2(7 - (i % 8))
      OBVIOUS
    <2>4. v \in Nat
      <3>1. PICK k \in 1..nb : k = i \div 8 + 1
        BY <2>2
      <3>2. bytes[k] \in 0..255
        BY <3>1
      <3>3. v \in 0..255
        BY <2>3, <3>1, <3>2
      <3> QED BY <3>3
    <2>5. p \in Nat \ {0}
      <3>1. 7 - (i % 8) \in 0..16
        BY <2>2
      <3> QED BY <2>3, <3>1, PowersDouble
    <2>6. v \div p \in Nat
      BY <2>4, <2>5, Division
    <2>7. (v \div p) % 2 \in 0..1
      BY <2>6
    <2> QED BY <2>1, <2>3, <2>7 DEF G!BitAt
  <1>3. ASSUME NEW j \in 1..(8 * nb) PROVE q[j] = G!BitAt(bytes, j - 1)
    BY <1>1, Zenon
  <1>4. ASSUME NEW j \in 1..(8 * nb) PROVE q[j] \in 0..1
    <2>1. PICK x : x = G!BitAt(bytes, j - 1)
      OBVIOUS
    <2>2. x \in 0..1
      BY <1>2, <2>1, Zenon
    <2>3. q[j] = x
      BY <1>3, <2>1, Zenon
    <2> QED BY <2>2, <2>3
  <1> QED BY <1>3, <1>4, ZenonT(40) DEF BitsOf

LEMMA BitsAreBytes ==
  ASSUME NEW nb \in Nat, NEW bytes, NEW q, BitsOf(q, bytes, nb)
  PROVE  First(q, 8 * nb, 2) = First(bytes, nb, 256)
  <1> DEFINE S == {k \in Nat : k <= nb => First(q, 8 * k, 2) = First(bytes, k, 256)}
  <1>1. 0 \in S
    <2>1. First(q, 0, 2) = 0 /\ First(bytes, 0, 256) = 0 /\ 8 * 0 = 0
      BY EmptyValue
    <2> QED BY <2>1
  <1>2. ASSUME NEW k \in Nat, k \in S
        PROVE  k + 1 \in S
    <2> SUFFICES ASSUME k + 1 <= nb PROVE First(q, 8 * (k + 1), 2) = First(bytes, k + 1, 256)
      OBVIOUS
    <2>m. PICK m \in Nat : m = 8 * k
      OBVIOUS
    <2>1. PICK v, a : v = bytes[k + 1] /\ a = First(q, m, 2)
      OBVIOUS
    <2>2. m + 8 <= 8 * nb /\ 8 * (k + 1) = m + 8 /\ k + 1 \in 1..nb
      BY <2>m
    <2>3. v \in 0..255
      BY <2>1, <2>2 DEF BitsOf
    <2>4. \A j \in 1..(m + 8) : q[j] \in 0..1
      BY <2>2 DEF BitsOf
    <2>5. \A i \in 0..7 : q[m + i + 1] = (v \div G!Pow2(7 - i)) % 2
      <3> SUFFICES ASSUME NEW i \in 0..7 PROVE q[m + i + 1] = (v \div G!Pow2(7 - i)) % 2
        OBVIOUS
      <3>1. PICK j \in Nat : j = m + i
        OBVIOUS
      <3>2. j + 1 \in 1..(8 * nb) /\ (j + 1) - 1 = j
        BY <2>2, <3>1
      <3>3. q[j + 1] = G!BitAt(bytes, j)
        BY <3>2 DEF BitsOf
      <3>4. j \div 8 = k /\ j % 8 = i
        BY <2>m, <3>1
      <3> QED BY <2>1, <3>1, <3>3, <3>4 DEF G!BitAt
    <2>6. Behind(q, m, 8, 2) = v
      <3>1. \A j \in 1..(m + 8) : q[j] \in Nat
        BY <2>4
      <3> QED BY <2>3, <2>5, <3>1, ByteIsItsBits
    <2>7. a \in Nat /\ First(q, m + 8, 2) = 256 * a + v
      <3>1. PICK n : n = 8
        OBVIOUS
      <3>2. n \in 0..16 /\ \A j \in 1..(m + n) : q[j] \in 0..1
        BY <2>4, <3>1
      <3>3. First(q, m, 2) \in Nat /\ First(q, m + n, 2) = G!Pow2(n) * First(q, m, 2) + Behind(q, m, n, 2)
        BY <3>2, BitsBehind
      <3>4. G!Pow2(8) = 256
        BY DEF G!Pow2
      <3> QED BY <2>1, <2>6, <3>1, <3>3, <3>4
    <2>8. First(bytes, k + 1, 256) = 256 * First(bytes, k, 256) + v
      <3>1. \A j \in 1..(k + 1) : bytes[j] \in Nat
        <4>1. \A j \in 1..nb : bytes[j] \in 0..255
          BY DEF BitsOf
        <4> QED BY <4>1
      <3> QED BY <2>1, <3>1, ValueNext
    <2>9. First(bytes, k, 256) = a
      BY <1>2, <2>m, <2>1, <2>2
    <2> QED BY <2>2, <2>7, <2>8, <2>9
  <1> HIDE DEF S
  <1>3. nb \in S
    BY <1>1, <1>2, SetInduction
  <1> QED BY <1>3 DEF S

(* words are N words of n bits cut from nb bytes.                          *)
WordsOf(words, N, n, bytes, nb) ==
  /\ N * n <= 8 * nb
  /\ words = [k \in 1..N |-> G!WordAt(bytes, n, k - 1)]

(* They are the first bits of q.                                           *)
AreBits(words, N, n, q) ==
  /\ First(words, N, G!Pow2(n)) = First(q, N * n, 2)
  /\ \A k \in 1..N : words[k] \in Nat

LEMMA WordsAreBits ==
  ASSUME NEW nb \in Nat, NEW bytes, NEW q, BitsOf(q, bytes, nb),
         NEW n \in 0..16, NEW N \in Nat, NEW words, WordsOf(words, N, n, bytes, nb)
  PROVE  AreBits(words, N, n, q)
  <1>w. N * n <= 8 * nb /\ \A k \in 1..N : words[k] = G!WordAt(bytes, n, k - 1)
    BY DEF WordsOf
  <1> DEFINE S == {k \in Nat : k <= N =>
                     /\ First(words, k, G!Pow2(n)) = First(q, k * n, 2)
                     /\ \A j \in 1..k : words[j] \in Nat}
  <1>1. 0 \in S
    <2>1. G!Pow2(n) \in Nat
      BY PowersDouble
    <2>2. First(q, 0, 2) = 0 /\ First(words, 0, G!Pow2(n)) = 0 /\ 0 * n = 0
      BY <2>1, EmptyValue
    <2> QED BY <2>2
  <1>2. ASSUME NEW k \in Nat, k \in S
        PROVE  k + 1 \in S
    <2> SUFFICES ASSUME k + 1 <= N
                 PROVE  /\ First(words, k + 1, G!Pow2(n)) = First(q, (k + 1) * n, 2)
                        /\ \A j \in 1..(k + 1) : words[j] \in Nat
      OBVIOUS
    <2>1. PICK m \in Nat : m = k * n
      OBVIOUS
    <2>2. (k + 1) * n = m + n /\ m + n <= 8 * nb
      <3>1. (k + 1) * n <= N * n /\ (k + 1) * n = k * n + n
        BY TimesOrdered, TimesNext
      <3>3. N * n <= 8 * nb
        BY <1>w
      <3>2. PICK e \in Nat : e = N * n
        OBVIOUS
      <3> QED BY <2>1, <3>1, <3>2, <3>3
    <2>3. PICK a, p, v : a = First(q, m, 2) /\ p = G!Pow2(n) /\ v = words[k + 1]
      OBVIOUS
    <2>4. \A j \in 1..(m + n) : q[j] \in 0..1 /\ q[j] = G!BitAt(bytes, j - 1)
      BY <2>2 DEF BitsOf
    <2>5. v = Behind(q, m, n, 2)
      <3>1. [j \in 1..n |-> G!BitAt(bytes, k * n + j - 1)] = [j \in 1..n |-> q[m + j]]
        <4>1. ASSUME NEW j \in 1..n PROVE G!BitAt(bytes, k * n + j - 1) = q[m + j]
          <5>1. m + j \in 1..(m + n) /\ k * n + j - 1 = (m + j) - 1
            BY <2>1
          <5> QED BY <2>4, <5>1
        <4> QED BY <4>1
      <3>2. v = G!WordAt(bytes, n, k)
        <4>1. k + 1 \in 1..N /\ (k + 1) - 1 = k
          OBVIOUS
        <4> QED BY <1>w, <2>3, <4>1
      <3> QED BY <3>1, <3>2, Zenon DEF G!WordAt, Behind
    <2>6. a \in Nat /\ v \in 0..(p - 1) /\ First(q, m + n, 2) = p * a + v
      <3>1. \A j \in 1..(m + n) : q[j] \in 0..1
        BY <2>4
      <3>2. /\ First(q, m, 2) \in Nat
            /\ Behind(q, m, n, 2) \in 0..(G!Pow2(n) - 1)
            /\ First(q, m + n, 2) = G!Pow2(n) * First(q, m, 2) + Behind(q, m, n, 2)
        BY <3>1, BitsBehind
      <3> QED BY <2>3, <2>5, <3>2
    <2>7. p \in Nat
      BY <2>3, PowersDouble
    <2>8. \A j \in 1..(k + 1) : words[j] \in Nat
      <3>1. words[k + 1] \in Nat
        BY <2>3, <2>6, <2>7
      <3>2. \A j \in 1..k : words[j] \in Nat
        BY <1>2
      <3>3. \A j \in 1..(k + 1) : j = k + 1 \/ j \in 1..k
        OBVIOUS
      <3> QED BY <3>1, <3>2, <3>3
    <2>9. First(words, k + 1, p) = p * First(words, k, p) + v
      BY <2>3, <2>7, <2>8, ValueNext
    <2>10. First(words, k, p) = a
      BY <1>2, <2>1, <2>3
    <2> QED BY <2>2, <2>3, <2>6, <2>8, <2>9, <2>10
  <1> HIDE DEF S
  <1>3. N \in S
    BY <1>1, <1>2, SetInduction
  <1> QED BY <1>3 DEF S, AreBits

(* The words, and the s bits that are left over.                           *)
IsRead(words, n, bytes, s) ==
  /\ words \in Seq(Nat)
  /\ G!Value(words, G!Pow2(n)) = G!Value(bytes, 256) \div G!Pow2(s)

LEMMA StreamIsRead ==
  ASSUME NEW nb \in Nat, NEW bytes \in [1..nb -> 0..255], NEW n \in 0..16, NEW N \in Nat,
         NEW words, WordsOf(words, N, n, bytes, nb), NEW s \in 0..7, s = 8 * nb - N * n
  PROVE  IsRead(words, n, bytes, s)
  <1>1. PICK q : BitsOf(q, bytes, nb)
    BY BitsExist
  <1>2. PICK m \in Nat : m = N * n
    OBVIOUS
  <1>3. 8 * nb = m + s /\ m <= 8 * nb
    BY <1>2
  <1>4. PICK p, a, r : p = G!Pow2(s) /\ a = First(q, m, 2) /\ r = Behind(q, m, s, 2)
    OBVIOUS
  <1>5. a \in Nat /\ r \in 0..(p - 1) /\ First(q, m + s, 2) = p * a + r
    <2>1. \A j \in 1..(m + s) : q[j] \in 0..1
      BY <1>1, <1>3 DEF BitsOf
    <2>2. s \in 0..16
      OBVIOUS
    <2>3. /\ First(q, m, 2) \in Nat
          /\ Behind(q, m, s, 2) \in 0..(G!Pow2(s) - 1)
          /\ First(q, m + s, 2) = G!Pow2(s) * First(q, m, 2) + Behind(q, m, s, 2)
      BY <2>1, <2>2, BitsBehind
    <2> QED BY <1>4, <2>3
  <1>6. p \in Nat \ {0}
    <2>1. s \in 0..16
      OBVIOUS
    <2> QED BY <1>4, <2>1, PowersDouble
  <1>7. (p * a + r) \div p = a
    <2>1. PICK v \in Nat : v = p * a + r
      BY <1>5, <1>6
    <2>2. v \div p \in Nat /\ v % p \in 0..(p - 1) /\ v = (v \div p) * p + (v % p)
      BY <1>6, Division
    <2>3. PICK i \in Nat, d \in 0..(p - 1) : i = v \div p /\ d = v % p
      BY <2>2
    <2>4. a * p + r = i * p + d
      <3>1. v = a * p + r
        BY <1>5, <1>6, <2>1
      <3> QED BY <2>2, <2>3, <3>1
    <2>5. a = i
      <3>1. a \in Int /\ i \in Int /\ p \in Nat \ {0} /\ r \in 0..(p - 1) /\ d \in 0..(p - 1)
        BY <1>5, <1>6, <2>3
      <3> QED BY <2>4, <3>1, Quotient, Zenon
    <2> QED BY <2>1, <2>3, <2>5
  <1>8. First(bytes, nb, 256) = p * a + r
    <2>1. First(q, 8 * nb, 2) = First(bytes, nb, 256)
      BY <1>1, BitsAreBytes
    <2> QED BY <1>3, <1>5, <2>1
  <1>9. First(words, N, G!Pow2(n)) = a
    <2>2. AreBits(words, N, n, q)
      BY <1>1, WordsAreBits
    <2>3. First(words, N, G!Pow2(n)) = First(q, N * n, 2)
      BY <2>2 DEF AreBits
    <2> QED BY <1>2, <1>4, <2>3
  <1>10. bytes = [j \in 1..nb |-> bytes[j]] /\ words = [j \in 1..N |-> words[j]]
    BY DEF WordsOf
  <1>11. G!Value(words, G!Pow2(n)) = First(words, N, G!Pow2(n)) /\ G!Value(bytes, 256) = First(bytes, nb, 256)
    BY <1>10, Zenon DEF First
  <1>12. words \in Seq(Nat)
    <2>1. AreBits(words, N, n, q)
      BY <1>1, WordsAreBits
    <2>2. words \in [1..N -> Nat]
      BY <1>10, <2>1 DEF AreBits
    <2> QED BY <2>2, FunctionIsSeq
  <1> QED BY <1>4, <1>7, <1>8, <1>9, <1>11, <1>12, ZenonT(40) DEF IsRead

LEMMA LogOfPower ==
  ASSUME NEW n \in G!PowersOfTwo
  PROVE  G!Log2(n) \in 0..16 /\ G!Pow2(G!Log2(n)) = n
  BY DEF G!PowersOfTwo, G!Log2, G!MaxBits

(* The words of a phrase that was made are the bits of its random bytes.   *)
LEMMA PhraseReadsTheStream ==
  ASSUME G!InputsAreSound, count \in Nat, G!Passphrase
  PROVE  WordsReadTheStream'
  <1>s. size' = size /\ count' = count
    BY DEF G!Passphrase
  <1> SUFFICES ASSUME size \in G!PowersOfTwo \ {1}
               PROVE  /\ out' # Err
                      /\ 8 * Len(random') - count * G!Log2(size) \in 0..7
                      /\ G!Value(out', size)
                           = G!Value(random', 256) \div G!Pow2(8 * Len(random') - count * G!Log2(size))
    BY <1>s DEF WordsReadTheStream, G!WordsReadTheStream
  <1>1. PICK n \in 0..16 : n = G!Log2(size) /\ size = G!Pow2(n)
    BY LogOfPower
  <1>2. PICK m \in Nat : m = n * count /\ m = count * n
    BY SMT
  <1>3. PICK nb \in Nat : nb = (m + 7) \div 8
    BY <1>2
  <1>4. 8 * nb - m \in 0..7
    BY <1>3
  <1>5. ~(size <= 1)
    <2>1. size \in Nat \ {0}
      BY <1>1, PowersDouble
    <2> QED BY <2>1
  <1>6. G!required_random_bytes(size, count) = nb
    <2>1. size \in G!PowersOfTwo /\ ~(size <= 1)
      BY <1>5
    <2>2. G!Log2(size) * count = m
      BY <1>1, <1>2, Zenon
    <2> QED BY <1>3, <2>1, <2>2, Zenon DEF G!required_random_bytes, G!Ceil8
  <1>7. PICK bytes \in [1..nb -> RandomBytes] :
          /\ random' = bytes
          /\ out' = IF size \notin G!PowersOfTwo \/ size <= 1 \/ Len(bytes) * 8 < count * G!Log2(size)
                      THEN Err
                      ELSE [k \in 1..count |-> G!WordAt(bytes, G!Log2(size), k - 1)]
    BY <1>6 DEF G!Passphrase
  <1>8. bytes \in [1..nb -> 0..255] /\ Len(bytes) = nb
    <2>1. Len(bytes) = nb
      BY <1>7, FunctionIsSeq
    <2> QED BY <1>7, <2>1 DEF G!InputsAreSound, G!Byte
  <1>9. out' = [k \in 1..count |-> G!WordAt(bytes, n, k - 1)]
    <2>1. ~(Len(bytes) * 8 < count * G!Log2(size))
      <3>1. count * G!Log2(size) = m
        BY <1>1, <1>2, Zenon
      <3>2. ~(nb * 8 < m)
        BY <1>4
      <3> QED BY <1>8, <3>1, <3>2, Zenon
    <2> QED BY <1>1, <1>5, <1>7, <2>1
  <1>10. PICK s \in 0..7 : s = 8 * nb - m
    BY <1>4
  <1>11. out' \in Seq(Nat) /\ G!Value(out', G!Pow2(n)) = G!Value(bytes, 256) \div G!Pow2(s)
    <2>1. PICK words, N : words = out' /\ N = count /\ N \in Nat
      OBVIOUS
    <2>2. N * n <= 8 * nb /\ s = 8 * nb - N * n
      BY <1>2, <1>10, <2>1
    <2>3. WordsOf(words, N, n, bytes, nb)
      BY <1>9, <2>1, <2>2 DEF WordsOf
    <2>4. IsRead(words, n, bytes, s)
      BY <1>8, <2>1, <2>2, <2>3, StreamIsRead
    <2> QED BY <2>1, <2>4 DEF IsRead
  <1>12. out' # Err
    BY <1>11 DEF G!InputsAreSound
  <1>13. Len(random') = nb /\ count * G!Log2(size) = m
    BY <1>1, <1>2, <1>7, <1>8, Zenon
  <1> QED BY <1>1, <1>7, <1>10, <1>11, <1>12, <1>13, Zenon

WordsInv == (what = "words" => count \in Nat) /\ WordsReadTheStream

(* For every length of a list up to 2^16 and any number of words: enough   *)
(* bytes are drawn, and the words are their bits, each once and in order.  *)
THEOREM PhrasesReadTheStream ==
  ASSUME G!InputsAreSound
  PROVE  G!Spec => []WordsReadTheStream
  <1>1. G!Init => WordsInv
    BY DEF G!Init, G!InputsAreSound, WordsInv, WordsReadTheStream, G!WordsReadTheStream
  <1>2. ASSUME WordsInv, [G!Next]_G!vars
        PROVE  WordsInv'
    <2>1. CASE G!Passphrase
      <3>1. count \in Nat /\ count' = count
        BY <1>2, <2>1 DEF WordsInv, G!Passphrase
      <3>2. WordsReadTheStream'
        BY <2>1, <3>1, PhraseReadsTheStream
      <3> QED BY <3>1, <3>2 DEF WordsInv
    <2>2. CASE G!Round
      <3>1. what' # "words"
        BY <2>2 DEF G!Round
      <3> QED BY <3>1 DEF WordsInv, WordsReadTheStream, G!WordsReadTheStream
    <2>3. CASE UNCHANGED G!vars
      BY <1>2, <2>3 DEF G!vars, WordsInv, WordsReadTheStream, G!WordsReadTheStream
    <2> QED BY <1>2, <2>1, <2>2, <2>3 DEF G!Next
  <1>3. WordsInv => WordsReadTheStream
    BY DEF WordsInv
  <1> QED BY <1>1, <1>2, <1>3, PTL DEF G!Spec
=============================================================================
