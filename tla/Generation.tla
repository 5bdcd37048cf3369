------------------------------ MODULE Generation ------------------------------
(***************************************************************************)
(* The generators of passphrases and passwords: select_words and           *)
(* required_random_bytes (src/core/passphrase.rs), generate_passphrase and *)
(* generate_password (src/core/manager.rs).                                *)
(*                                                                         *)
(* Both turn uniform random bytes into choices, a passphrase by cutting    *)
(* the stream of bits into words of log2(list) bits, a password by         *)
(* rejecting the bytes that would favour some characters.  A word is its   *)
(* place in the list, a character its place in the charset.                *)
(***************************************************************************)
EXTENDS Naturals, Sequences, FiniteSets

CONSTANTS ListLengths,  \* lengths of word lists
          Counts,       \* words of a passphrase
          Charsets,     \* sizes of charsets
          Lengths,      \* characters of a password
          RandomBytes,  \* the bytes the entropy source may yield
          Err

Byte == 0..255

(* What the constants may be.                                              *)
InputsAreSound ==
  /\ RandomBytes \subseteq Byte
  /\ ListLengths \cup Counts \cup Charsets \cup Lengths \subseteq Nat
  /\ Err \notin Seq(Nat)

VARIABLES what, size, count,  \* the request
          random,             \* the bytes that were drawn
          out                 \* the words or characters, or Err
vars == <<what, size, count, random, out>>

MaxBits == 16
Pow2(b) ==
  <<1, 2, 4, 8, 16, 32, 64, 128, 256, 512, 1024, 2048, 4096, 8192, 16384, 32768, 65536>>[b + 1]
PowersOfTwo == {Pow2(b) : b \in 0..MaxBits}
Log2(n) == CHOOSE b \in 0..MaxBits : Pow2(b) = n
Ceil8(bits) == (bits + 7) \div 8

required_random_bytes(n, k) ==
  IF n \notin PowersOfTwo \/ n <= 1 THEN 0 ELSE Ceil8(Log2(n) * k)

(* The sizes generate_password accepts.                                    *)
CharsetSizes == 1..256

(* How often n fits in a byte, and the largest multiple that does.         *)
Fits(n) == 256 \div n
Limit(n) == Fits(n) * n

(* Mutated: no byte is rejected.                                           *)
AcceptsAll(n, b) == TRUE

Accepts(n, b) == b < Limit(n)

Init ==
  /\ \/ what = "words" /\ size \in ListLengths /\ count \in Counts
     \/ what = "password" /\ size \in Charsets /\ count \in Lengths
  /\ random = <<>> /\ out = <<>>

(* Mutated: the low bit of each byte comes first.                          *)
LowBitAt(bytes, i) == (bytes[i \div 8 + 1] \div Pow2(i % 8)) % 2

(* Bit i of a sequence of bytes, the high bit of each byte first.          *)
BitAt(bytes, i) == (bytes[i \div 8 + 1] \div Pow2(7 - (i % 8))) % 2

(* The number with these digits, to the base n.                            *)
Value(digits, n) ==
  LET v[i \in 0..Len(digits)] == IF i = 0 THEN 0 ELSE n * v[i - 1] + digits[i]
  IN  v[Len(digits)]

(* The k-th word, from 0: as many bits, one behind the other.              *)
WordAt(bytes, bits, k) == Value([j \in 1..bits |-> BitAt(bytes, k * bits + j - 1)], 2)

(* generate_passphrase: select_words refuses other lists and too few bytes.*)
Passphrase ==
  /\ what = "words" /\ random = <<>> /\ out = <<>>
  /\ \E bytes \in [1..required_random_bytes(size, count) -> RandomBytes] :
       /\ random' = bytes
       /\ out' = IF \/ size \notin PowersOfTwo \/ size <= 1
                    \/ Len(bytes) * 8 < count * Log2(size)
                   THEN Err
                   ELSE [k \in 1..count |-> WordAt(bytes, Log2(size), k - 1)]
  /\ UNCHANGED <<what, size, count>>

(* generate_password: a round draws as many bytes as the password is long, *)
(* and drops what is left when it is complete.                             *)
Round ==
  /\ what = "password" /\ out # Err
  /\ IF size \notin CharsetSizes
       THEN out' = Err /\ UNCHANGED random
       ELSE /\ Len(out) < count
            /\ \E bytes \in [1..count -> RandomBytes] :
                 LET kept == SelectSeq(bytes, LAMBDA b : Accepts(size, b))
                     fit == IF Len(kept) > count - Len(out)
                              THEN SubSeq(kept, 1, count - Len(out)) ELSE kept
                 IN  /\ random' = bytes
                     /\ out' = out \o [i \in DOMAIN fit |-> fit[i] % size]
  /\ UNCHANGED <<what, size, count>>

Next == Passphrase \/ Round
Spec == Init /\ [][Next]_vars

-----------------------------------------------------------------------------
(* The output is a sequence of places in the list or the charset, and no   *)
(* longer than asked.                                                      *)
TypeOK ==
  out = Err \/ (out \in Seq(0..(size - 1)) /\ Len(out) <= count)

(* The bytes that make character c of n.                                   *)
Makers(n, c) == {b \in Byte : Accepts(n, b) /\ b % n = c}

(* Every character of a charset is made by as many bytes as every other,   *)
(* and no more bytes are rejected than that takes.                         *)
CharactersAreUnbiased ==
  (what = "password" /\ size \in CharsetSizes /\ out = <<>>) =>
    \A c \in 0..(size - 1) : Cardinality(Makers(size, c)) = Fits(size)

(* The words are the digits, to the base of the list's length, of the      *)
(* random bytes read as one number: enough are drawn, and each bit is used *)
(* once and in order, so that uniform bytes make uniform phrases.          *)
WordsReadTheStream ==
  (what = "words" /\ size \in PowersOfTwo \ {1} /\ random # <<>>) =>
    LET spare == 8 * Len(random) - count * Log2(size)
    IN  /\ out # Err
        /\ spare \in 0..7
        /\ Value(out, size) = Value(random, 256) \div Pow2(spare)
===============================================================================
