-------------------------------- MODULE Totp --------------------------------
(***************************************************************************)
(* Time-based one-time passwords: src/core/totp.rs, and its use by otp-add *)
(* and otp (src/cli/client.rs).                                            *)
(*                                                                         *)
(* otp-add turns what it reads into a canonical URI and stores that; otp   *)
(* parses the stored value and prints the code of the current period.  A   *)
(* URI is the sequence of its query's fields; its label, which is escaped  *)
(* and never read back, is left out.  A character is its value in the      *)
(* base32 alphabet, Skipped ('=', ' ', '-') or Foreign.  HMAC is any       *)
(* function of secret and counter; a hash is any sequence of bytes.        *)
(*                                                                         *)
(* The u32 accumulators of base32 are kept to their low 16 bits: no read   *)
(* of them goes beyond the low 12.                                         *)
(***************************************************************************)
EXTENDS Naturals, Sequences

CONSTANTS Fields,    \* the fields of the URIs that are read
          MaxFields, \* how many of them
          Seeds,     \* base32 texts that are read
          Fresh,     \* random secrets of otp-add --generate
          Starts, MaxWait, \* when the clock starts, how long it runs
          HashEnds,  \* last bytes of a hash
          None

Byte == 0..255
Skipped == 32
Foreign == 33

(* What the constants may be.                                              *)
InputsAreSound ==
  /\ \A f \in Fields : f.text \in Seq(0..Foreign) /\ f.num \in Nat
  /\ Seeds \subseteq Seq(0..Foreign) /\ Fresh \subseteq Seq(Byte) \ {<<>>, None}
  /\ HashEnds \subseteq Byte /\ Starts \subseteq Nat /\ MaxFields \in Nat /\ MaxWait \in Nat

VARIABLES meant,   \* the configuration otp-add was given or made
          stored,  \* the value in the vault
          shown,   \* what otp printed last, and when
          now, left
vars == <<meant, stored, shown, now, left>>

Algorithms == {"SHA1", "SHA256", "SHA512"}
Default == [secret |-> None, digits |-> 6, period |-> 30, algorithm |-> "SHA1"]

Init ==
  /\ meant = None /\ stored = None /\ shown = None
  /\ now \in Starts /\ left = MaxWait

-----------------------------------------------------------------------------
Pow2(k) == <<1, 2, 4, 8, 16, 32, 64, 128>>[k + 1]

(* The accumulator, with the bits of v behind it.                          *)
ShiftIn(acc, width, v) == (acc * width + v) % 65536

(* What a character does to the accumulator, the number of bits in it that *)
(* are not yet part of a byte, and the bytes so far.                       *)
TakeChar(s, c) ==
  IF c = Skipped THEN s
  ELSE LET acc == ShiftIn(s.acc, 32, c)
           nbits == s.nbits + 5
       IN  IF nbits < 8 THEN [acc |-> acc, nbits |-> nbits, out |-> s.out]
           ELSE [acc |-> acc, nbits |-> nbits - 8,
                 out |-> Append(s.out, (acc \div Pow2(nbits - 8)) % 256)]

Decoded(text) ==
  LET s[i \in 0..Len(text)] ==
        IF i = 0 THEN [acc |-> 0, nbits |-> 0, out |-> <<>>] ELSE TakeChar(s[i - 1], text[i])
  IN  s[Len(text)]

decode_base32(text) ==
  IF Foreign \in {text[i] : i \in 1..Len(text)} \/ Decoded(text).out = <<>> THEN None
  ELSE Decoded(text).out

(* The whole groups of five bits of acc, from the highest.                 *)
Groups(acc, bits) ==
  [i \in 1..(bits \div 5) |-> (acc \div Pow2(bits - 5 * i)) % 32]

PutByte(s, b) ==
  LET acc == ShiftIn(s.acc, 256, b)
  IN  [acc |-> acc, bits |-> (s.bits + 8) % 5, out |-> s.out \o Groups(acc, s.bits + 8)]

Encoded(data) ==
  LET s[i \in 0..Len(data)] ==
        IF i = 0 THEN [acc |-> 0, bits |-> 0, out |-> <<>>] ELSE PutByte(s[i - 1], data[i])
  IN  s[Len(data)]

(* Mutated: the last bits are dropped.                                     *)
EncodeWhole(data) == Encoded(data).out

(* The bits that are left are the high bits of a last character.           *)
encode_base32(data) ==
  LET end == Encoded(data)
  IN  IF end.bits = 0 THEN end.out
      ELSE Append(end.out, (end.acc * Pow2(5 - end.bits)) % 32)

(* A field has a key, and a value that is text, a number or a name.        *)
Field(key, text, num, name) == [key |-> key, text |-> text, num |-> num, name |-> name]

to_uri(cfg) ==
  [kind |-> "uri",
   fields |-> <<Field("secret", encode_base32(cfg.secret), 0, ""),
                Field("digits", <<>>, cfg.digits, ""),
                Field("period", <<>>, cfg.period, ""),
                Field("algorithm", <<>>, 0, cfg.algorithm)>>]

(* One field of the query: the last of its name counts, a number that does *)
(* not parse or is out of range is ignored (0 stands for both).            *)
TakeField(cfg, f) ==
  IF f.key = "secret" THEN [cfg EXCEPT !.secret = decode_base32(f.text)]
  ELSE IF f.key = "digits" /\ f.num \in 1..9 THEN [cfg EXCEPT !.digits = f.num]
  ELSE IF f.key = "period" /\ f.num > 0 THEN [cfg EXCEPT !.period = f.num]
  ELSE IF f.key = "algorithm" THEN [cfg EXCEPT !.algorithm = f.name]
  ELSE cfg

UnknownAlgorithm(fields) ==
  \E i \in DOMAIN fields : fields[i].key = "algorithm" /\ fields[i].name \notin Algorithms

TakenFrom(fields) ==
  LET cfg[i \in 0..Len(fields)] == IF i = 0 THEN Default ELSE TakeField(cfg[i - 1], fields[i])
  IN  cfg[Len(fields)]

parse_otpauth(fields) ==
  IF UnknownAlgorithm(fields) \/ TakenFrom(fields).secret = None THEN None ELSE TakenFrom(fields)

parse(value) ==
  IF value.kind = "uri" THEN parse_otpauth(value.fields)
  ELSE IF Len(value.text) < 16 \/ decode_base32(value.text) = None THEN None
  ELSE [Default EXCEPT !.secret = decode_base32(value.text)]

-----------------------------------------------------------------------------
(* Mutated: the seconds that have passed.                                  *)
SecondsPassed(cfg, t) == t % cfg.period

seconds_remaining(cfg, t) == cfg.period - (t % cfg.period)

HashLength == [SHA1 |-> 20, SHA256 |-> 32, SHA512 |-> 64]

(* The dynamic truncation of a hash, and the digits of the code.           *)
Truncate(hash, digits) ==
  LET o == hash[Len(hash)] % 16
  IN  ((hash[o + 1] % 128) * 2^24 + hash[o + 2] * 2^16 + hash[o + 3] * 2^8 + hash[o + 4])
        % 10^digits

(* otp-add: what is read is parsed and stored in the canonical form.       *)
OtpAdd(value) ==
  /\ stored = None
  /\ meant' = parse(value)
  /\ stored' = IF meant' = None THEN None ELSE to_uri(meant')
  /\ UNCHANGED <<shown, now, left>>

OtpAddGenerated(secret) ==
  /\ stored = None
  /\ meant' = [Default EXCEPT !.secret = secret] /\ stored' = to_uri(meant')
  /\ UNCHANGED <<shown, now, left>>

(* otp: the counter stands for the hash, of which only the end is varied.  *)
Otp(end) ==
  /\ stored # None /\ shown = None
  /\ LET cfg == parse(stored)
         hash == [i \in 1..HashLength[cfg.algorithm] |->
                    IF i = HashLength[cfg.algorithm] THEN end ELSE 255]
     IN  /\ cfg # None
         /\ shown' = [at |-> now, counter |-> now \div cfg.period, period |-> cfg.period,
                      remaining |-> seconds_remaining(cfg, now),
                      digits |-> cfg.digits, code |-> Truncate(hash, cfg.digits)]
  /\ UNCHANGED <<meant, stored, now, left>>

Tick ==
  /\ shown # None /\ left > 0
  /\ now' = now + 1 /\ left' = left - 1
  /\ UNCHANGED <<meant, stored, shown>>

Uris == {[kind |-> "uri", fields |-> fs] : fs \in UNION {[1..k -> Fields] : k \in 0..MaxFields}}
Texts == {[kind |-> "text", text |-> t] : t \in Seeds}

Next ==
  \/ \E value \in Uris \cup Texts : OtpAdd(value)
  \/ \E secret \in Fresh : OtpAddGenerated(secret)
  \/ \E end \in HashEnds : Otp(end)
  \/ Tick

Spec == Init /\ [][Next]_vars

-----------------------------------------------------------------------------
(* A configuration can be computed with: 10 to the power of its digits     *)
(* fits 32 bits, no period is 0, the code has at most that many digits.    *)
TypeOK ==
  /\ meant # None =>
       /\ meant.secret \in Seq(Byte) \ {<<>>}
       /\ meant.digits \in 1..9 /\ meant.period \in Nat \ {0} /\ meant.algorithm \in Algorithms
  /\ (stored = None) <=> (meant = None)
  /\ shown # None => shown.code \in 0..(10^shown.digits - 1)

(* What otp-add stores, otp reads back as it was meant: every bit of the   *)
(* secret, the digits, the period and the algorithm.                       *)
StoredReadsBack == stored # None => parse(stored) = meant

(* "valid for N s": the code otp printed is the current one for exactly    *)
(* the seconds it said, never for a second less or more.                   *)
ValidForAsLongAsShown ==
  shown # None =>
    ((now < shown.at + shown.remaining) <=> (now \div shown.period = shown.counter))
=============================================================================
