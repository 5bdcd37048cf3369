-------------------------------- MODULE Gf256 --------------------------------
(***************************************************************************)
(* Arithmetic in GF(2^8) as src/sharing/shamir.rs computes it, byte for    *)
(* byte.  The masks of the branch-free code are conditions here.           *)
(***************************************************************************)
EXTENDS Naturals, Sequences

Byte == 0..255

(* Tables, built by \o so that TLC computes every sum and product once.    *)
Table(f) == <<>> \o [i \in 1..65536 |-> f[<<(i - 1) \div 256, (i - 1) % 256>>]]

(* The sum modulo 2, bit by bit.                                           *)
xor(a, b) ==
  LET bits[i \in 0..8] ==
        IF i = 0 THEN 0
        ELSE LET w == 2^(8 - i) IN (2 * bits[i - 1]) + ((a \div w + b \div w) % 2)
  IN  bits[8]

SumTable == Table([p \in Byte \X Byte |-> xor(p[1], p[2])])
gf_add(a, b) == SumTable[256 * a + b + 1]

(* Mutated: reduced by another polynomial, one that is irreducible too.    *)
GfMulOther(a, b) ==
  LET step[i \in 0..8] ==
        IF i = 0 THEN [a |-> a, b |-> b, p |-> 0]
        ELSE LET s == step[i - 1]
                 shifted == (2 * s.a) % 256
             IN  [a |-> IF s.a >= 128 THEN gf_add(shifted, 29) ELSE shifted,
                  b |-> s.b \div 2,
                  p |-> IF s.b % 2 = 1 THEN gf_add(s.p, s.a) ELSE s.p]
  IN  step[8].p

(* Eight rounds of shift, reduce by 0x1B and add.                          *)
gf_mul(a, b) ==
  LET step[i \in 0..8] ==
        IF i = 0 THEN [a |-> a, b |-> b, p |-> 0]
        ELSE LET s == step[i - 1]
                 shifted == (2 * s.a) % 256
             IN  [a |-> IF s.a >= 128 THEN gf_add(shifted, 27) ELSE shifted,
                  b |-> s.b \div 2,
                  p |-> IF s.b % 2 = 1 THEN gf_add(s.p, s.a) ELSE s.p]
  IN  step[8].p

MulTable == Table([p \in Byte \X Byte |-> gf_mul(p[1], p[2])])
Mul(a, b) == MulTable[256 * a + b + 1]

(* a to the power 254.                                                     *)
gf_inv(a) ==
  LET power[i \in 0..6] ==
        IF i = 0 THEN a ELSE LET p == power[i - 1] IN Mul(Mul(p, p), a)
  IN  Mul(power[6], power[6])

-----------------------------------------------------------------------------
(* The reference: a byte is the set of exponents of a polynomial over      *)
(* GF(2), modulo x^8 + x^4 + x^3 + x + 1.  The powers of x + 1 are all the *)
(* bytes but 0, and products are sums of exponents.                        *)
Poly == [a \in Byte |-> {i \in 0..7 : (a \div 2^i) % 2 = 1}]
Plus(A, B) == (A \cup B) \ (A \cap B)
TimesX(A) ==
  LET B == {i + 1 : i \in A} IN IF 8 \in B THEN Plus(B, {0, 1, 3, 4, 8}) ELSE B

PowerOf[k \in 0..254] ==
  IF k = 0 THEN {0} ELSE LET A == PowerOf[k - 1] IN Plus(A, TimesX(A))

Exp == [k \in 0..254 |-> CHOOSE b \in Byte : Poly[b] = PowerOf[k]]
Log == [b \in Byte \ {0} |-> CHOOSE k \in 0..254 : Exp[k] = b]

ProductOf(a, b) == IF a = 0 \/ b = 0 THEN 0 ELSE Exp[(Log[a] + Log[b]) % 255]
InverseOf(a) == Exp[(255 - Log[a]) % 255]

(* Every product and every inverse the code computes is the field's.       *)
FieldIsGF256 ==
  \A a \in Byte :
    /\ \A b \in Byte : Mul(a, b) = ProductOf(a, b)
    /\ a # 0 => gf_inv(a) = InverseOf(a)
=============================================================================
