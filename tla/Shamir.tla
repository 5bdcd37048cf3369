------------------------------- MODULE Shamir -------------------------------
(***************************************************************************)
(* Shamir's scheme over GF(2^8), split and reconstruct of                  *)
(* src/sharing/shamir.rs, for any arithmetic of bytes that is a field:     *)
(* that of the code is in Gf256.                                           *)
(*                                                                         *)
(* A dealer splits a secret, byte by byte, into n shares of which m are    *)
(* enough; later somebody reconstructs from some sequence of these shares, *)
(* in any order, with too few of them or the same one twice.               *)
(***************************************************************************)
EXTENDS Naturals, Sequences

CONSTANTS Add(_, _), Multiply(_, _), Invert(_),
          Secrets,   \* sequences of bytes
          Coeffs,    \* the bytes the random generator yields
          MaxN, Thresholds,
          None, Err

Byte == 0..255

(* Every byte but 0 is a power of g.                                       *)
Generates(g) ==
  LET power[k \in 0..254] == IF k = 0 THEN 1 ELSE Multiply(power[k - 1], g)
  IN  Byte \ {0} \subseteq {power[k] : k \in 0..254}

(* The bytes are a field of characteristic 2.  With a generator, what has  *)
(* to be looked at is about two bytes, and about three follows.            *)
IsField ==
  /\ \A a, b \in Byte :
       /\ Add(a, b) \in Byte /\ Add(a, b) = Add(b, a)
       /\ Multiply(a, b) \in Byte /\ Multiply(a, b) = Multiply(b, a)
       /\ Add(Add(a, b), 1) = Add(a, Add(b, 1))
  /\ \A a \in Byte :
       /\ Add(a, 0) = a /\ Add(a, a) = 0
       /\ Multiply(a, 0) = 0 /\ Multiply(a, 1) = a
       /\ Invert(a) \in Byte /\ (a # 0 => Multiply(a, Invert(a)) = 1)
  /\ \E g \in Byte :
       /\ Generates(g)
       /\ \A a, b \in Byte :
            /\ Multiply(Multiply(a, b), g) = Multiply(a, Multiply(b, g))
            /\ Multiply(Add(a, b), g) = Add(Multiply(a, g), Multiply(b, g))

(* What the constants may be.                                              *)
InputsAreSound ==
  /\ IsField
  /\ Secrets \subseteq Seq(Byte) /\ Coeffs \subseteq Byte
  /\ MaxN \in 1..255 /\ Thresholds \subseteq 0..256

VARIABLES secret, m, shares, used, result
vars == <<secret, m, shares, used, result>>

Shares == [index : Byte, data : Seq(Byte)]
TypeOK ==
  /\ secret \in Secrets /\ m \in Thresholds
  /\ \/ shares \in {None, Err}
     \/ shares \in Seq(Shares) /\ Len(shares) >= m
  /\ used \in Seq(Byte)
  /\ result = None \/ result = Err \/ result \in Seq(Byte)

Init ==
  /\ secret \in Secrets /\ m \in Thresholds
  /\ shares = None /\ used = <<>> /\ result = None

(* Horner's rule, from the last coefficient.                               *)
eval_poly(coeffs, x) ==
  LET n == Len(coeffs)
      value[i \in 0..(n - 1)] ==
        IF i = 0 THEN coeffs[n] ELSE Add(Multiply(value[i - 1], x), coeffs[n - i])
  IN  value[n - 1]

(* The polynomials of the secret's bytes.                                  *)
Polynomials(s, k) ==
  {p \in [1..Len(s) -> [1..k -> Coeffs \cup {s[i] : i \in 1..Len(s)}]] :
     \A i \in 1..Len(s) : p[i][1] = s[i] /\ \A j \in 2..k : p[i][j] \in Coeffs}

(* Mutated: the points start at 0.                                         *)
ShareFromZero(polys, i) ==
  [index |-> i, data |-> [k \in 1..Len(polys) |-> eval_poly(polys[k], i - 1)]]

Share(polys, i) ==
  [index |-> i, data |-> [k \in 1..Len(polys) |-> eval_poly(polys[k], i)]]

Split(n) ==
  /\ shares = None
  /\ IF m \in 2..255 /\ n >= m /\ n <= 255 /\ secret # <<>>
       THEN \E polys \in Polynomials(secret, m) : shares' = [i \in 1..n |-> Share(polys, i)]
       ELSE shares' = Err
  /\ UNCHANGED <<secret, m, used, result>>

-----------------------------------------------------------------------------
(* The product and the sum of a sequence of bytes.                         *)
Product(xs) ==
  LET prod[i \in 0..Len(xs)] == IF i = 0 THEN 1 ELSE Multiply(prod[i - 1], xs[i])
  IN  prod[Len(xs)]

Sum(xs) ==
  LET sum[i \in 0..Len(xs)] == IF i = 0 THEN 0 ELSE Add(sum[i - 1], xs[i])
  IN  sum[Len(xs)]

Distances(x, others) == [k \in 1..Len(others) |-> Add(x, others[k])]

(* Mutated: the denominator misses the point itself.                       *)
LagrangePlain(x, others) == Multiply(Product(others), Invert(Product(others)))

(* The Lagrange coefficient at 0 of the point x.                           *)
Lagrange(x, others) == Multiply(Product(others), Invert(Product(Distances(x, others))))

Others(s, i) == [k \in 1..(Len(s) - 1) |-> IF k < i THEN s[k] ELSE s[k + 1]]

(* The value at 0 of the polynomial through the points.                    *)
Interpolate(xs, ys) ==
  Sum([i \in 1..Len(xs) |-> Multiply(ys[i], Lagrange(xs[i], Others(xs, i)))])

Distinct(xs) == \A i, j \in 1..Len(xs) : xs[i] = xs[j] => i = j

(* Shares of one split all have one length.                                *)
Reconstruct(xs) ==
  /\ shares # None /\ shares # Err /\ result = None
  /\ used' = xs
  /\ IF Len(xs) < 2 \/ ~Distinct(xs)
       THEN result' = Err
       ELSE result' = [b \in 1..Len(secret) |->
                         Interpolate(xs, [i \in 1..Len(xs) |-> shares[xs[i]].data[b]])]
  /\ UNCHANGED <<secret, m, shares>>

Choices(n) == UNION {[1..k -> 1..n] : k \in 0..(m + 1)}

Next ==
  \/ \E n \in 0..MaxN : Split(n)
  \/ \E xs \in Choices(IF shares = None \/ shares = Err THEN 0 ELSE Len(shares)) : Reconstruct(xs)

Spec == Init /\ [][Next]_vars

-----------------------------------------------------------------------------
(* Any m shares, in any order, and any more of them, give the secret back. *)
EnoughSharesReconstruct ==
  (result # None /\ Distinct(used) /\ Len(used) >= m) => result = secret

(* The values of the shares xs of a byte, by the coefficients drawn.       *)
SharesOf(byte, xs, k) ==
  {[j \in 1..k |-> Share(<<<<byte>> \o c>>, xs[j]).data[1]] : c \in [1..k -> Byte]}

(* One share less than needed says nothing about a byte of the secret:     *)
(* whatever the byte, these shares take all values, and so, there being as *)
(* many values as coefficients, each for one choice of coefficients.       *)
FewSharesHide ==
  (shares = None /\ m \in 2..255) =>
    \A i \in 1..Len(secret), xs \in [1..(m - 1) -> 1..MaxN] :
      Distinct(xs) => SharesOf(secret[i], xs, m - 1) = [1..(m - 1) -> Byte]
=============================================================================
