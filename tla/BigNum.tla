------------------------------- MODULE BigNum -------------------------------
(***************************************************************************)
(* The OpenSSL BIGNUM operations the schemes call, on the non-negative     *)
(* numbers they are called with.  OpenSSL is not part of the repository:   *)
(* what each operation returns is taken from how src/ uses it, and the     *)
(* return codes that src/ never tests are not modelled, only the value     *)
(* left in the result argument.                                            *)
(*                                                                         *)
(* TLC computes with 32-bit integers: moduli stay below 2^19, and products *)
(* of residues are built from two parts that fit.                          *)
(***************************************************************************)
EXTENDS Integers

(* BN_mod_mul                                                              *)
mod_mul(x, y, m) ==
  LET a == x % m
      b == y % m
      high == (a * (b \div 512)) % m
      low == (a * (b % 512)) % m
  IN  (((high * 512) % m) + low) % m

(* BN_mod_exp: x^e mod m by repeated squaring; x^0 is 1, 0^0 included.    *)
mod_exp(x, e, m) ==
  LET square[y \in Nat] == mod_mul(y, y, m)
      times_x[y \in Nat] == mod_mul(y, x, m)
      pow[k \in Nat] ==
        IF k = 0 THEN 1 % m
        ELSE IF k % 2 = 1 THEN times_x[square[pow[k \div 2]]]
        ELSE square[pow[k \div 2]]
  IN  pow[e]

(* The extended Euclidean algorithm: euclid[r1][r0] is <<d, s, t>> with d  *)
(* the greatest common divisor of r0 and r1 and d = s * r0 + t * r1.       *)
euclid[r1 \in Nat] ==
  [r0 \in Nat |->
     IF r1 = 0 THEN <<r0, 1, 0>>
     ELSE LET e == euclid[r0 % r1][r1]
          IN <<e[1], e[3], e[2] - (r0 \div r1) * e[3]>>]

(* BN_gcd                                                                  *)
gcd(x, y) == euclid[y][x][1]

Coprime(x, y) == gcd(x, y) = 1

(* BN_mod_inverse: when x has no inverse the call fails and leaves the     *)
(* result argument as BN_new() made it, zero.                              *)
mod_inverse(x, m) ==
  LET e == euclid[x % m][m]
  IN  IF e[1] = 1 THEN e[3] % m ELSE 0

(* BN_div truncates toward zero; \div rounds down.                         *)
div(x, y) == IF x < 0 THEN -((-x) \div y) ELSE x \div y

two_to[k \in Nat] == IF k = 0 THEN 1 ELSE 2 * two_to[k - 1]

(* BN_num_bits(x) = len                                                    *)
HasBits(x, len) == two_to[len - 1] <= x /\ x < two_to[len]

(* BN_is_prime_ex                                                          *)
IsPrime(x) == x > 1 /\ \A d \in 2..(x - 1) : x % d # 0

(* BN_generate_prime_ex(len): some prime of len bits.                      *)
PrimesOfBits(len) == {x \in two_to[len - 1]..(two_to[len] - 1) : IsPrime(x)}

(* The residues that have an inverse.                                      *)
Units(m) == {x \in 0..(m - 1) : Coprime(x, m)}
=============================================================================
