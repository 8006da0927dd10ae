----------------------------- MODULE KyberPoly ------------------------------
(***************************************************************************)
(* Coefficients and polynomials in Kyber (reduce.c, cbd.c, ntt.c, poly.c,  *)
(* polyvec.c).  An int16_t is an integer from -R/2 to R/2-1, and what the  *)
(* code assigns to one is cut to that range; a uint32_t is an integer      *)
(* modulo R*R.                                                             *)
(*                                                                         *)
(* Polynomials are taken modulo X^N + 1: the transform by layers, products *)
(* in the transformed domain, and the byte strings polynomials are packed  *)
(* into.  A poly is a function from the exponents to int16_t values, a     *)
(* polyvec a function to polys.  They are functions, not operators, so     *)
(* that their arguments are values.                                        *)
(***************************************************************************)
EXTENDS BigNum, FiniteSets, Functions

CONSTANTS
  q,            \* KYBER_Q, 3329
  R,            \* 2^16, the values of an int16_t and the Montgomery radix
  QINV,         \* 62209
  BarrettM,     \* 2^26, the fixed point of barrett_reduce
  RejMultiple,  \* 19: rej_uniform keeps the values below 19*q
  RejDigit      \* 2^12, the digit rej_uniform reduces by

ASSUME ModulusAssumption ==
  /\ q \in Nat /\ q > 2 /\ q % 2 = 1
  /\ R \in Nat /\ R % 2 = 0 /\ R > 8 * q
ASSUME MontgomeryAssumption == QINV \in 0..(R - 1) /\ (QINV * q) % R = 1
(* The rounded-up quotient 2^26/q + 1 is close enough for 16 bits.         *)
ASSUME BarrettAssumption ==
  /\ BarrettM \in Nat \ {0}
  /\ ((BarrettM \div q + 1) * q - BarrettM) * R < 2 * BarrettM
ASSUME RejectionAssumption ==
  /\ RejMultiple \in Nat /\ RejDigit \in Nat
  /\ RejMultiple * q <= R /\ q <= RejDigit

int16 == -(R \div 2)..(R \div 2 - 1)

(* The int16_t that x becomes by assignment.                               *)
short(x) == ((x + R \div 2) % R) - R \div 2

(* a/R modulo q, exactly: a - u*q is a multiple of R.  The product with    *)
(* QINV overflows; its low bits are those of the unbounded product.        *)
montgomery_reduce(a) ==
  LET u == short(a * QINV) IN short((a - u * q) \div R)

fqmul(a, b) == montgomery_reduce(a * b)

(* a modulo q, in 0..q.                                                    *)
barrett_reduce(a) ==
  LET v == BarrettM \div q + 1 IN short(a - ((v * a) \div BarrettM) * q)

(* Subtracts q, and adds it again if the sign bit is set.                  *)
csubq(a) ==
  LET s == short(a - q) IN IF s < 0 THEN short(s + q) ELSE s

(* (((uint32_t)a << d) + q/2) / q & (2^d - 1), after csubq.                *)
compress(a, d) ==
  (((csubq(a) * two_to[d] + q \div 2) % (R * R)) \div q) % two_to[d]

decompress(t, d) == (t * q + two_to[d - 1]) \div two_to[d]

(* A bit of a message as a coefficient, and back; a is in 0..q there.      *)
frombit(b) == b * ((q + 1) \div 2)

tobit(a) == ((2 * csubq(a) + q \div 2) \div q) % 2

(* rej_uniform: which 16-bit values it keeps, and what it makes of one.    *)
Keeps(val) == val < RejMultiple * q

uniform(val) == val - (val \div RejDigit) * q

(* The coefficient that cbd makes of four bits.                            *)
centred(nibble) ==
  LET b(i) == (nibble \div two_to[i]) % 2 IN b(0) + b(1) - (b(2) + b(3))

----------------------------------------------------------------------------

CONSTANTS
  LogN,    \* 8: the transform has a layer less
  N,       \* KYBER_N, 256
  K,       \* KYBER_K, 2
  root,    \* 17, whose power N/2 is -1
  DU, DV,  \* 10 and 3, the bits a coefficient is compressed to
  DP       \* 12, the bits of a coefficient in a key

ASSUME RingAssumption ==
  /\ LogN \in Nat /\ LogN >= 3 /\ N = two_to[LogN]
  /\ K \in Nat \ {0} /\ root \in Nat
  /\ DU \in Nat \ {0} /\ DV \in Nat \ {0} /\ DP \in Nat
  /\ two_to[DU] <= R /\ two_to[DV] <= R /\ q <= two_to[DP]
(* A coefficient may grow by q in each layer, and by two in each product   *)
(* that is accumulated.                                                    *)
ASSUME HeadroomAssumption == 2 * LogN * q < R /\ 4 * K * q < R

Index == 0..(N - 1)
Vec == 0..(K - 1)
Poly == [Index -> int16]
Polyvec == [Vec -> Poly]

power[n \in Nat] == IF n = 0 THEN 1 ELSE (root * power[n - 1]) % q

ASSUME RootAssumption ==
  (q - 1) % (N \div 2) = 0 /\ power[N \div 2] = q - 1

(* The n bits of k in reverse, for n = 7 the table tree.                   *)
tree[n \in Nat] ==
  [k \in 0..(two_to[n] - 1) |->
     IF n = 0 THEN 0 ELSE (k % 2) * two_to[n - 1] + tree[n - 1][k \div 2]]

(* Powers of the root times R, as init_ntt computes them for the table,    *)
(* and their inverses.  A layer whose blocks have 2*len coefficients uses  *)
(* one for each block, numbered from N/(2*len).                            *)
zetas == [k \in 0..(N \div 2 - 1) |-> (power[tree[LogN - 1][k]] * R) % q]
zetas_inv == [k \in 1..(N \div 2 - 1) |->
                (-power[N \div 2 - tree[LogN - 1][k]] * R) % q]

(* zetas_inv[127]: R^2 divided by N/2.                                     *)
last_inv == ((R % q) * (((R % q) * (q - 1) * ((q - 1) \div (N \div 2))) % q)) % q

zeta_index(i, len) == N \div (2 * len) + i \div (2 * len)
Lower(i, len) == i % (2 * len) < len

(* One pass of the loops of ntt: butterflies of a coefficient and the one  *)
(* len above it.                                                           *)
ntt_layer[len \in 1..N] ==
  [r \in Poly |->
     [i \in Index |->
        LET z == zetas[zeta_index(i, len)]
        IN  IF Lower(i, len) THEN short(r[i] + fqmul(z, r[i + len]))
            ELSE short(r[i - len] - fqmul(z, r[i]))]]

(* The layers have len = 128, 64, ..., 2.                                  *)
ntt[r \in Poly] ==
  LET after[t \in 0..(LogN - 1)] ==
        IF t = 0 THEN r ELSE ntt_layer[two_to[LogN - t]][after[t - 1]]
  IN  after[LogN - 1]

invntt_layer[len \in 1..N] ==
  [r \in Poly |->
     [i \in Index |->
        IF Lower(i, len) THEN barrett_reduce(short(r[i] + r[i + len]))
        ELSE fqmul(zetas_inv[zeta_index(i, len)], short(r[i - len] - r[i]))]]

invntt[r \in Poly] ==
  LET after[t \in 0..(LogN - 1)] ==
        IF t = 0 THEN r ELSE invntt_layer[two_to[t]][after[t - 1]]
      top == after[LogN - 1]
  IN  [i \in Index |-> fqmul(top[i], last_inv)]

poly_reduce[r \in Poly] == [i \in Index |-> barrett_reduce(r[i])]
poly_add[a \in Poly] == [b \in Poly |-> [i \in Index |-> short(a[i] + b[i])]]
poly_sub[a \in Poly] == [b \in Poly |-> [i \in Index |-> short(a[i] - b[i])]]
poly_ntt[r \in Poly] == poly_reduce[ntt[r]]
poly_frommont[r \in Poly] ==
  [i \in Index |-> montgomery_reduce(r[i] * ((R * R) % q))]

(* Pairs of coefficients are multiplied modulo X^2 - zeta and X^2 + zeta   *)
(* in turn.                                                                *)
poly_basemul[a \in Poly] ==
  [b \in Poly |->
     [i \in Index |->
        LET z == zetas[N \div 4 + i \div 4]
            zeta == IF i % 4 < 2 THEN z ELSE -z
        IN  IF i % 2 = 0
            THEN short(fqmul(fqmul(a[i + 1], b[i + 1]), zeta)
                         + fqmul(a[i], b[i]))
            ELSE short(fqmul(a[i - 1], b[i]) + fqmul(a[i], b[i - 1]))]]

polyvec_add[a \in Polyvec] ==
  [b \in Polyvec |-> [k \in Vec |-> poly_add[a[k]][b[k]]]]
polyvec_reduce[a \in Polyvec] == [k \in Vec |-> poly_reduce[a[k]]]
polyvec_ntt[a \in Polyvec] == [k \in Vec |-> poly_ntt[a[k]]]
polyvec_invntt[a \in Polyvec] == [k \in Vec |-> invntt[a[k]]]

polyvec_pointwise_acc[a \in Polyvec] ==
  [b \in Polyvec |->
     LET acc[k \in Vec] ==
           IF k = 0 THEN poly_basemul[a[0]][b[0]]
           ELSE poly_add[acc[k - 1]][poly_basemul[a[k]][b[k]]]
     IN  poly_reduce[acc[K - 1]]]

----------------------------------------------------------------------------

(* N values of d bits one after the other in bytes, the lowest bit first,  *)
(* and the values in such bytes: what the shifts and masks of the          *)
(* (de)compression and (de)serialization functions do for each d.          *)
bit(x, j) == (x \div two_to[j]) % 2
to_bytes(t, d) ==
  [k \in 0..((N * d) \div 8 - 1) |->
     SumFunction([j \in 0..7 |->
       bit(t[(8 * k + j) \div d], (8 * k + j) % d) * two_to[j]])]
from_bytes(a, d) ==
  [i \in Index |->
     SumFunction([j \in 0..(d - 1) |->
       bit(a[(d * i + j) \div 8], (d * i + j) % 8) * two_to[j]])]

poly_compress(a, d) == to_bytes([i \in Index |-> compress(a[i], d)], d)
poly_decompress(r, d) ==
  LET t == from_bytes(r, d) IN [i \in Index |-> short(decompress(t[i], d))]

poly_tobytes(a) == to_bytes([i \in Index |-> csubq(a[i]) % R], DP)
poly_frombytes(r) == from_bytes(r, DP)

polyvec_compress(a) == [k \in Vec |-> poly_compress(a[k], DU)]
polyvec_decompress(r) == [k \in Vec |-> poly_decompress(r[k], DU)]
polyvec_tobytes(a) == [k \in Vec |-> poly_tobytes(a[k])]
polyvec_frombytes(r) == [k \in Vec |-> poly_frombytes(r[k])]

(* A message is the function from its bits, of which it has N.             *)
poly_frommsg(msg) == [i \in Index |-> frombit(msg[i])]
poly_tomsg(a) == [i \in Index |-> tobit(a[i])]

(* cbd makes two coefficients of each byte.                                *)
cbd(buf) ==
  [i \in Index |-> centred(IF i % 2 = 0 THEN buf[i \div 2] % 16
                           ELSE (buf[i \div 2] \div 16) % 16)]

=============================================================================
