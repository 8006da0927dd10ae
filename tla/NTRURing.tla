------------------------------ MODULE NTRURing ------------------------------
(***************************************************************************)
(* The ring of NTRUEncrypt (poly.c): polynomials modulo X^N - 1, as        *)
(* functions from the exponents to the coefficients.  The code keeps the   *)
(* coefficients in uint16_t and masks with q-1; q divides 2^16, so the     *)
(* overflow of a sum does not show and they are integers modulo q here.    *)
(* 65535, the -1 of a trinary polynomial, is -1.  The octet strings that   *)
(* polynomials are packed into follow.                                     *)
(***************************************************************************)
EXTENDS BigNum, FiniteSets, FiniteSetsExt, Functions, Sequences

CONSTANTS
  N,               \* ring degree, 443
  q,               \* ring modulus, 2048
  p,               \* 3, the modulus of the plaintexts
  d,               \* 115: trinary polynomials have about d+1 ones and d
                   \* minus ones
  CoeffsPerWord    \* exponents that one rng_uint64 word gives, 6

(* Four Newton steps lift an inverse from modulo 2 to modulo 2^16.         *)
ASSUME RingAssumption ==
  /\ N \in Nat \ {0} /\ CoeffsPerWord \in Nat \ {0}
  /\ p = 3 /\ d \in Nat \ {0}
  /\ q \in 2..2^16 /\ 2^16 % q = 0

Index == 0..(N - 1)
Zero == [i \in Index |-> 0]

(* The product of two polynomials with integer coefficients.               *)
product(a, b) ==
  [k \in Index |-> SumFunction([i \in Index |-> a[i] * b[(k - i) % N]])]

(* ntru_ring_mult_coefficients.  N is odd in every parameter set, so its   *)
(* karatsuba is grade_school_mul.                                          *)
ring_mult(a, b) ==
  LET ab == product(a, b) IN [k \in Index |-> ab[k] % q]

(* Each of the four steps is x * (2 - f*x).                                *)
ring_lift_inv_pow2(f, inv) ==
  LET newton[x \in [Index -> 0..(q - 1)]] ==
        LET fx == ring_mult(f, x)
        IN  ring_mult(x, [i \in Index |-> (IF i = 0 THEN 2 ELSE 0) - fx[i]])
  IN  newton[newton[newton[newton[inv]]]]

(* f = p*F + 1, the secret key with which products are formed.             *)
SecretF(F) == [i \in Index |-> p * F[i] + (IF i = 0 THEN 1 ELSE 0)]

Ones(f) == {i \in DOMAIN f : f[i] = 1}
Minus(f) == {i \in DOMAIN f : f[i] = -1}

(* What the two loops of trinary_poly_gen can leave: the number of ones,   *)
(* then of minus ones, is compared with its target only after all the      *)
(* exponents of a word have been used.                                     *)
TrinaryPolys(len, e) ==
  {f \in [0..(len - 1) -> {-1, 0, 1}] :
     /\ Cardinality(Ones(f)) \in (e + 1)..(e + CoeffsPerWord)
     /\ Cardinality(Minus(f)) \in e..(e + CoeffsPerWord - 1)}

(* Products in (Z/2)[X]/(X^N - 1), a polynomial being the set of its       *)
(* exponents.                                                              *)
mult_mod_2(A, B) ==
  {k \in Index :
     Cardinality({ij \in A \X B : (ij[1] + ij[2]) % N = k}) % 2 = 1}

Odd(f) == {i \in DOMAIN f : f[i] % 2 = 1}

Units2 == {A \in SUBSET Index :
             \E B \in SUBSET Index : mult_mod_2(A, B) = {0}}

----------------------------------------------------------------------------

(***************************************************************************)
(* Keys and ciphertexts of NTRUEncrypt as octet strings (packing.c).  A    *)
(* string is a sequence of octets.  The octet blob[0] with the id of the   *)
(* parameter set, the same everywhere here, is left out.                   *)
(***************************************************************************)

CONSTANTS
  OctetBits,        \* 8
  QBits,            \* bits of q, 11
  Trits             \* trits packed into an octet, 5

(* Powers of the base of the trits, as two_to has those of two.            *)
three_to[k \in Nat] == IF k = 0 THEN 1 ELSE 3 * three_to[k - 1]

(* NOTE: Assumes 8 < n_bits < 16.                                          *)
ASSUME PackingAssumption ==
  /\ OctetBits \in Nat \ {0} /\ QBits \in Nat
  /\ q = two_to[QBits]
  /\ OctetBits < QBits /\ QBits < 2 * OctetBits
  /\ Trits \in Nat \ {0}
  /\ three_to[Trits] <= two_to[OctetBits]

Octet == two_to[OctetBits]
Word == two_to[2 * OctetBits]

packpk == (N * QBits + OctetBits - 1) \div OctetBits
packsk == (N + Trits - 1) \div Trits

(* A turn of the loop puts an octet out: the rest of the last element in   *)
(* temp and the bits of the current one from shift on.  The bits that |=   *)
(* brings together are disjoint.                                           *)
pack_octet(in, x) ==
  LET temp == x.temp + in[x.i] \div two_to[x.shift]
      left == OctetBits - x.shift
      more == IF left < 0 THEN [i |-> x.i, shift |-> -left, temp |-> 0]
              ELSE [i |-> x.i + 1, shift |-> QBits - left,
                    temp |-> (in[x.i] * two_to[left]) % Word]
  IN  [i |-> more.i, shift |-> more.shift, temp |-> more.temp,
       out |-> Append(x.out, temp % Octet)]

(* An element takes two turns at most.                                     *)
ntru_elements_2_octets(in) ==
  LET turns[t \in Nat] ==
        IF t = 0
        THEN [i |-> 0, shift |-> QBits - OctetBits, temp |-> 0, out |-> <<>>]
        ELSE LET x == turns[t - 1] IN IF x.i < N THEN pack_octet(in, x) ELSE x
      end == turns[2 * N]
  IN  IF end.shift = QBits - OctetBits THEN end.out
      ELSE Append(end.out, end.temp % Octet)

(* Mutant of element: no mask.                                             *)
element_Unmasked(temp) == temp

element(temp) == temp % two_to[QBits]

(* A turn of the loop takes an octet in.  What stands in temp above QBits  *)
(* is what has already gone into the last element; the mask takes it away. *)
unpack_octet(octet, x) ==
  LET rest == OctetBits - x.shift
  IN  IF rest < 0
      THEN [shift |-> -rest, temp |-> x.temp + octet * two_to[-rest],
            out |-> x.out]
      ELSE [shift |-> QBits - rest,
            temp |-> (octet * two_to[QBits - rest]) % Word,
            out |-> Append(x.out,
                           element(x.temp + octet \div two_to[rest]))]

ntru_octets_2_elements(in) ==
  LET turns[t \in 0..packpk] ==
        IF t = 0 THEN [shift |-> QBits, temp |-> 0, out |-> <<>>]
        ELSE unpack_octet(in[t], turns[t - 1])
      elements == turns[packpk].out
  IN  [i \in Index |-> elements[i + 1]]

pack_public_key(h) == ntru_elements_2_octets(h)
unpack_public_key(blob) == ntru_octets_2_elements(blob)

(* 65535 & 3 is 3 and becomes 2.                                           *)
digit(x) == x % 3

(* The last octet takes coefficients beyond N as well, from what the       *)
(* allocation of F holds there: the one at N and the one of the last trit. *)
tri_to_string(F, beyond) ==
  LET coeff(i) == CASE i < N -> F[i]
                    [] i > N /\ (i % Trits) # Trits - 1 -> 0
                    [] OTHER -> beyond[i]
      octet(k) == [j \in 0..(Trits - 1) |->
                     digit(coeff(k * Trits + j)) * three_to[Trits - 1 - j]]
  IN  [k \in 1..packsk |-> SumFunction(octet(k - 1))]

(* Mutant of trit: 2 stays 2.                                              *)
trit_Unsigned(x) == x

trit(x) == IF x = 2 THEN -1 ELSE x

string_to_tri(in) ==
  [i \in Index |->
     trit((in[i \div Trits + 1] \div three_to[Trits - 1 - (i % Trits)]) % 3)]

(* The coefficients beyond N that tri_to_string reads.                     *)
BeyondN == [N..(packsk * Trits - 1) -> 0..2]

pack_secret_key_CCA(F, h, beyond) ==
  tri_to_string(F, beyond) \o pack_public_key(h)

unpack_secret_key_CCA(blob) ==
  [F |-> string_to_tri(SubSeq(blob, 1, packsk)),
   h |-> unpack_public_key(SubSeq(blob, packsk + 1, Len(blob)))]
=============================================================================
