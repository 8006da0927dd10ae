----------------------------- MODULE NTRUCrypt ------------------------------
(***************************************************************************)
(* Encryption and decryption of NTRUEncrypt (NTRUEncrypt.c).  The masking  *)
(* of encrypt_cca and decrypt_cca and the check of the recovered r are     *)
(* commented out in this repository, so both come down to the plain        *)
(* encryption of a padded text.  A text is a function on its positions.    *)
(***************************************************************************)
EXTENDS NTRURing

CONSTANTS
  CharBits,         \* bits of a char, 8
  LenBits,          \* coefficients of the length field, 8
  MaxMsgLen,        \* max_msg_len of the parameter set, 33
  PadLen, PadD,     \* 167 and 56: the trinary polynomial of pad_msg
  PadDraws,         \* what pad_msg may draw
  RDraws            \* the polynomials generate_r may give

LenAt == N - PadLen - LenBits

ASSUME FormatAssumption ==
  /\ CharBits \in Nat \ {0} /\ LenBits \in Nat \ {0} /\ PadLen \in Nat \ {0}
  /\ MaxMsgLen \in 1..(two_to[LenBits] - 1) /\ MaxMsgLen < 2^16
  /\ CharBits * MaxMsgLen <= LenAt
ASSUME DrawsAssumption ==
  /\ PadDraws \subseteq TrinaryPolys(PadLen, PadD)
  /\ RDraws \subseteq TrinaryPolys(N, d)

len(text) == Cardinality(DOMAIN text)
bit(x, j) == (x \div two_to[j]) % 2

(* The chars, the length and the pad, each in its place.                   *)
pad_msg(text, pad) ==
  [i \in Index |->
     CASE i >= LenAt + LenBits -> pad[i - LenAt - LenBits]
       [] LenAt <= i /\ i < LenAt + LenBits -> bit(len(text), i - LenAt)
       [] i < CharBits * len(text) -> bit(text[i \div CharBits], i % CharBits)
       [] OTHER -> 0]

check_m(m) == \A i \in DOMAIN m : m[i] \in {-1, 0, 1}

(* p*r*h + m                                                               *)
encrypt_kem(m, r, h) ==
  LET t == ring_mult(r, h) IN [i \in Index |-> (p * t[i] + m[i]) % q]

(* c is left as it was when the text is too long.  r comes from a hash of  *)
(* m and h that nothing recomputes to any effect, so it is any draw here.  *)
encrypt_cca(c, text, pad, r, h) ==
  IF len(text) > MaxMsgLen THEN c ELSE encrypt_kem(pad_msg(text, pad), r, h)

(* Mutant of lift_msg: the coefficients are not centred.                   *)
lift_msg_Uncentred(m) == [i \in Index |-> ((m[i] + 1) % p) - 1]

(* Centred modulo q, then modulo p.                                        *)
lift_msg(m) ==
  [i \in Index |->
     LET tmp == IF m[i] > q \div 2 THEN m[i] - q ELSE m[i]
     IN  ((tmp + 1) % p) - 1]

decrypt_kem(F, c) == lift_msg(ring_mult(c, SecretF(F)))

(* Mutant of msg_len: read one coefficient too low.                        *)
msg_len_Low(m) ==
  SumFunction([j \in 0..(LenBits - 1) |-> (m[LenAt - 1 + j] % 2^16) * two_to[j]])

(* Sums of unsigned coefficients: a -1 in the field makes it too long.     *)
msg_len(m) ==
  SumFunction([j \in 0..(LenBits - 1) |-> (m[LenAt + j] % 2^16) * two_to[j]])

(* What the buffer msg holds afterwards, and the result: the buffer is     *)
(* untouched beyond the length, and when that is too long.                 *)
recover_msg(msg, m) ==
  LET char(i) == SumFunction([j \in 0..(CharBits - 1) |->
                                m[i * CharBits + j] * two_to[j]])
                   % two_to[CharBits]
      recovered == msg_len(m)
  IN  IF recovered > MaxMsgLen THEN [msg |-> msg, len |-> -1]
      ELSE [msg |-> [i \in DOMAIN msg |->
                       IF i < recovered THEN char(i) ELSE msg[i]],
            len |-> recovered]

(* -1 becomes 65535 in the local msg_len.                                  *)
decrypt_cca(msg, F, c) ==
  LET out == recover_msg(msg, decrypt_kem(F, c))
  IN  [out EXCEPT !.len = @ % 2^16]

----------------------------------------------------------------------------

(* f*c as integers for c = p*r*h + m: it is congruent to p*r*g + f*m, and  *)
(* decrypted well when no coefficient of this sum leaves the interval that *)
(* lift_msg centres to.                                                    *)
Unreduced(m, r, F, g) ==
  LET rg == product(r, g)
      fm == product(SecretF(F), m)
  IN  [i \in Index |-> p * rg[i] + fm[i]]

Fits(e) == \A i \in Index : -(q \div 2) < e[i] /\ e[i] <= q \div 2
=============================================================================
