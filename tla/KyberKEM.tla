------------------------------ MODULE KyberKEM ------------------------------
(***************************************************************************)
(* Kyber's key encapsulation (kem.c): a key pair, an encapsulation, a      *)
(* ciphertext that may have been altered on its way, a decapsulation that  *)
(* encrypts again what it decrypted and compares (verify.c).               *)
(***************************************************************************)
EXTENDS KyberCPA

CONSTANTS
  hash_h(_),
  kdf(_, _),       \* of a pre-key and the hash of a ciphertext
  RejectKeys,      \* what randombytes may return for z
  Altered(_)       \* what may arrive in place of a ciphertext

ASSUME EncapsulationAssumption ==
  \A d \in Draws, x \in Messages :
    NoiseSeed(hash_g([m |-> x, h |-> hash_h(indcpa_keypair(d).pk)])[2])

VARIABLES
  kemPc,
  kemDraw, sk,     \* the secret key holds the public key, its hash and z
  m, ct, ssEnc,    \* of crypto_kem_enc
  arrived, ssDec   \* of crypto_kem_dec

kemVars == <<kemPc, kemDraw, sk, m, ct, ssEnc, arrived, ssDec>>

None == <<>>

KemInit == /\ kemPc = "keypair"
           /\ kemDraw = None /\ sk = None
           /\ m = None /\ ct = None /\ ssEnc = None
           /\ arrived = None /\ ssDec = None

crypto_kem_keypair ==
  /\ kemPc = "keypair"
  /\ kemPc' = "enc"
  /\ kemDraw' \in Draws
  /\ \E z \in RejectKeys :
       LET k == indcpa_keypair(kemDraw')
       IN  sk' = [sk |-> k.sk, pk |-> k.pk, h |-> hash_h(k.pk), z |-> z]
  /\ UNCHANGED <<m, ct, ssEnc, arrived, ssDec>>

(* Mutant of crypto_kem_enc: the coins are left in place of H(c).          *)
crypto_kem_enc_Coins ==
  /\ kemPc = "enc"
  /\ kemPc' = "transit"
  /\ m' \in Messages
  /\ LET kr == hash_g([m |-> m', h |-> hash_h(sk.pk)])
     IN  /\ ct' = pack_ciphertext(indcpa_enc(m', sk.pk, kr[2]))
         /\ ssEnc' = kdf(kr[1], kr[2])
  /\ UNCHANGED <<kemDraw, sk, arrived, ssDec>>

crypto_kem_enc ==
  /\ kemPc = "enc"
  /\ kemPc' = "transit"
  /\ m' \in Messages
  /\ LET kr == hash_g([m |-> m', h |-> hash_h(sk.pk)])
     IN  /\ ct' = pack_ciphertext(indcpa_enc(m', sk.pk, kr[2]))
         /\ ssEnc' = kdf(kr[1], hash_h(ct'))
  /\ UNCHANGED <<kemDraw, sk, arrived, ssDec>>

Transit ==
  /\ kemPc = "transit"
  /\ kemPc' = "dec"
  /\ arrived' \in {ct} \cup Altered(ct)
  /\ UNCHANGED <<kemDraw, sk, m, ct, ssEnc, ssDec>>

(* Mutant of fails: only v is compared.                                    *)
fails_OnlyV(c, cmp) == c.v # cmp.v

(* verify, as a truth value.                                               *)
fails(c, cmp) == c # cmp

(* z replaces the pre-key when the ciphertext is not what its message is   *)
(* encrypted to.                                                           *)
crypto_kem_dec ==
  /\ kemPc = "dec"
  /\ kemPc' = "done"
  /\ LET msg == indcpa_dec(arrived, sk.sk)
         kr == hash_g([m |-> msg, h |-> sk.h])
         cmp == pack_ciphertext(indcpa_enc(msg, sk.pk, kr[2]))
     IN  ssDec' = kdf(IF fails(arrived, cmp) THEN sk.z ELSE kr[1],
                      hash_h(arrived))
  /\ UNCHANGED <<kemDraw, sk, m, ct, ssEnc, arrived>>

KemNext == \/ crypto_kem_keypair \/ crypto_kem_enc \/ Transit
           \/ crypto_kem_dec

----------------------------------------------------------------------------

(***************************************************************************)
(* Both sides have the same secret after a ciphertext arrives unaltered,   *)
(* if its noise stays below a quarter of q, and never after it was altered.*)
(***************************************************************************)
SecretsAgree ==
  kemPc = "done" =>
    IF arrived = ct
    THEN LET n == Noise(ct, kemDraw, m)
         IN  (\A i \in Index : 4 * (size(n[i]) + 1) < q) => ssDec = ssEnc
    ELSE ssDec # ssEnc

(***************************************************************************)
(* "On failure, ss will contain a pseudo-random value" that depends on z:  *)
(* also for a ciphertext altered so slightly that it still decrypts to the *)
(* message, and for one whose noise makes it decrypt to another.           *)
(***************************************************************************)
RejectsByKey ==
  kemPc = "done" =>
    LET msg == indcpa_dec(arrived, sk.sk)
    IN  (msg = m) # (arrived = ct) =>
          ssDec = kdf(sk.z, hash_h(arrived))
=============================================================================
