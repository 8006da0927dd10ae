------------------------------- MODULE NTRUApi ------------------------------
(***************************************************************************)
(* The NIST interface of NTRUEncrypt (encrypt.c): keys and ciphertexts are *)
(* octet strings, a text is encrypted under the packed public key and      *)
(* opened with the packed secret key.                                      *)
(***************************************************************************)
EXTENDS NTRUKeyGen, NTRUCrypt

CONSTANT GivenTexts   \* texts given to crypto_encrypt, of several lengths

ASSUME GivenTextsAssumption ==
  \A given \in GivenTexts :
    /\ IsFiniteSet(DOMAIN given)
    /\ given \in [0..(len(given) - 1) -> 0..(two_to[CharBits] - 1)]

VARIABLES
  apiPc,              \* the call that is next
  pk, sk,             \* the packed keys
  text, blob, clen,   \* what crypto_encrypt took and gave
  m, mlen,            \* what crypto_encrypt_open gave
  ef                  \* history: f * the ciphertext opened, as integers

apiVars == <<apiPc, pk, sk, text, blob, clen, m, mlen, ef>>

NoChars == [i \in {} |-> 0]
Buffer == [i \in 0..(MaxMsgLen - 1) |-> -1]

ApiInit == /\ apiPc = "keypair"
           /\ pk = <<>> /\ sk = <<>>
           /\ text = NoChars /\ blob = <<>> /\ clen = 0
           /\ m = Buffer /\ mlen = 0
           /\ ef = Zero

(* The rest of crypto_encrypt_keypair, after its call of keygen.           *)
crypto_encrypt_keypair ==
  /\ apiPc = "keypair" /\ apiPc' = "encrypt"
  /\ pk' = pack_public_key(h)
  /\ \E beyond \in BeyondN : sk' = pack_secret_key_CCA(F, h, beyond)
  /\ UNCHANGED <<text, blob, clen, m, mlen, ef>>

(* clen counts the octets without the id octet, and so one octet less than *)
(* was written.  The result of encrypt_cca is not looked at: the zeros of  *)
(* cpoly are packed when the text is too long.                             *)
crypto_encrypt ==
  /\ apiPc = "encrypt" /\ apiPc' = "transit"
  /\ \E t \in GivenTexts, pad \in PadDraws, r \in RDraws :
       /\ text' = t
       /\ blob' = pack_public_key(
                    encrypt_cca(Zero, t, pad, r, unpack_public_key(pk)))
       /\ ef' = IF len(t) > MaxMsgLen THEN Zero
                ELSE Unreduced(pad_msg(t, pad), r, F, g)
  /\ clen' = packpk
  /\ UNCHANGED <<pk, sk, m, mlen>>

(* The caller sends clen octets; the buffer of the receiver goes on with   *)
(* what was there.  crypto_encrypt_open reads it: it takes no notice of    *)
(* the length.  The id octet is the first, so the last octet is at risk.   *)
Transit ==
  /\ apiPc = "transit" /\ apiPc' = "open"
  /\ \E last \in 0..(Octet - 1) :
       LET sent == [blob EXCEPT ![packpk] = last]
           before == unpack_public_key(blob)
           after == unpack_public_key(sent)
           change == [i \in Index |-> after[i] - before[i]]
           carried == product(change, SecretF(F))
       IN  /\ blob' = sent
           /\ ef' = [k \in Index |-> ef[k] + carried[k]]
  /\ UNCHANGED <<pk, sk, text, clen, m, mlen>>

(* mlen is 65535 when recover_msg failed, and the result 0 all the same.   *)
crypto_encrypt_open ==
  /\ apiPc = "open" /\ apiPc' = "end"
  /\ LET out == decrypt_cca(m, unpack_secret_key_CCA(sk).F,
                            unpack_public_key(blob))
     IN  m' = out.msg /\ mlen' = out.len
  /\ UNCHANGED <<pk, sk, text, blob, clen, ef>>

ApiNext == /\ pc = "done"
           /\ \/ crypto_encrypt_keypair \/ crypto_encrypt
              \/ Transit \/ crypto_encrypt_open
           /\ UNCHANGED keyVars

(* keygen, and the rest of the three calls after it.                       *)
ApiSpec ==
  /\ KeyInit /\ ApiInit
  /\ [][(KeyNext /\ UNCHANGED apiVars) \/ ApiNext]_<<keyVars, apiVars>>

----------------------------------------------------------------------------

(***************************************************************************)
(* What the packed keys say is what keygen computed, whatever stood beyond *)
(* the coefficients that were packed: nothing is lost where an element     *)
(* ends inside an octet, at the last octet least of all.                   *)
(***************************************************************************)
KeysSurvivePacking ==
  apiPc = "encrypt" =>
    /\ unpack_public_key(pk) = h
    /\ unpack_secret_key_CCA(sk) = [F |-> F, h |-> h]

(***************************************************************************)
(* A text that is not too long is opened as it was given, also when the    *)
(* octet that clen does not count is lost, as long as the ciphertext that  *)
(* arrives does not wrap.  One that is too long, which crypto_encrypt      *)
(* reports to nobody, is opened as the text of no chars.                   *)
(***************************************************************************)
ApiOpens ==
  (apiPc = "end" /\ Fits(ef)) =>
    LET given == IF len(text) > MaxMsgLen THEN NoChars ELSE text
    IN  /\ mlen = len(given)
        /\ \A i \in 0..(MaxMsgLen - 1) :
             m[i] = IF i < mlen THEN given[i] ELSE Buffer[i]
=============================================================================
