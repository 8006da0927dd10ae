----------------------------- MODULE KyberTest ------------------------------
(***************************************************************************)
(* The Kyber driver (EqualityTest_kyber.c): a key pair, two encryptions    *)
(* under the same coins, their sum, the sum multiplied by a polynomial,    *)
(* and the decryption of the sum.  main takes the same fixed message       *)
(* twice; any two are taken here.                                          *)
(***************************************************************************)
EXTENDS KyberCPA

CONSTANT Coins      \* what generateCoin may return

ASSUME CoinsAssumption == \A c \in Coins : NoiseSeed(c)
VARIABLES
  testPc,                            \* the statement of main that is next
  draw, keys, coin,
  msg1, msg2, msg3,
  ctx1, ctx2, ctx3, ctx4,
  packed                         \* history: the polynomials that the last
                                 \* call of pack_ciphertext was given

testVars == <<testPc, draw, keys, coin, msg1, msg2, msg3,
              ctx1, ctx2, ctx3, ctx4, packed>>

Zeros == [i \in Index |-> 0]
Nothing == <<>>

TestInit ==
  /\ testPc = "keypair"
  /\ coin \in Coins
  /\ draw = Nothing /\ keys = Nothing
  /\ msg1 = Zeros /\ msg2 = Zeros /\ msg3 = Zeros
  /\ ctx1 = Nothing /\ ctx2 = Nothing /\ ctx3 = Nothing /\ ctx4 = Nothing
  /\ packed = Nothing

Keypair ==
  /\ testPc = "keypair"
  /\ testPc' = "enc1"
  /\ draw' \in Draws
  /\ keys' = indcpa_keypair(draw')
  /\ UNCHANGED <<coin, msg1, msg2, msg3, ctx1, ctx2, ctx3, ctx4, packed>>

Enc1 ==
  /\ testPc = "enc1"
  /\ testPc' = "enc2"
  /\ msg1' \in Messages
  /\ packed' = indcpa_enc(msg1', keys.pk, coin)
  /\ ctx1' = pack_ciphertext(packed')
  /\ UNCHANGED <<draw, keys, coin, msg2, msg3, ctx2, ctx3, ctx4>>

Enc2 ==
  /\ testPc = "enc2"
  /\ testPc' = "add"
  /\ msg2' \in Messages
  /\ packed' = indcpa_enc(msg2', keys.pk, coin)
  /\ ctx2' = pack_ciphertext(packed')
  /\ UNCHANGED <<draw, keys, coin, msg1, msg3, ctx1, ctx3, ctx4>>

Add ==
  /\ testPc = "add"
  /\ testPc' = "randomize"
  /\ packed' = add(ctx1, ctx2)
  /\ ctx3' = pack_ciphertext(packed')
  /\ UNCHANGED <<draw, keys, coin, msg1, msg2, msg3, ctx1, ctx2, ctx4>>

Randomize ==
  /\ testPc = "randomize"
  /\ testPc' = "dec"
  /\ packed' = randomize_poly(ctx3)
  /\ ctx4' = pack_ciphertext(packed')
  /\ UNCHANGED <<draw, keys, coin, msg1, msg2, msg3, ctx1, ctx2, ctx3>>

(* ctx4 is not decrypted: main prints a fourth message that stays zero.    *)
Dec ==
  /\ testPc = "dec"
  /\ testPc' = "end"
  /\ msg3' = indcpa_dec(ctx3, keys.sk)
  /\ UNCHANGED <<draw, keys, coin, msg1, msg2, ctx1, ctx2, ctx3, ctx4, packed>>

TestNext == Keypair \/ Enc1 \/ Enc2 \/ Add \/ Randomize \/ Dec

TestSpec == TestInit /\ [][TestNext]_testVars

----------------------------------------------------------------------------

(***************************************************************************)
(* The noise of a fresh ciphertext is that of the scheme's definition,     *)
(* computed without transforms, up to the rounding of the compression: the *)
(* transforms, the Montgomery factors and the transposition of the matrix  *)
(* of indcpa_keypair, indcpa_enc and indcpa_dec agree with each other.     *)
(***************************************************************************)
NoiseAsDesigned ==
  testPc = "add" =>
    LET n1 == Noise(ctx1, draw, msg1)
        n2 == Noise(ctx2, draw, msg2)
        n == Designed(draw, coin)
    IN  \A i \in Index : /\ size(centre(n1[i] - n[i])) <= Slack(draw)
                         /\ size(centre(n2[i] - n[i])) <= Slack(draw)

(***************************************************************************)
(* The sum of two ciphertexts decrypts to the exclusive or of their        *)
(* messages, bit by bit, where their noises together with the rounding of  *)
(* the second compression stay below a quarter of q.                       *)
(***************************************************************************)
SumIsXor ==
  testPc = "end" =>
    LET n1 == Noise(ctx1, draw, msg1)
        n2 == Noise(ctx2, draw, msg2)
    IN  \A i \in Index :
          4 * (size(n1[i] + n2[i]) + 1 + Slack(draw)) < q =>
            msg3[i] = (msg1[i] + msg2[i]) % 2

(***************************************************************************)
(* randomize_poly computes the product of the ciphertext and X^(N-1), but  *)
(* what ctx4 holds is sure to be that product only in the coefficients     *)
(* that were not negative when they were packed: a negative one, left by   *)
(* the inverse transform, is shifted as an unsigned number, and many come  *)
(* back as another.                                                        *)
(***************************************************************************)
OnlyNegativesLost ==
  testPc = "dec" =>
    LET x == unpack_ciphertext(ctx3)
        y == unpack_ciphertext(ctx4)
        v == product(random_poly, x.v)
        b == [k \in Vec |-> product(random_poly, x.b[k])]
    IN  \A i \in Index :
          /\ centre(packed.v[i] - v[i]) = 0
          /\ packed.v[i] >= 0 => Approximates(y.v[i], v[i], DV)
          /\ \A k \in Vec : /\ centre(packed.b[k][i] - b[k][i]) = 0
                            /\ packed.b[k][i] >= 0 =>
                                 Approximates(y.b[k][i], b[k][i], DU)


(***************************************************************************)
(* "approximate inverse of pack_ciphertext": the comment of                *)
(* unpack_ciphertext, for every ciphertext that main packs.                *)
(***************************************************************************)
ApproximateInverse ==
  testPc \in {"enc2", "add", "randomize", "dec"} =>
    LET c == CASE testPc = "enc2" -> ctx1 [] testPc = "add" -> ctx2
               [] testPc = "randomize" -> ctx3 [] testPc = "dec" -> ctx4
        x == unpack_ciphertext(c)
    IN  \A i \in Index :
          /\ Approximates(x.v[i], packed.v[i], DV)
          /\ \A k \in Vec : Approximates(x.b[k][i], packed.b[k][i], DU)
=============================================================================
