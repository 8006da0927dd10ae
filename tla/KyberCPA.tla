------------------------------ MODULE KyberCPA ------------------------------
(***************************************************************************)
(* The public-key encryption of Kyber (indcpa.c) with the two operations   *)
(* on ciphertexts that this repository adds to it, add and randomize_poly. *)
(* The hash functions are constants.  The end of the module is the scheme  *)
(* on paper, without transforms and Montgomery factors: the properties of  *)
(* the programs that use this one compare with it.                         *)
(***************************************************************************)
EXTENDS KyberPoly, SequencesExt

CONSTANTS
  hash_g(_),      \* a seed or a record, hashed to a pair of seeds
  prf(_, _),      \* N/2 bytes for a seed and a nonce
  xof(_, _, _)    \* the buffers squeezed for a seed and two indexes, each a
                  \* sequence of 16-bit values: first maxnblocks blocks, then
                  \* one block at a time
CONSTANTS
  Draws,          \* what randombytes may return
  Messages        \* messages, functions from Index to bits

(* A seed that messages are encrypted with, or keys made.                  *)
NoiseSeed(seed) ==
  \A n \in 0..(2 * K) : prf(seed, n) \in [0..(N \div 2 - 1) -> 0..255]

ASSUME MessagesAssumption == Messages \subseteq [Index -> {0, 1}]
ASSUME DrawsAssumption == \A d \in Draws : NoiseSeed(hash_g(d)[2])

poly_getnoise(seed, nonce) == cbd(prf(seed, nonce))

(* The first len values of buf that are kept, reduced.                     *)
rej_uniform(len, buf) ==
  LET kept == SelectSeq(buf, Keeps)
      ctr == Min({len, Len(kept)})
  IN  [n \in 1..ctr |-> uniform(kept[n])]

(* Buffers are squeezed until the polynomial is full.                      *)
gen_poly(buffers) ==
  LET ctr == FoldLeft(LAMBDA r, buf : r \o rej_uniform(N - Len(r), buf),
                      <<>>, buffers)
  IN  [i \in Index |-> ctr[i + 1]]

gen_a(seed) == [i \in Vec |-> [j \in Vec |-> gen_poly(xof(seed, j, i))]]
gen_at(seed) == [i \in Vec |-> [j \in Vec |-> gen_poly(xof(seed, i, j))]]

(* Enough blocks are squeezed for every polynomial.                        *)
ASSUME XofAssumption ==
  \A d \in Draws : \A i, j \in Vec : gen_poly(xof(hash_g(d)[1], i, j)) \in Poly

(* The matrix is drawn in the transformed domain; frommont undoes the      *)
(* division by R of the products.                                          *)
indcpa_keypair(draw) ==
  LET publicseed == hash_g(draw)[1]
      noiseseed == hash_g(draw)[2]
      a == gen_a(publicseed)
      skpv == polyvec_ntt[[k \in Vec |-> poly_getnoise(noiseseed, k)]]
      e == polyvec_ntt[[k \in Vec |-> poly_getnoise(noiseseed, K + k)]]
      as == [k \in Vec |-> poly_frommont[polyvec_pointwise_acc[a[k]][skpv]]]
  IN  [sk |-> polyvec_tobytes(skpv),
       pk |-> [t |-> polyvec_tobytes(polyvec_reduce[polyvec_add[as][e]]),
               seed |-> publicseed]]

pack_ciphertext(x) ==
  [b |-> polyvec_compress(x.b), v |-> poly_compress(x.v, DV)]
unpack_ciphertext(c) ==
  [b |-> polyvec_decompress(c.b), v |-> poly_decompress(c.v, DV)]

(* Mutant of indcpa_enc: the matrix is not transposed.                     *)
indcpa_enc_NotTransposed(m, pk, coins) ==
  LET sp == polyvec_ntt[[k \in Vec |-> poly_getnoise(coins, k)]]
      ep == [k \in Vec |-> poly_getnoise(coins, K + k)]
      epp == poly_getnoise(coins, 2 * K)
      at == gen_a(pk.seed)
      bp == polyvec_invntt[[k \in Vec |-> polyvec_pointwise_acc[at[k]][sp]]]
      v == invntt[polyvec_pointwise_acc[polyvec_frombytes(pk.t)][sp]]
  IN  [b |-> polyvec_reduce[polyvec_add[bp][ep]],
       v |-> poly_reduce[poly_add[poly_add[v][epp]][poly_frommsg(m)]]]

(* What pack_ciphertext is given at the end.                               *)
indcpa_enc(m, pk, coins) ==
  LET sp == polyvec_ntt[[k \in Vec |-> poly_getnoise(coins, k)]]
      ep == [k \in Vec |-> poly_getnoise(coins, K + k)]
      epp == poly_getnoise(coins, 2 * K)
      at == gen_at(pk.seed)
      bp == polyvec_invntt[[k \in Vec |-> polyvec_pointwise_acc[at[k]][sp]]]
      v == invntt[polyvec_pointwise_acc[polyvec_frombytes(pk.t)][sp]]
  IN  [b |-> polyvec_reduce[polyvec_add[bp][ep]],
       v |-> poly_reduce[poly_add[poly_add[v][epp]][poly_frommsg(m)]]]

indcpa_dec(c, sk) ==
  LET x == unpack_ciphertext(c)
      mp == invntt[polyvec_pointwise_acc[polyvec_frombytes(sk)][polyvec_ntt[x.b]]]
  IN  poly_tomsg(poly_reduce[poly_sub[x.v][mp]])

(* Mutant of add: the second v is left out.                                *)
add_OnlyB(c1, c2) ==
  LET x == unpack_ciphertext(c1)
      y == unpack_ciphertext(c2)
  IN  [b |-> polyvec_reduce[polyvec_add[x.b][y.b]], v |-> poly_reduce[x.v]]

(* What add packs.                                                         *)
add(c1, c2) ==
  LET x == unpack_ciphertext(c1)
      y == unpack_ciphertext(c2)
  IN  [b |-> polyvec_reduce[polyvec_add[x.b][y.b]],
       v |-> poly_reduce[poly_add[x.v][y.v]]]

(* X^(N-1), the polynomial that randomize_poly multiplies by, whatever     *)
(* weight it is asked for.                                                 *)
random_poly == [i \in Index |-> IF i = N - 1 THEN 1 ELSE 0]

(* Mutant of randomize_poly: v is multiplied without its transform.        *)
randomize_poly_NoNtt(c) ==
  LET x == unpack_ciphertext(c)
      r == poly_ntt[random_poly]
      b == polyvec_ntt[x.b]
      b_res == [k \in Vec |-> poly_basemul[b[k]][r]]
  IN  [b |-> polyvec_invntt[polyvec_reduce[b_res]],
       v |-> invntt[poly_reduce[poly_basemul[x.v][r]]]]

(* What randomize_poly packs: reduced before the inverse transform, not    *)
(* after it.                                                               *)
randomize_poly(c) ==
  LET x == unpack_ciphertext(c)
      r == poly_ntt[random_poly]
      b == polyvec_ntt[x.b]
      b_res == [k \in Vec |-> poly_basemul[b[k]][r]]
  IN  [b |-> polyvec_invntt[polyvec_reduce[b_res]],
       v |-> invntt[poly_reduce[poly_basemul[poly_ntt[x.v]][r]]]]

----------------------------------------------------------------------------

(* Products of polynomials modulo X^N + 1.                                 *)

centre(x) == ((x + q \div 2) % q) - q \div 2
size(x) == IF x < 0 THEN -x ELSE x

product(a, b) ==
  [i \in Index |->
     SumFunction([j \in Index |-> IF j <= i THEN a[j] * b[i - j]
                                  ELSE -(a[j] * b[N + i - j])])]
inner(a, b) ==
  LET ab == [k \in Vec |-> product(a[k], b[k])]
  IN  [i \in Index |-> SumFunction([k \in Vec |-> ab[k][i]])]

(* The secret key and the errors of the key, and the noise of coins.       *)
secret(d) == [k \in Vec |-> poly_getnoise(hash_g(d)[2], k)]
error(d) == [k \in Vec |-> poly_getnoise(hash_g(d)[2], K + k)]

(* What remains of a ciphertext's v beside the message, given the secret.  *)
Noise(c, d, m) ==
  LET x == unpack_ciphertext(c)
      sb == inner(secret(d), x.b)
  IN  [i \in Index |-> centre(x.v[i] - sb[i] - frombit(m[i]))]

(* What it is when nothing is rounded.                                     *)
Designed(d, coins) ==
  LET er == inner(error(d), [k \in Vec |-> poly_getnoise(coins, k)])
      se == inner(secret(d), [k \in Vec |-> poly_getnoise(coins, K + k)])
  IN  [i \in Index |-> er[i] - se[i] + poly_getnoise(coins, 2 * K)[i]]

(* How far decompression may be from what was compressed to d bits.        *)
Rounding(d) == (q + two_to[d]) \div two_to[d + 1]
Weight(s) ==
  SumFunction([k \in Vec |-> SumFunction([i \in Index |-> size(s[k][i])])])

Slack(d) == Rounding(DV) + Rounding(DU) * Weight(secret(d))

Approximates(y, x, d) == size(centre(y - x)) <= Rounding(d)
=============================================================================
