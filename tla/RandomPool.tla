----------------------------- MODULE RandomPool -----------------------------
(***************************************************************************)
(* The generator of rng.c: AES256 in counter mode, whose key and counter   *)
(* are replaced after every call of randombytes.  A block is written as    *)
(* the pair of the key and the counter value it is made from; what AES     *)
(* gives for the next counter value is any value.  Its user follows, the   *)
(* pool of fastrandombytes.c.                                              *)
(***************************************************************************)
EXTENDS Integers, FiniteSets, Sequences

CONSTANTS
  VSize,        \* 2^128, the values of the counter V
  VDraws,       \* values of V that AES may give
  MaxBlocks,    \* bound: blocks of one call
  Seeds         \* entropy inputs

ASSUME DrbgAssumption ==
  /\ VSize \in Nat /\ MaxBlocks \in Nat
  /\ MaxBlocks + 3 <= VSize
  /\ VDraws \subseteq 0..(VSize - 1)

VARIABLES
  Key, V,       \* DRBG_ctx
  made,         \* history: the blocks made so far
  seeded        \* history: the seeds used so far

drbgVars == <<Key, V, made, seeded>>

NoKey == <<>>

(* Static storage: zeros until randombytes_init is called, if ever.        *)
DrbgInit == Key = NoKey /\ V = 0 /\ made = {} /\ seeded = {}

(* The blocks of key k after counter value v.                              *)
Blocks(k, v, n) == {<<k, (v + i) % VSize>> : i \in 1..n}

(* Mutant of Update: V is incremented after each block, not before.        *)
Update_Late(k, v, data, returned) ==
  /\ Key' = <<k, v % VSize, data>>
  /\ V' \in VDraws
  /\ made' = made \cup returned \cup Blocks(k, v - 1, 3)

(* AES256_CTR_DRBG_Update: the next three blocks, with the data, become    *)
(* the new key and counter.                                                *)
Update(k, v, data, returned) ==
  /\ Key' = <<k, v % VSize, data>>
  /\ V' \in VDraws
  /\ made' = made \cup returned \cup Blocks(k, v, 3)

NoData == 0

(* A call that returns n blocks, the last of them perhaps in part.         *)
randombytes(n) ==
  /\ Update(Key, V + n, NoData, Blocks(Key, V, n))
  /\ UNCHANGED seeded

(* A program that seeds twice gives another seed.                          *)
randombytes_init(seed) ==
  /\ seed \notin seeded
  /\ Update(NoKey, 0, seed, {})
  /\ seeded' = seeded \cup {seed}

DrbgCall == \/ \E n \in 1..MaxBlocks : randombytes(n)
            \/ \E seed \in Seeds : randombytes_init(seed)

----------------------------------------------------------------------------

(***************************************************************************)
(* No block that a call of randombytes makes, to return it or to replace   *)
(* the key and the counter with it, has been made before: also where V     *)
(* wraps, and when the generator has been used before it was seeded.       *)
(***************************************************************************)
FreshBlocks ==
  [][\A n \in 1..MaxBlocks :
       randombytes(n) =>
         Cardinality(made') = Cardinality(made) + n + 3]_drbgVars

----------------------------------------------------------------------------

(***************************************************************************)
(* The pool of fastrandombytes.c: bytes of a salsa20 stream made ahead,    *)
(* from which rng_uint16 and rng_uint64 take the next two or eight.  A     *)
(* byte of the stream of key k and nonce n is written <<k, n, place>>.     *)
(***************************************************************************)

CONSTANTS
  PoolLen,      \* RAND_LEN_BYTES, 4096
  Short, Long,  \* sizeof(uint16_t) and sizeof(uint64_t)
  KeyBlocks,    \* blocks of randombytes in a key, 2
  KeyBytes,     \* crypto_stream_salsa20_KEYBYTES, 32
  NonceSize     \* 2^64

ASSUME PoolAssumption ==
  /\ PoolLen \in Nat /\ KeyBytes \in 0..PoolLen
  /\ Short \in 1..Long /\ Long \in 1..(PoolLen - 1)
  /\ KeyBlocks \in 1..MaxBlocks /\ NonceSize \in Nat \ {0}

VARIABLES
  init, key, nonce, randpool, randpos,
  word,         \* the word given last
  taken,        \* history: the bytes of streams given before it
  streams       \* history: the keys and nonces used so far

poolVars == <<init, key, nonce, randpool, randpos, word, taken, streams>>

Zeroed == <<>>
Beyond == <<"beyond the pool">>
Bytes == 0..(PoolLen - 1)

PoolInit == /\ init = FALSE
            /\ key = {} /\ nonce = 0
            /\ randpool = [i \in Bytes |-> Zeroed]
            /\ randpos = PoolLen
            /\ word = <<>> /\ taken = {} /\ streams = <<>>

(* A stream is made.  The first call, and the first after a cleanup, draws *)
(* the key.                                                                *)
Stream ==
  /\ IF init THEN UNCHANGED <<key, drbgVars>>
     ELSE key' = Blocks(Key, V, KeyBlocks) /\ randombytes(KeyBlocks)
  /\ init' = TRUE
  /\ nonce' = (nonce + 1) % NonceSize
  /\ streams' = Append(streams, <<key', nonce>>)

Fill == Stream /\ randpool' = [i \in Bytes |-> <<key', nonce, i>>]

(* A stream that goes to the caller.                                       *)
fastrandombytes == Stream /\ UNCHANGED <<randpool, randpos, word, taken>>

rng_init == Fill /\ randpos' = 0 /\ UNCHANGED <<word, taken>>

(* Mutant of rng_cleanup: the key is not asked for again.                  *)
rng_cleanup_KeepsInit ==
  /\ IF init THEN /\ key' = {} /\ nonce' = 0
                  /\ randpool' = [i \in Bytes |-> IF i < KeyBytes THEN Zeroed
                                                  ELSE randpool[i]]
             ELSE UNCHANGED <<key, nonce, randpool>>
  /\ UNCHANGED <<init, randpos, word, taken, streams, drbgVars>>

(* The key, the nonce and the first KeyBytes bytes of the pool become      *)
(* zeros; randpos stays.  The nonce is shorter than KeyBytes: what is      *)
(* written beyond it is padding or other bytes that are shredded here.     *)
rng_cleanup ==
  /\ IF init THEN /\ init' = FALSE
                  /\ key' = {} /\ nonce' = 0
                  /\ randpool' = [i \in Bytes |-> IF i < KeyBytes THEN Zeroed
                                                  ELSE randpool[i]]
             ELSE UNCHANGED <<init, key, nonce, randpool>>
  /\ UNCHANGED <<randpos, word, taken, streams, drbgVars>>

Given == {word[i] : i \in DOMAIN word}

(* The next bytes from place pos.                                          *)
TakeFrom(pool, pos, size) ==
  /\ word' = [i \in 1..size |-> IF pos + i - 1 \in Bytes
                                THEN pool[pos + i - 1] ELSE Beyond]
  /\ randpos' = pos + size
  /\ taken' = taken \cup Given

(* Mutant of Take: the smaller size is compared.                           *)
Take_Short(size) ==
  IF randpos >= PoolLen - Short
  THEN Fill /\ TakeFrom(randpool', 0, size)
  ELSE TakeFrom(randpool, randpos, size)
       /\ UNCHANGED <<init, key, nonce, randpool, streams, drbgVars>>

(* The pool is filled again when it may not be long enough.                *)
Take(size) ==
  IF randpos >= PoolLen - size
  THEN Fill /\ TakeFrom(randpool', 0, size)
  ELSE TakeFrom(randpool, randpos, size)
       /\ UNCHANGED <<init, key, nonce, randpool, streams, drbgVars>>

rng_uint16 == Take(Short)
rng_uint64 == Take(Long)

PoolNext == fastrandombytes \/ rng_init \/ rng_cleanup
              \/ rng_uint16 \/ rng_uint64

(* The pool with the generator, which has other callers too.               *)
RandomInit == DrbgInit /\ PoolInit
RandomNext == PoolNext \/ (DrbgCall /\ UNCHANGED poolVars)
RandomSpec == RandomInit /\ [][RandomNext]_<<drbgVars, poolVars>>

----------------------------------------------------------------------------

(***************************************************************************)
(* A word is made of bytes of the pool that have not been given before,    *)
(* whatever fills, cleanups and words of the other size came between; a    *)
(* cleanup leaves the rest of the pool to be given, and zeros at most      *)
(* where the key's length of it was overwritten.                           *)
(***************************************************************************)
WordsFresh ==
  /\ Beyond \notin Given
  /\ Given \cap taken \subseteq {Zeroed}
  /\ \A i, j \in DOMAIN word : word[i] = word[j] /\ i # j => word[i] = Zeroed
  /\ Zeroed \in Given => randpos - Len(word) < KeyBytes

(***************************************************************************)
(* No stream is made twice: the key and the nonce never come together      *)
(* again, although a cleanup starts the nonce from zero.                   *)
(***************************************************************************)
StreamsDiffer ==
  \A i, j \in DOMAIN streams : streams[i] = streams[j] => i = j
=============================================================================
