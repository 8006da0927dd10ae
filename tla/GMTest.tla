------------------------------- MODULE GMTest -------------------------------
(***************************************************************************)
(* GM_EqualityTest (src/GM/EqualityTest_GM.cpp): Alice encrypts each bit   *)
(* of her number, Bob each bit of his, multiplies the ciphertexts of equal *)
(* positions and shuffles the products; Alice accepts when every product   *)
(* decrypts to zero.                                                       *)
(***************************************************************************)
EXTENDS GM, FiniteSets, FiniteSetsExt, Functions

CONSTANTS
  KeyPrimes,        \* the pairs of primes KeyGen may draw
  GRandom(_),       \* values of 0..n-1 that KeyGen's BN_rand_range returns
  EncRandom(_),     \* values that the loop of Enc may end with
  BinSize,          \* MESSAGE_BIN_SIZE, 40
  Numbers           \* the ints the callers pass

ASSUME KeyPrimesAssumption ==
  /\ KeyPrimes \subseteq Nat \X Nat
  /\ \A pq \in KeyPrimes : IsPrime(pq[1]) /\ IsPrime(pq[2])
ASSUME RandomAssumption ==
  \A pq \in KeyPrimes : LET n == pq[1] * pq[2] IN
    /\ GRandom(n) \subseteq 0..(n - 1)
    /\ EncRandom(n) \subseteq EncRandomElements(n)
ASSUME BinSizeAssumption == BinSize \in Nat \ {0}
(* 40 bits hold every int.                                                 *)
ASSUME NumbersAssumption ==
  0 \in Numbers /\ Numbers \subseteq -two_to[BinSize - 1]..(two_to[BinSize - 1] - 1)

VARIABLES
  publicKey, secretKey,
  phase,
  aliceNumber, bobNumber,  \* arguments of equalityTest
  aliceCipherText,         \* one ciphertext per bit, sent by Alice
  xorCipherText,           \* the shuffled products Bob returns
  decResult,               \* the bits Alice decrypts
  verdict                  \* what the call returned

keyVars == <<publicKey, secretKey>>
callVars == <<aliceNumber, bobNumber, aliceCipherText, xorCipherText,
              decResult, verdict>>
vars == <<keyVars, phase, callVars>>

Positions == 1..BinSize
NoCipherText == [i \in Positions |-> 0]
NoBits == [i \in Positions |-> FALSE]

Init == /\ publicKey = PublicKey(0, 0, 0) /\ secretKey = SecretKey(0, 0)
        /\ phase = "nokey"
        /\ aliceNumber = 0 /\ bobNumber = 0
        /\ aliceCipherText = NoCipherText /\ xorCipherText = NoCipherText
        /\ decResult = NoBits
        /\ verdict = FALSE

keyGen ==
  /\ phase = "nokey"
  /\ phase' = "ready"
  /\ \E pq \in KeyPrimes : \E g \in GRandom(pq[1] * pq[2]) :
       /\ UsableG(pq[1], pq[2], g)
       /\ publicKey' = PublicKey(pq[1], pq[2], g)
       /\ secretKey' = SecretKey(pq[1], pq[2])
  /\ UNCHANGED callVars

(* Mutant of Bits: the lowest bit is dropped.                              *)
Bits_Shifted(x) == [i \in Positions |-> (x \div two_to[BinSize - i + 1]) % 2 = 1]

(* bitset<MESSAGE_BIN_SIZE>(x).to_string(): the highest bit first, a       *)
(* negative number extended with ones.                                     *)
Bits(x) == [i \in Positions |-> (x \div two_to[BinSize - i]) % 2 = 1]

(* The bits of x encrypted one by one with the random numbers r.           *)
EncBits(x, r) == [i \in Positions |-> Enc(publicKey, Bits(x)[i], r[i])]

Step1(x, y) ==
  /\ phase = "ready"
  /\ phase' = "step1"
  /\ aliceNumber' = x /\ bobNumber' = y
  /\ \E r \in [Positions -> EncRandom(publicKey.n)] :
       aliceCipherText' = EncBits(x, r)
  /\ UNCHANGED <<keyVars, xorCipherText, decResult, verdict>>

(* Mutant of Shuffles: positions may be repeated.                          *)
Shuffles_Repeat == [Positions -> Positions]

Shuffles == {pi \in [Positions -> Positions] : IsInjective(pi)}

Step2 ==
  /\ phase = "step1"
  /\ phase' = "step2"
  /\ \E r \in [Positions -> EncRandom(publicKey.n)], pi \in Shuffles :
       LET bobCipherText == EncBits(bobNumber, r)
       IN xorCipherText' =
            [i \in Positions |->
               XOR(publicKey, aliceCipherText[pi[i]], bobCipherText[pi[i]])]
  /\ UNCHANGED <<keyVars, aliceNumber, bobNumber, aliceCipherText,
                 decResult, verdict>>

Step3 ==
  /\ phase = "step2"
  /\ phase' = "done"
  /\ decResult' = [i \in Positions |-> Dec(secretKey, xorCipherText[i])]
  /\ verdict' = (\A i \in Positions : ~decResult'[i])
  /\ UNCHANGED <<keyVars, aliceNumber, bobNumber, aliceCipherText,
                 xorCipherText>>

(* The arguments, locals and answer of a call do not outlive it.           *)
Return == /\ phase = "done"
          /\ phase' = "ready"
          /\ aliceNumber' = 0 /\ bobNumber' = 0
          /\ aliceCipherText' = NoCipherText /\ xorCipherText' = NoCipherText
          /\ decResult' = NoBits
          /\ verdict' = FALSE
          /\ UNCHANGED keyVars

Next == \/ keyGen
        \/ \E x, y \in Numbers : Step1(x, y)
        \/ Step2
        \/ Step3
        \/ Return

Spec == Init /\ [][Next]_vars

----------------------------------------------------------------------------

InvertibleG == Coprime(publicKey.g, publicKey.n)
Ones(bits) == Cardinality({i \in Positions : bits[i]})

(***************************************************************************)
(* Whatever g KeyGen accepts, two different numbers are never accepted.    *)
(***************************************************************************)
NoFalseAccept == (phase = "done" /\ verdict) => aliceNumber = bobNumber

(***************************************************************************)
(* With an invertible g Alice decrypts as many ones as there are positions *)
(* in which the two numbers differ, shuffled or not.                       *)
(***************************************************************************)
HammingDistance ==
  (phase = "done" /\ InvertibleG) =>
    Ones(decResult) = Cardinality({i \in Positions :
                          Bits(aliceNumber)[i] # Bits(bobNumber)[i]})

CallOf(ph) == IF ph \in {"step1", "step2"} THEN "running"
              ELSE IF ph = "done" THEN "answered" ELSE "none"
Oracle == INSTANCE EqualityOracle
            WITH call <- CallOf(phase),
                 alice <- aliceNumber, bob <- bobNumber

(***************************************************************************)
(* Under a key with an invertible g the tester is the equality oracle.     *)
(***************************************************************************)
OracleSteps ==
  Oracle!Init /\ [][Oracle!Next \/ ~InvertibleG']_(Oracle!vars)
=============================================================================
