------------------------------- MODULE MCCalc -------------------------------
(* HomomorphicCalc for TLC with the operations of the five schemes.  A key *)
(* names its scheme.  Ciphertexts of EC-ElGamal are records, the others    *)
(* numbers; GM encrypts bits, and XOR is both its addition and its         *)
(* subtraction.                                                            *)
EXTENDS BigNum

VARIABLES key, c, m

Pa == INSTANCE Paillier
Ou == INSTANCE OU
Ns == INSTANCE NS
Ec == INSTANCE ECE WITH q <- 7
Gm == INSTANCE GM

PaillierKeys ==
  {[scheme |-> "paillier", pk |-> Pa!PublicKey(pq[1], pq[2]),
    sk |-> Pa!SecretKey(pq[1], pq[2]), M |-> pq[1] * pq[2]] :
      pq \in {<<5, 7>>, <<11, 13>>}}

(* Invertible g that KeyGen accepts.                                       *)
OUKeys == UNION
  {{[scheme |-> "ou", pk |-> Ou!PublicKey(pq[1], pq[2], g),
     sk |-> [p |-> pq[1], q |-> pq[2]], M |-> pq[1]] :
       g \in {x \in Units(pq[1] * pq[1] * pq[2]) :
                Ou!UsableG(x, pq[1]) /\ x < 30}} :
      pq \in {<<5, 7>>, <<7, 5>>}}

(* Candidates of small order keep the group of ciphertexts small.          *)
NSSecret == [primes |-> <<5, 7>>, p |-> 311, q |-> 659]
NSKeys == {[scheme |-> "ns", pk |-> Ns!PublicKey(NSSecret, 2, g),
            sk |-> NSSecret, M |-> 35] :
             g \in {x \in {12, 36, 55} : Ns!usable_g(NSSecret, 311 * 659, x)}}

ECEKeys == {[scheme |-> "ece", pk |-> Ec!PublicPoint(x), sk |-> x, M |-> 7] :
              x \in Ec!RandomElements}

GMKeys == UNION
  {{[scheme |-> "gm", pk |-> Gm!PublicKey(pq[1], pq[2], g),
     sk |-> Gm!SecretKey(pq[1], pq[2]), M |-> 2] :
       g \in {x \in Units(pq[1] * pq[2]) : Gm!UsableG(pq[1], pq[2], x)}} :
      pq \in PrimesOfBits(3) \X PrimesOfBits(3)}

MCKeys == PaillierKeys \cup OUKeys \cup NSKeys \cup ECEKeys \cup GMKeys

MCFresh(k, x) ==
  CASE k.scheme = "paillier" -> {Pa!Enc(k.pk, x, r) : r \in {1, 2, 34}}
    [] k.scheme = "ou" -> {Ou!Enc(k.pk, x, r) : r \in {0, 1, 5}}
    [] k.scheme = "ns" -> {Ns!Enc(k.pk, x, r) : r \in {12, 658}}
    [] k.scheme = "ece" -> {Ec!Enc(k.pk, x, r) : r \in Ec!RandomElements}
    [] k.scheme = "gm" -> {Gm!Enc(k.pk, x = 1, r) : r \in {1, 2, 3}}

MCAdd(k, c1, c2) ==
  CASE k.scheme = "paillier" -> Pa!Add(k.pk, c1, c2)
    [] k.scheme = "ou" -> Ou!Add(k.pk, c1, c2)
    [] k.scheme = "ns" -> Ns!Add(k.pk, c1, c2)
    [] k.scheme = "ece" -> Ec!Add(c1, c2)
    [] k.scheme = "gm" -> Gm!XOR(k.pk, c1, c2)

MCSub(k, c1, c2) ==
  CASE k.scheme = "paillier" -> Pa!Sub(k.pk, c1, c2)
    [] k.scheme = "ou" -> Ou!Sub(k.pk, c1, c2)
    [] k.scheme = "ns" -> Ns!Sub(k.pk, c1, c2)
    [] k.scheme = "ece" -> Ec!Sub(c1, c2)
    [] k.scheme = "gm" -> Gm!XOR(k.pk, c1, c2)

MCScalars(k) == IF k.scheme = "gm" THEN {} ELSE {0, 3, 5}
MCMul(k, s, c1) ==
  CASE k.scheme = "paillier" -> Pa!Scalar_Mul(k.pk, s, c1)
    [] k.scheme = "ou" -> Ou!Scalar_Mul(k.pk, s, c1)
    [] k.scheme = "ns" -> Ns!Scalar_Mul(k.pk, s, c1)
    [] k.scheme = "ece" -> Ec!Scalar_Mul(s, c1)

(* NS and EC-ElGamal only recognise zero.                                  *)
MCReads(k, c1, x) ==
  CASE k.scheme = "paillier" -> Pa!Dec(k.pk, k.sk, c1) = x
    [] k.scheme = "ou" -> Ou!Dec(k.pk, k.sk, c1) = x
    [] k.scheme = "ns" -> Ns!isZero(k.pk, k.sk, c1) <=> x = 0
    [] k.scheme = "ece" -> Ec!Dec(k.sk, c1)[2] = 0 <=> x = 0
    [] k.scheme = "gm" -> Gm!Dec(k.sk, c1) <=> x = 1

Calc == INSTANCE HomomorphicCalc
          WITH Keys <- MCKeys, FreshPlain <- {0, 1}, Scalars <- MCScalars,
               Fresh <- MCFresh, AddOp <- MCAdd, SubOp <- MCSub,
               MulOp <- MCMul, Reads <- MCReads

CalcSpec == Calc!Spec

(* No sequence of the operations of a scheme class leaves the plaintext    *)
(* that its Dec, or isZero, finds and the arithmetic on plaintexts apart.  *)
Homomorphic == Calc!Homomorphic
=============================================================================
