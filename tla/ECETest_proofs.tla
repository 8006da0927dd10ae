--------------------------- MODULE ECETest_proofs ---------------------------
(***************************************************************************)
(* EC-ElGamal equality test, for a group of any order q, every key, every  *)
(* encryption randomness and every set of scalars: type correctness, the   *)
(* exact meaning of its answer, and the plaintext-level test it implements.*)
(***************************************************************************)
EXTENDS ECETest, ModLemmas

LEMMA ResidueInPoints == ASSUME NEW a \in Int PROVE a % q \in Points
  BY OrderAssumption, DivMod DEF Points

LEMMA PointsAreInts == /\ Points \subseteq Int /\ RandomElements \subseteq Int
                       /\ RandomElements = Points /\ 0 \in Points
  BY OrderAssumption DEF Points, RandomElements

(* Every operation of the group returns a point.                           *)
LEMMA InvertTyped == ASSUME NEW P \in Int PROVE point_invert(P) \in Points
<1>1. -P \in Int
  OBVIOUS
<1> QED
  BY <1>1, ResidueInPoints DEF point_invert

LEMMA AddTyped ==
  ASSUME NEW P \in Int, NEW Q \in Int PROVE point_add(P, Q) \in Points
<1>1. P + Q \in Int
  OBVIOUS
<1> QED
  BY <1>1, ResidueInPoints DEF point_add

LEMMA MulTyped ==
  ASSUME NEW k \in Int, NEW P \in Int PROVE point_mul(k, P) \in Points
<1>1. k * P \in Int
  OBVIOUS
<1> QED
  BY <1>1, ResidueInPoints DEF point_mul

LEMMA BaseTyped == ASSUME NEW k \in Int PROVE base_mul(k) \in Points
  BY ResidueInPoints DEF base_mul

LEMMA EncodeInt == ASSUME NEW i \in Numbers PROVE Encode(i) \in Int
  BY WordAssumption, NumbersAssumption, DivMod DEF Encode

(***************************************************************************)
(* A ciphertext holds two points, whatever produced it.                    *)
(***************************************************************************)
LEMMA EncTyped ==
  ASSUME NEW Y \in Points, NEW m \in Int, NEW r \in Int
  PROVE  Enc(Y, m, r) \in CipherTexts
<1>1. /\ base_mul(r) \in Points /\ base_mul(m) \in Int
      /\ point_mul(r, Y) \in Int
  BY BaseTyped, MulTyped, PointsAreInts
<1>2. point_add(base_mul(m), point_mul(r, Y)) \in Points
  BY <1>1, AddTyped
<1> QED
  BY <1>1, <1>2 DEF Enc, CipherTexts

LEMMA SubTyped ==
  ASSUME NEW C \in CipherTexts, NEW D \in CipherTexts
  PROVE  Sub(C, D) \in CipherTexts
<1>1. /\ C.C1 \in Int /\ C.C2 \in Int /\ D.C1 \in Int /\ D.C2 \in Int
  BY PointsAreInts DEF CipherTexts
<1>2. point_invert(D.C1) \in Int /\ point_invert(D.C2) \in Int
  BY <1>1, InvertTyped, PointsAreInts
<1>3. /\ point_add(C.C1, point_invert(D.C1)) \in Points
      /\ point_add(C.C2, point_invert(D.C2)) \in Points
  BY <1>1, <1>2, AddTyped
<1> QED
  BY <1>3 DEF Sub, CipherTexts

LEMMA ScalarMulTyped ==
  ASSUME NEW C \in CipherTexts, NEW k \in Int
  PROVE  Scalar_Mul(k, C) \in CipherTexts
<1>1. C.C1 \in Int /\ C.C2 \in Int
  BY PointsAreInts DEF CipherTexts
<1>2. point_mul(k, C.C1) \in Points /\ point_mul(k, C.C2) \in Points
  BY <1>1, MulTyped
<1> QED
  BY <1>2 DEF Scalar_Mul, CipherTexts

----------------------------------------------------------------------------

(***************************************************************************)
(* The components of the ciphertext Bob returns, as single residues.       *)
(***************************************************************************)
LEMMA EncComponents ==
  ASSUME NEW y \in Int, NEW m \in Int, NEW r \in Int
  PROVE  /\ Enc(PublicPoint(y), m, r).C1 = r % q
         /\ Enc(PublicPoint(y), m, r).C2 = (m + r * y) % q
<1>1. q \in Nat \ {0} /\ r * y \in Int
  BY OrderAssumption
<1>2. (r * (y % q)) % q = (r * y) % q
  BY <1>1, ModMul
<1>3. ((m % q) + ((r * y) % q)) % q = (m + r * y) % q
  BY <1>1, ModAdd
<1> QED
  BY <1>2, <1>3 DEF Enc, PublicPoint, base_mul, point_mul, point_add

LEMMA AddInvert ==
  ASSUME NEW a \in Int, NEW b \in Int
  PROVE  point_add(a % q, point_invert(b % q)) = (a - b) % q
<1>1. q \in Nat \ {0} /\ -b \in Int
  BY OrderAssumption
<1>2. (-(b % q)) % q = (-b) % q
  BY <1>1, ModNeg
<1>3. ((a % q) + ((-b) % q)) % q = (a + (-b)) % q
  BY <1>1, ModAdd
<1>4. a + (-b) = a - b
  OBVIOUS
<1> QED
  BY <1>2, <1>3, <1>4 DEF point_add, point_invert

(***************************************************************************)
(* What Alice decrypts: the blinded difference of the two plaintexts.  The *)
(* randomness of both encryptions cancels, and so does the key.            *)
(***************************************************************************)
LEMMA DecryptedDifference ==
  ASSUME NEW y \in Int, NEW k \in Int, NEW m \in Int, NEW r \in Int,
         NEW n \in Int, NEW t \in Int
  PROVE  DecPoint(y, Scalar_Mul(k, Sub(Enc(PublicPoint(y), n, t),
                                       Enc(PublicPoint(y), m, r))))
           = (k * ((n - m) % q)) % q
<1> DEFINE CA == Enc(PublicPoint(y), m, r)
           CB == Enc(PublicPoint(y), n, t)
           SubC == Sub(CB, CA)
           Res == Scalar_Mul(k, SubC)
           d1 == t - r
           d2 == (n + t * y) - (m + r * y)
<1>0. q \in Nat \ {0}
  BY OrderAssumption
<1>1. d1 \in Int /\ d2 \in Int /\ k * d1 \in Int /\ k * d2 \in Int
  OBVIOUS
<1>2. SubC.C1 = d1 % q
  BY EncComponents, AddInvert DEF Sub
<1>3. SubC.C2 = d2 % q
  <2>1. n + t * y \in Int /\ m + r * y \in Int
    OBVIOUS
  <2>2. point_add((n + t * y) % q, point_invert((m + r * y) % q)) = d2 % q
    BY <2>1, AddInvert
  <2> QED
    BY <2>2, EncComponents DEF Sub
<1>4. Res.C1 = (k * d1) % q /\ Res.C2 = (k * d2) % q
  <2>1. Res.C1 = (k * (d1 % q)) % q /\ Res.C2 = (k * (d2 % q)) % q
    BY <1>2, <1>3 DEF Scalar_Mul, point_mul
  <2> QED
    BY <1>0, <1>1, <2>1, ModMul
<1>5. y * (k * d1) \in Int /\ point_mul(y, Res.C1) = (y * (k * d1)) % q
  <2>1. (y * ((k * d1) % q)) % q = (y * (k * d1)) % q
    BY <1>0, <1>1, ModMul
  <2>2. point_mul(y, Res.C1) = (y * ((k * d1) % q)) % q
    BY <1>4 DEF point_mul
  <2>3. y * (k * d1) \in Int
    BY <1>1
  <2> QED
    BY <2>1, <2>2, <2>3
<1>6. DecPoint(y, Res) = (k * d2 - y * (k * d1)) % q
  <2>1. point_add((k * d2) % q, point_invert((y * (k * d1)) % q))
          = (k * d2 - y * (k * d1)) % q
    BY <1>1, <1>5, AddInvert
  <2>2. /\ point_invert((y * (k * d1)) % q) \in Int /\ (k * d2) % q \in Int
    <3>1. (y * (k * d1)) % q \in Int /\ (k * d2) % q \in Int
      BY <1>1, <1>5, ResidueInPoints, PointsAreInts
    <3> QED
      BY <3>1, InvertTyped, PointsAreInts
  <2>3. point_add(point_invert((y * (k * d1)) % q), (k * d2) % q)
          = point_add((k * d2) % q, point_invert((y * (k * d1)) % q))
    BY <2>2 DEF point_add
  <2> QED
    BY <1>4, <1>5, <2>1, <2>3 DEF DecPoint
<1>7. k * d2 - y * (k * d1) = k * (n - m)
  <2>1. d2 = (n - m) + y * d1
    OBVIOUS
  <2> HIDE DEF d1, d2
  <2>2. k * d2 = k * (n - m) + k * (y * d1)
    BY <2>1, <1>1
  <2>3. k * (y * d1) = y * (k * d1)
    BY <1>1
  <2> QED
    BY <2>2, <2>3, <1>1
<1>8. (k * ((n - m) % q)) % q = (k * (n - m)) % q
  <2>1. n - m \in Int
    OBVIOUS
  <2> QED
    BY <1>0, <2>1, ModMul
<1> QED
  BY <1>6, <1>7, <1>8
----------------------------------------------------------------------------

(***************************************************************************)
(* The inductive invariant.  VerdictExact is not inductive: nothing in it  *)
(* links res to the numbers of the call.  KeyPair and AliceForm carry what *)
(* step 1 left for step 2, ResForm and VerdictForm what step 2 left for    *)
(* step 3.                                                                 *)
(***************************************************************************)
Difference == Encode(bobNumber) - Encode(aliceNumber)

KeyPair == phase # "nokey" => X = PublicPoint(x)

AliceForm == phase = "step1" =>
  \E r \in RandomElements : aliceCipherText = Enc(X, Encode(aliceNumber), r)

ResForm == phase \in {"step2", "done"} =>
  /\ s \in ScalarRandom(q)
  /\ DecPoint(x, res) = (s * (Difference % q)) % q

VerdictForm == phase = "done" => (verdict <=> DecPoint(x, res) = Infinity)

NoCallForm == phase \in {"nokey", "ready", "step1"} =>
  s = 0 /\ res = NoCipherText /\ verdict = FALSE

IdleForm == phase \in {"nokey", "ready"} => aliceNumber = 0 /\ bobNumber = 0

IInv == /\ TypeOK /\ KeyPair /\ AliceForm /\ ResForm /\ VerdictForm
        /\ NoCallForm /\ IdleForm

LEMMA NoCipherTextTyped == NoCipherText \in CipherTexts
  BY PointsAreInts DEF NoCipherText, CipherTexts, Infinity

(* Without a call in progress the decrypted point is the point at infinity.*)
LEMMA NoCipherTextDec ==
  ASSUME NEW y \in Int PROVE DecPoint(y, NoCipherText) = 0
<1>1. y * 0 = 0 /\ 0 % q = 0 /\ (-0) % q = 0 /\ (0 + 0) % q = 0
  BY OrderAssumption
<1> QED
  BY <1>1 DEF DecPoint, NoCipherText, Infinity, point_add, point_invert,
              point_mul

(* The digit Step3 looks at is zero exactly for the point at infinity.     *)
LEMMA InfinityDigit ==
  ASSUME NEW y, NEW C
  PROVE  (Dec(y, C)[2] = 0) <=> (DecPoint(y, C) = Infinity)
  BY DEF Dec, point2hex

LEMMA InitIInv == Init => IInv
<1> SUFFICES ASSUME Init PROVE IInv
  OBVIOUS
<1>1. TypeOK
  BY PointsAreInts, NoCipherTextTyped, NumbersAssumption
     DEF Init, TypeOK, RandomElements, Infinity
<1> QED
  BY <1>1 DEF Init, IInv, KeyPair, AliceForm, ResForm, VerdictForm,
              NoCallForm, IdleForm

LEMMA Step2Res ==
  ASSUME IInv, Step2
  PROVE  /\ s' \in ScalarRandom(q) /\ s' \in Int
         /\ bobCipherText' \in CipherTexts /\ res' \in CipherTexts
         /\ DecPoint(x, res') = (s' * (Difference % q)) % q
<1>1. PICK t \in RandomElements :
        bobCipherText' = Enc(X, Encode(bobNumber), t)
  BY DEF Step2
<1>2. PICK k \in ScalarRandom(q) :
        s' = k /\ res' = Scalar_Mul(k, Sub(bobCipherText', aliceCipherText))
  BY DEF Step2
<1>3. PICK r \in RandomElements :
        aliceCipherText = Enc(X, Encode(aliceNumber), r)
  BY DEF Step2, IInv, AliceForm
<1>4. /\ x \in Int /\ X = PublicPoint(x) /\ X \in Points
      /\ k \in Int /\ r \in Int /\ t \in Int
      /\ Encode(aliceNumber) \in Int /\ Encode(bobNumber) \in Int
      /\ aliceCipherText \in CipherTexts
  BY <1>2, PointsAreInts, ScalarAssumption, EncodeInt
     DEF Step2, IInv, TypeOK, RandomElements, KeyPair
<1>5. bobCipherText' \in CipherTexts
  BY <1>1, <1>4, EncTyped
<1>6. res' \in CipherTexts
  BY <1>2, <1>4, <1>5, SubTyped, ScalarMulTyped
<1>7. DecPoint(x, res') = (s' * (Difference % q)) % q
  <2> DEFINE a == Encode(aliceNumber)  b == Encode(bobNumber)
  <2>1. x \in Int /\ k \in Int /\ a \in Int /\ r \in Int /\ b \in Int
        /\ t \in Int
    BY <1>4
  <2>2. res' = Scalar_Mul(k, Sub(Enc(PublicPoint(x), b, t),
                                 Enc(PublicPoint(x), a, r)))
    BY <1>1, <1>2, <1>3, <1>4
  <2> HIDE DEF a, b
  <2>3. DecPoint(x, Scalar_Mul(k, Sub(Enc(PublicPoint(x), b, t),
                                      Enc(PublicPoint(x), a, r))))
          = (k * ((b - a) % q)) % q
    BY <2>1, DecryptedDifference
  <2>4. DecPoint(x, res') = (k * ((b - a) % q)) % q
    BY <2>2, <2>3
  <2> QED
    BY <1>2, <2>4 DEF Difference, a, b
<1> QED
  BY <1>2, <1>4, <1>5, <1>6, <1>7

LEMMA NextIInv == IInv /\ [Next]_vars => IInv'
<1> SUFFICES ASSUME IInv, [Next]_vars
             PROVE  IInv'
  OBVIOUS
<1>1. CASE keyGen
  <2>1. TypeOK'
    <3>1. X' \in Points
      BY <1>1, BaseTyped, PointsAreInts DEF keyGen, PublicPoint
    <3> QED
      BY <1>1, <3>1 DEF keyGen, callVars, IInv, TypeOK, RandomElements
  <2>2. KeyPair'
    BY <1>1 DEF keyGen, KeyPair
  <2> QED
    BY <1>1, <2>1, <2>2 DEF keyGen, callVars, IInv, AliceForm, ResForm,
       VerdictForm, NoCallForm, IdleForm
<1>2. ASSUME NEW i \in Numbers, NEW j \in Numbers, Step1(i, j)
      PROVE  IInv'
  <2>1. PICK r \in RandomElements : aliceCipherText' = Enc(X, Encode(i), r)
    BY <1>2 DEF Step1
  <2>2. aliceCipherText' \in CipherTexts
    BY <2>1, EncTyped, EncodeInt, PointsAreInts DEF IInv, TypeOK
  <2>3. TypeOK'
    BY <1>2, <2>2 DEF Step1, IInv, TypeOK
  <2>4. AliceForm'
    BY <1>2, <2>1 DEF Step1, AliceForm, Encode
  <2> QED
    BY <1>2, <2>3, <2>4 DEF Step1, IInv, KeyPair, ResForm, VerdictForm,
       NoCallForm, IdleForm
<1>3. CASE Step2
  <2>1. /\ s' \in ScalarRandom(q) /\ res' \in CipherTexts
        /\ bobCipherText' \in CipherTexts
        /\ DecPoint(x, res') = (s' * (Difference % q)) % q
    BY <1>3, Step2Res
  <2>2. Difference' = Difference /\ x' = x
    BY <1>3 DEF Step2, Difference, Encode
  <2>3. TypeOK'
    BY <1>3, <2>1, ScalarAssumption DEF Step2, IInv, TypeOK, RandomElements
  <2>4. ResForm'
    <3>1. DecPoint(x, res)' = (s' * (Difference % q)') % q
      BY <2>1, <2>2
    <3> QED
      BY <2>1, <2>2, <3>1 DEF ResForm
  <2> QED
    BY <1>3, <2>3, <2>4 DEF Step2, IInv, KeyPair, AliceForm, VerdictForm,
       NoCallForm, IdleForm
<1>4. CASE Step3
  <2>1. Difference' = Difference /\ x' = x /\ res' = res /\ s' = s
    BY <1>4 DEF Step3, Difference, Encode
  <2>2. verdict' \in BOOLEAN /\ (verdict' <=> DecPoint(x, res) = Infinity)
    BY <1>4, InfinityDigit DEF Step3
  <2>3. TypeOK'
    BY <1>4, <2>2 DEF Step3, IInv, TypeOK
  <2>4. ResForm'
    BY <1>4, <2>1 DEF Step3, IInv, ResForm
  <2>5. VerdictForm'
    BY <2>1, <2>2 DEF VerdictForm
  <2> QED
    BY <1>4, <2>3, <2>4, <2>5 DEF Step3, IInv, KeyPair, AliceForm,
       NoCallForm, IdleForm
<1>5. CASE Return
  <2>1. TypeOK'
    BY <1>5, PointsAreInts, NoCipherTextTyped, NumbersAssumption
       DEF Return, IInv, TypeOK, RandomElements
  <2> QED
    BY <1>5, <2>1 DEF Return, IInv, KeyPair, AliceForm, ResForm,
       VerdictForm, NoCallForm, IdleForm
<1>6. CASE UNCHANGED vars
  <2>1. Difference' = Difference
    BY <1>6 DEF vars, Difference, Encode
  <2> QED
    BY <1>6, <2>1 DEF vars, IInv, TypeOK, KeyPair, AliceForm, ResForm,
       VerdictForm, NoCallForm, IdleForm, Encode
<1> QED
  BY <1>1, <1>2, <1>3, <1>4, <1>5, <1>6 DEF Next

THEOREM Invariance == Spec => []IInv
  BY InitIInv, NextIInv, PTL DEF Spec

(***************************************************************************)
(* Type correctness: in particular every ciphertext is a pair of points of *)
(* the group.                                                              *)
(***************************************************************************)
THEOREM TypeCorrect == Spec => []TypeOK
<1>1. IInv => TypeOK
  BY DEF IInv
<1> QED
  BY <1>1, Invariance, PTL

(***************************************************************************)
(* equalityTest of the EC-ElGamal tester returns true exactly when the     *)
(* scalar times the difference of the numbers is zero modulo the order of  *)
(* the group, in a group of any order, whatever was drawn.                 *)
(***************************************************************************)
THEOREM VerdictCorrect == Spec => []VerdictExact
<1>1. IInv => VerdictExact
  <2> SUFFICES ASSUME IInv, phase = "done"
               PROVE  verdict <=> (s * Difference) % q = 0
    BY DEF VerdictExact, Difference
  <2>1. s \in Int /\ Difference \in Int /\ q \in Nat \ {0}
    BY EncodeInt, PointsAreInts, OrderAssumption DEF IInv, TypeOK, Difference
  <2>2. (s * (Difference % q)) % q = (s * Difference) % q
    BY <2>1, ModMul
  <2> QED
    BY <2>2 DEF IInv, ResForm, VerdictForm, Infinity
<1> QED
  BY <1>1, Invariance, PTL

(***************************************************************************)
(* The EC-ElGamal tester implements the plaintext-level equality test      *)
(* AHETest, so what is proved of AHETest holds of it.                      *)
(***************************************************************************)
THEOREM ImplementsAHE == Spec => AHESpec
<1>1. Init => AHE!Init
  <2> SUFFICES ASSUME Init PROVE AHE!Init
    OBVIOUS
  <2>1. Encode(0) = 0
    BY WordAssumption DEF Encode
  <2>2. DecPoint(x, res) = 0
    BY NoCipherTextDec DEF Init
  <2> QED
    BY <2>1, <2>2 DEF Init, AHE!Init
<1>2. IInv /\ IInv' /\ [Next]_vars => [AHE!Next]_(AHE!vars)
  <2> SUFFICES ASSUME IInv, IInv', [Next]_vars
               PROVE  [AHE!Next]_(AHE!vars)
    OBVIOUS
  <2>0. x \in Int /\ x' \in Int
    BY PointsAreInts DEF IInv, TypeOK
  <2>1. CASE keyGen
    <3>1. DecPoint(x, res) = 0 /\ DecPoint(x', res) = 0
      BY <2>0, <2>1, NoCipherTextDec DEF keyGen, IInv, NoCallForm
    <3>2. AHE!KeyGen
      BY <2>1, <3>1 DEF keyGen, callVars, AHE!KeyGen, Encode
    <3> QED
      BY <3>2 DEF AHE!Next
  <2>2. ASSUME NEW i \in Numbers, NEW j \in Numbers, Step1(i, j)
        PROVE  AHE!Next
    <3>1. AHE!Step1(Encode(j), Encode(i))
      BY <2>2 DEF Step1, AHE!Step1, Encode
    <3> QED
      BY <3>1 DEF AHE!Next
  <2>3. CASE Step2
    <3>1. s' \in ScalarRandom(q) /\ DecPoint(x, res') = (s' * (Difference % q)) % q
      BY <2>3, Step2Res
    <3>2. AHE!Step2(s')
      BY <2>3, <3>1 DEF Step2, AHE!Step2, Difference, Encode
    <3> QED
      BY <2>3, <3>1, <3>2 DEF AHE!Next, Step2
  <2>4. CASE Step3
    <3>1. verdict' = (DecPoint(x, res) = 0)
      BY <2>4, InfinityDigit DEF Step3, Infinity
    <3>2. AHE!Step3
      BY <2>4, <3>1 DEF Step3, AHE!Step3, Encode
    <3> QED
      BY <3>2 DEF AHE!Next
  <2>5. CASE Return
    <3>1. DecPoint(x, NoCipherText) = 0
      BY <2>0, NoCipherTextDec
    <3>2. Encode(0) = 0
      BY WordAssumption DEF Encode
    <3>3. AHE!Return
      BY <2>5, <3>1, <3>2 DEF Return, AHE!Return, Encode
    <3> QED
      BY <3>3 DEF AHE!Next
  <2>6. CASE UNCHANGED vars
    BY <2>6 DEF vars, AHE!vars, Encode
  <2> QED
    BY <2>1, <2>2, <2>3, <2>4, <2>5, <2>6 DEF Next
<1> QED
  BY <1>1, <1>2, Invariance, PTL DEF Spec, AHESpec, AHE!Spec

(***************************************************************************)
(* Add, Sub and Scalar_Mul in any sequence: HomomorphicCalc on every key,  *)
(* with any plaintext, random number and scalar.                           *)
(***************************************************************************)
VARIABLES pair, held, plain      \* its key, ciphertext and plaintext

Pairs == {[pk |-> PublicPoint(y), sk |-> y, M |-> q] : y \in RandomElements}
AnyScalar(K) == Nat
AnyFresh(K, z) == {Enc(K.pk, z, r) : r \in RandomElements}
PairAdd(K, C, D) == Add(C, D)
PairSub(K, C, D) == Sub(C, D)
PairMul(K, k, C) == Scalar_Mul(k, C)
(* The caller looks at the second digit of the point Dec returns.          *)
PairReads(K, C, z) == Dec(K.sk, C)[2] = 0 <=> z = 0

Calc == INSTANCE HomomorphicCalc
          WITH Keys <- Pairs, FreshPlain <- Nat, Scalars <- AnyScalar,
               Fresh <- AnyFresh, AddOp <- PairAdd, SubOp <- PairSub,
               MulOp <- PairMul, Reads <- PairReads,
               key <- pair, c <- held, m <- plain

(* The ciphertext of z under the key y and some randomness t.              *)
Holds(y, C, z) ==
  /\ z \in Int
  /\ \E t \in Int : C = [C1 |-> t % q, C2 |-> (z + t * y) % q]

CalcInv == \E y \in RandomElements :
             /\ pair = [pk |-> PublicPoint(y), sk |-> y, M |-> q]
             /\ Holds(y, held, plain)

LEMMA FreshHolds ==
  ASSUME NEW y \in RandomElements, NEW K, K.pk = PublicPoint(y), NEW z \in Nat,
         NEW C \in AnyFresh(K, z)
  PROVE  Holds(y, C, z)
<1>1. PICK r \in RandomElements : C = Enc(PublicPoint(y), z, r)
  BY DEF AnyFresh
<1>2. y \in Int /\ r \in Int /\ z \in Int
  BY PointsAreInts
<1>3. C.C1 = r % q /\ C.C2 = (z + r * y) % q
  BY <1>1, <1>2, EncComponents
<1>4. C = [C1 |-> C.C1, C2 |-> C.C2]
  BY <1>1 DEF Enc
<1> QED
  BY <1>2, <1>3, <1>4 DEF Holds

LEMMA AddHolds ==
  ASSUME NEW y \in Int, NEW C, NEW z, NEW D, NEW w, Holds(y, C, z), Holds(y, D, w)
  PROVE  Holds(y, Add(C, D), z + w)
<1>1. q \in Nat \ {0} /\ z \in Int /\ w \in Int /\ z + w \in Int
  BY OrderAssumption DEF Holds
<1>2. PICK t \in Int : C = [C1 |-> t % q, C2 |-> (z + t * y) % q]
  BY DEF Holds
<1>3. PICK r \in Int : D = [C1 |-> r % q, C2 |-> (w + r * y) % q]
  BY DEF Holds
<1> DEFINE a == z + t * y  b == w + r * y
<1>4. a \in Int /\ b \in Int /\ t + r \in Int /\ a + b = (z + w) + (t + r) * y
  BY <1>1
<1>5. C.C1 = t % q /\ C.C2 = a % q /\ D.C1 = r % q /\ D.C2 = b % q
  BY <1>2, <1>3
<1> HIDE DEF a, b
<1>6. ((t % q) + (r % q)) % q = (t + r) % q /\ ((a % q) + (b % q)) % q = (a + b) % q
  BY <1>1, <1>4, ModAdd
<1>7. Add(C, D) = [C1 |-> (t + r) % q, C2 |-> ((z + w) + (t + r) * y) % q]
  BY <1>4, <1>5, <1>6 DEF Add, point_add
<1> QED
  BY <1>1, <1>4, <1>7 DEF Holds

LEMMA SubHolds ==
  ASSUME NEW y \in Int, NEW C, NEW z, NEW D, NEW w, Holds(y, C, z), Holds(y, D, w)
  PROVE  Holds(y, Sub(C, D), z - w)
<1>1. q \in Nat \ {0} /\ z \in Int /\ w \in Int /\ z - w \in Int
  BY OrderAssumption DEF Holds
<1>2. PICK t \in Int : C = [C1 |-> t % q, C2 |-> (z + t * y) % q]
  BY DEF Holds
<1>3. PICK r \in Int : D = [C1 |-> r % q, C2 |-> (w + r * y) % q]
  BY DEF Holds
<1> DEFINE a == z + t * y  b == w + r * y
<1>4. a \in Int /\ b \in Int /\ t - r \in Int /\ a - b = (z - w) + (t - r) * y
  BY <1>1
<1>5. C.C1 = t % q /\ C.C2 = a % q /\ D.C1 = r % q /\ D.C2 = b % q
  BY <1>2, <1>3
<1> HIDE DEF a, b
<1>6. /\ point_add(t % q, point_invert(r % q)) = (t - r) % q
      /\ point_add(a % q, point_invert(b % q)) = (a - b) % q
  BY <1>4, AddInvert
<1>7. Sub(C, D) = [C1 |-> (t - r) % q, C2 |-> ((z - w) + (t - r) * y) % q]
  BY <1>4, <1>5, <1>6 DEF Sub
<1> QED
  BY <1>1, <1>4, <1>7 DEF Holds

LEMMA MulHolds ==
  ASSUME NEW y \in Int, NEW C, NEW z, NEW k \in Int, Holds(y, C, z)
  PROVE  Holds(y, Scalar_Mul(k, C), k * z)
<1>1. q \in Nat \ {0} /\ z \in Int /\ k * z \in Int
  BY OrderAssumption DEF Holds
<1>2. PICK t \in Int : C = [C1 |-> t % q, C2 |-> (z + t * y) % q]
  BY DEF Holds
<1> DEFINE a == z + t * y
<1>3. a \in Int /\ k * t \in Int /\ k * a = k * z + (k * t) * y
  BY <1>1
<1>4. C.C1 = t % q /\ C.C2 = a % q
  BY <1>2
<1> HIDE DEF a
<1>5. (k * (t % q)) % q = (k * t) % q /\ (k * (a % q)) % q = (k * a) % q
  BY <1>1, <1>3, ModMul
<1>6. Scalar_Mul(k, C) = [C1 |-> (k * t) % q, C2 |-> (k * z + (k * t) * y) % q]
  BY <1>3, <1>4, <1>5 DEF Scalar_Mul, point_mul
<1> QED
  BY <1>1, <1>3, <1>6 DEF Holds

(* The reduction of a plaintext modulo the order changes nothing.          *)
LEMMA ReducedHolds ==
  ASSUME NEW y \in Int, NEW C, NEW z, Holds(y, C, z)
  PROVE  Holds(y, C, z % q)
<1>1. q \in Nat \ {0} /\ z \in Int
  BY OrderAssumption DEF Holds
<1>2. PICK t \in Int : C = [C1 |-> t % q, C2 |-> (z + t * y) % q]
  BY DEF Holds
<1> DEFINE a == t * y  w == z % q
<1>3. a \in Int
  OBVIOUS
<1>4. w \in Int /\ Congruent(z, w, q)
  <2>1. w \in 0..(q - 1) /\ Congruent(w, z, q)
    BY <1>1, CongruentResidue
  <2> QED
    BY <2>1, CongruentEquivalence
<1> HIDE DEF a, w
<1>5. Congruent(a, a, q)
  BY CongruentEquivalence
<1>6. Congruent(z + a, w + a, q)
  BY <1>1, <1>3, <1>4, <1>5, CongruentAdd
<1>7. C = [C1 |-> t % q, C2 |-> (w + a) % q]
  BY <1>2, <1>6 DEF a, Congruent
<1> QED
  BY <1>4, <1>7 DEF Holds, a, w

LEMMA HoldsReads ==
  ASSUME NEW y \in Int, NEW C, NEW z, Holds(y, C, z), NEW K, K.sk = y
  PROVE  PairReads(K, C, z % q)
<1>1. q \in Nat \ {0} /\ z \in Int
  BY OrderAssumption DEF Holds
<1>2. PICK t \in Int : C = [C1 |-> t % q, C2 |-> (z + t * y) % q]
  BY DEF Holds
<1> DEFINE a == z + t * y  b == y * t
<1>3. a \in Int /\ b \in Int /\ a - b = z
  BY <1>1
<1>4. C.C1 = t % q /\ C.C2 = a % q
  BY <1>2
<1>5. point_mul(y, C.C1) = b % q
  BY <1>1, <1>4, ModMul DEF point_mul
<1> HIDE DEF a, b
<1>6. point_add(a % q, point_invert(b % q)) = z % q
  BY <1>3, AddInvert
<1>7. a % q \in Int /\ point_invert(b % q) \in Int
  <2>1. a % q \in Int /\ b % q \in Int
    BY <1>1, <1>3, DivMod
  <2> QED
    BY <2>1, InvertTyped, PointsAreInts
<1>8. DecPoint(y, C) = z % q
  BY <1>4, <1>5, <1>6, <1>7 DEF DecPoint, point_add
<1> QED
  BY <1>8 DEF PairReads, Dec, point2hex, Infinity

(***************************************************************************)
(* Class ECE, for a group of any order and every key: whatever sequence of *)
(* additions, subtractions and scalar multiplications led to a ciphertext, *)
(* the digit of the decryption that callers look at is zero exactly when   *)
(* the same arithmetic on the plaintexts is zero modulo the order.         *)
(***************************************************************************)
THEOREM OperationsAgree == Calc!Spec => []Calc!Homomorphic
<1>1. Calc!Init => CalcInv
  <2> SUFFICES ASSUME Calc!Init PROVE CalcInv
    OBVIOUS
  <2>1. pair \in Pairs /\ plain \in Nat /\ held \in AnyFresh(pair, plain)
    BY DEF Calc!Init
  <2>2. PICK y \in RandomElements : pair = [pk |-> PublicPoint(y), sk |-> y, M |-> q]
    BY <2>1 DEF Pairs
  <2>3. Holds(y, held, plain)
    BY <2>1, <2>2, FreshHolds
  <2> QED
    BY <2>2, <2>3 DEF CalcInv
<1>2. CalcInv /\ [Calc!Next]_(Calc!vars) => CalcInv'
  <2> SUFFICES ASSUME CalcInv, [Calc!Next]_(Calc!vars) PROVE CalcInv'
    OBVIOUS
  <2>1. PICK y \in RandomElements :
          /\ pair = [pk |-> PublicPoint(y), sk |-> y, M |-> q]
          /\ Holds(y, held, plain)
    BY DEF CalcInv
  <2>2. y \in Int /\ plain \in Int /\ q \in Nat \ {0}
        /\ pair.pk = PublicPoint(y) /\ pair.M = q
    BY <2>1, PointsAreInts, OrderAssumption DEF Holds
  <2>3. ASSUME pair' = pair, Holds(y, held', plain') PROVE CalcInv'
    BY <2>1, <2>3 DEF CalcInv
  <2>4. ASSUME NEW z \in Nat, Calc!Add(z) PROVE CalcInv'
    <3>1. PICK D \in AnyFresh(pair, z) : held' = Add(held, D)
      BY <2>4 DEF Calc!Add, PairAdd
    <3>2. Holds(y, D, z)
      BY <2>2, <3>1, FreshHolds
    <3>3. Holds(y, held', (plain + z) % q)
      BY <2>1, <2>2, <3>1, <3>2, AddHolds, ReducedHolds
    <3>4. pair' = pair /\ plain' = (plain + z) % q
      BY <2>2, <2>4 DEF Calc!Add
    <3> QED
      BY <2>3, <3>3, <3>4
  <2>5. ASSUME NEW z \in Nat, Calc!Sub(z) PROVE CalcInv'
    <3>1. PICK D \in AnyFresh(pair, z) : held' = Sub(held, D)
      BY <2>5 DEF Calc!Sub, PairSub
    <3>2. Holds(y, D, z)
      BY <2>2, <3>1, FreshHolds
    <3>3. Holds(y, held', (plain - z) % q)
      BY <2>1, <2>2, <3>1, <3>2, SubHolds, ReducedHolds
    <3>4. pair' = pair /\ plain' = (plain - z) % q
      BY <2>2, <2>5 DEF Calc!Sub
    <3> QED
      BY <2>3, <3>3, <3>4
  <2>6. CASE Calc!Double
    <3>1. held' = Add(held, held) /\ pair' = pair /\ plain' = (2 * plain) % q
      BY <2>2, <2>6 DEF Calc!Double, PairAdd
    <3>2. Holds(y, held', plain + plain) /\ plain + plain = 2 * plain
      BY <2>1, <2>2, <3>1, AddHolds
    <3>3. Holds(y, held', (2 * plain) % q)
      BY <2>2, <3>2, ReducedHolds
    <3> QED
      BY <2>3, <3>1, <3>3
  <2>7. CASE Calc!Cancel
    <3>1. held' = Sub(held, held) /\ pair' = pair /\ plain' = 0
      BY <2>7 DEF Calc!Cancel, PairSub
    <3>2. Holds(y, held', plain - plain) /\ plain - plain = 0
      BY <2>1, <2>2, <3>1, SubHolds
    <3> QED
      BY <2>3, <3>1, <3>2
  <2>8. ASSUME NEW k \in AnyScalar(pair), Calc!Scalar_Mul(k) PROVE CalcInv'
    <3>1. held' = Scalar_Mul(k, held) /\ pair' = pair /\ plain' = (k * plain) % q
          /\ k \in Int
      BY <2>2, <2>8 DEF Calc!Scalar_Mul, PairMul, AnyScalar
    <3>2. Holds(y, held', k * plain)
      BY <2>1, <2>2, <3>1, MulHolds
    <3>3. Holds(y, held', (k * plain) % q)
      BY <2>2, <3>2, ReducedHolds
    <3> QED
      BY <2>3, <3>1, <3>3
  <2>9. CASE UNCHANGED Calc!vars
    BY <2>1, <2>3, <2>9 DEF Calc!vars
  <2> QED
    BY <2>4, <2>5, <2>6, <2>7, <2>8, <2>9 DEF Calc!Next
<1>3. CalcInv => Calc!Homomorphic
  <2> SUFFICES ASSUME CalcInv PROVE Calc!Homomorphic
    OBVIOUS
  <2>1. PICK y \in RandomElements :
          /\ pair = [pk |-> PublicPoint(y), sk |-> y, M |-> q]
          /\ Holds(y, held, plain)
    BY DEF CalcInv
  <2>2. y \in Int /\ pair.M = q /\ pair.sk = y
    BY <2>1, PointsAreInts
  <2>3. PairReads(pair, held, plain % q)
    BY <2>1, <2>2, HoldsReads
  <2> QED
    BY <2>2, <2>3 DEF Calc!Homomorphic
<1> QED
  BY <1>1, <1>2, <1>3, PTL DEF Calc!Spec
=============================================================================
