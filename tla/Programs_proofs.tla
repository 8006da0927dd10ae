--------------------------- MODULE Programs_proofs ---------------------------
(***************************************************************************)
(* What is proved about the test on plaintexts that the public-key testers *)
(* share, the driver that runs them, and Kyber.  The parts are independent *)
(* of each other.                                                          *)
(*                                                                         *)
(* The test on plaintexts modulo M accepts every pair of equal numbers,    *)
(* and accepts an unequal pair only by a collision modulo M.               *)
(*                                                                         *)
(* What the driver prints, for any number of iterations, any numbers, and  *)
(* any keys, scalars and random numbers of the schemes, the degenerate     *)
(* ones included: its counts (CountsExplained) and its lists               *)
(* (ListsComplete), from what each scheme has been asked and has answered  *)
(* so far.                                                                 *)
(*                                                                         *)
(* The reductions of Kyber's reduce.c return the residue they should, in   *)
(* the range their callers count on, for every odd modulus, width of a     *)
(* short and pair of fixed-point constants that the assumptions allow.     *)
(* The check by encrypting again protects the key encapsulation for any    *)
(* hash functions and any encryption scheme in the place of Kyber's: that  *)
(* part expands no definition of KyberCPA.                                 *)
(*                                                                         *)
(* Kyber's encryption, for every degree that is a power of two, dimension, *)
(* modulus and root that the assumptions of KyberPoly allow, and for any   *)
(* hash functions.  The argument: layer by layer, ntt computes the         *)
(* remainders of a polynomial by X^2 - w for powers w of the root (NttIs), *)
(* a matrix applied to the coefficients (Image).  Products of polynomials  *)
(* become products of pairs (ProductImage), the inverse transform undoes   *)
(* the matrix (InverseIs), and no coefficient leaves the shorts on the     *)
(* way (Within).  The matrix can be inverted (Injective, ValuesOnto), so   *)
(* that polynomials modulo q are a commutative ring and the inner product  *)
(* of encryption with the transposed matrix is that of the key with the    *)
(* matrix (Transposition).  What compression changes is bounded            *)
(* (CompressRounds); what is left of a ciphertext is its noise, and a      *)
(* small noise decrypts to the message (NoiseReads, SumReads).             *)
(***************************************************************************)
EXTENDS AHETest, ProtocolTest, KyberTest, KyberKEM, ModLemmas,
        FiniteSetTheorems

(***************************************************************************)
(* The plaintext-level test.                                               *)
(***************************************************************************)

(***************************************************************************)
(* Residues of a positive modulus are natural numbers below it, and zero   *)
(* times anything has residue zero.  Used in every Step2 case below.       *)
(***************************************************************************)
LEMMA ResidueRange ==
  ASSUME NEW z0 \in Nat \ {0}, NEW x \in Int
  PROVE  x % z0 \in 0..(z0 - 1)
  OBVIOUS

LEMMA ZeroResidue ==
  ASSUME NEW z0 \in Nat \ {0}, NEW x \in Int, NEW z \in Nat
  PROVE  (z * ((x - x) % z0)) % z0 = 0
<1>1. (x - x) % z0 = 0
  OBVIOUS
<1>2. z * 0 = 0
  OBVIOUS
<1>3. 0 % z0 = 0
  OBVIOUS
<1> QED
  BY <1>1, <1>2, <1>3

(***************************************************************************)
(* The inductive invariant: from Step2 on, res is the blinded difference   *)
(* of the two numbers of this test, and verdict says whether it was zero.  *)
(* EqualAccepted alone is not inductive: nothing in it links res, on which *)
(* Step3 decides, to the numbers it was computed from.                     *)
(***************************************************************************)
BlindedDifference ==
  phase \in {"step2", "done"} =>
    /\ s \in Blinders(M)
    /\ res = (s * ((alice - bob) % M)) % M

VerdictOfRes == phase = "done" => (verdict <=> res = 0)

IInv == TypeOK /\ BlindedDifference /\ VerdictOfRes

LEMMA InitIInv == Init => IInv
<1> SUFFICES ASSUME Init PROVE IInv
  OBVIOUS
<1>1. TypeOK
  BY PlaintextsAssumption DEF Init, TypeOK, Phases
<1>2. BlindedDifference /\ VerdictOfRes
  BY DEF Init, BlindedDifference, VerdictOfRes
<1> QED
  BY <1>1, <1>2 DEF IInv

LEMMA NextIInv == IInv /\ [Next]_vars => IInv'
<1> SUFFICES ASSUME IInv, [Next]_vars
             PROVE  IInv'
  OBVIOUS
<1> USE DEF IInv, TypeOK, Phases, BlindedDifference, VerdictOfRes
<1>1. CASE KeyGen
  BY <1>1 DEF KeyGen
<1>2. ASSUME NEW x \in Plaintexts, NEW y \in Plaintexts, Step1(x, y)
      PROVE  IInv'
  BY <1>2 DEF Step1
<1>3. ASSUME NEW x \in Blinders(M), Step2(x)
      PROVE  IInv'
  <2>1. M \in Nat \ {0} /\ M \in Moduli
    BY <1>3, ModuliAssumption DEF Step2
  <2>2. alice - bob \in Int /\ x \in Nat
    BY <2>1, PlaintextsAssumption, BlindersAssumption
  <2>3. (alice - bob) % M \in Nat
    BY <2>1, <2>2, ResidueRange
  <2>4. x * ((alice - bob) % M) \in Int
    BY <2>2, <2>3
  <2>5. res' \in Nat
    BY <1>3, <2>1, <2>4, ResidueRange DEF Step2
  <2>6. TypeOK'
    BY <1>3, <2>2, <2>5 DEF Step2
  <2>7. BlindedDifference'
    BY <1>3 DEF Step2
  <2>8. VerdictOfRes'
    BY <1>3 DEF Step2
  <2> QED
    BY <2>6, <2>7, <2>8
<1>4. CASE Step3
  BY <1>4 DEF Step3
<1>5. CASE Return
  BY <1>5, PlaintextsAssumption DEF Return
<1>6. CASE UNCHANGED vars
  BY <1>6 DEF vars
<1> QED
  BY <1>1, <1>2, <1>3, <1>4, <1>5, <1>6 DEF Next

THEOREM Invariance == Spec => []IInv
  BY InitIInv, NextIInv, PTL DEF Spec

(***************************************************************************)
(* Type correctness of the plaintext-level test, for every instance.       *)
(***************************************************************************)
THEOREM TypeCorrect == Spec => []TypeOK
<1>1. IInv => TypeOK
  BY DEF IInv
<1> QED
  BY <1>1, Invariance, PTL

(***************************************************************************)
(* Completeness for every modulus and scalar: equal numbers are accepted   *)
(* (equalityTest returns true when both callers hold the same number).     *)
(***************************************************************************)
THEOREM Completeness == Spec => []EqualAccepted
<1>1. IInv => EqualAccepted
  <2> SUFFICES ASSUME IInv, phase = "done", alice = bob
               PROVE  verdict
    BY DEF EqualAccepted
  <2>1. s \in Blinders(M) /\ res = (s * ((alice - bob) % M)) % M
    BY DEF IInv, BlindedDifference
  <2>2. M \in Nat \ {0} /\ M \in Moduli /\ alice \in Int
    BY ModuliAssumption, PlaintextsAssumption DEF IInv, TypeOK
  <2>3. s \in Nat
    BY <2>1, <2>2, BlindersAssumption
  <2>4. res = 0
    BY <2>1, <2>2, <2>3, ZeroResidue
  <2> QED
    BY <2>4 DEF IInv, VerdictOfRes
<1> QED
  BY <1>1, Invariance, PTL

(***************************************************************************)
(* A wrong acceptance has one cause only: the scalar drawn in this test    *)
(* is a zero divisor for the difference of the two numbers.                *)
(***************************************************************************)
THEOREM WrongAcceptCause == Spec => []FalseAcceptExplained
<1>1. IInv => FalseAcceptExplained
  BY DEF IInv, BlindedDifference, VerdictOfRes, FalseAcceptExplained
<1> QED
  BY <1>1, Invariance, PTL

(***************************************************************************)
(* Soundness and completeness together: when every scalar is sound for     *)
(* every modulus, the test implements the equality oracle.                 *)
(***************************************************************************)
THEOREM ImplementsOracle ==
  ASSUME SoundBlinding
  PROVE  Spec => OracleSpec
<1>1. Init => Oracle!Init
  BY DEF Init, CallOf, Oracle!Init
<1>2. IInv /\ [Next]_vars => [Oracle!Next]_(Oracle!vars)
  <2> SUFFICES ASSUME IInv, [Next]_vars
               PROVE  [Oracle!Next]_(Oracle!vars)
    OBVIOUS
  <2>1. CASE KeyGen
    BY <2>1 DEF KeyGen, CallOf, Oracle!vars
  <2>2. ASSUME NEW x \in Plaintexts, NEW y \in Plaintexts, Step1(x, y)
        PROVE  Oracle!Next
    <3>1. Oracle!Call(x, y)
      BY <2>2 DEF Step1, CallOf, Oracle!Call
    <3> QED
      BY <3>1 DEF Oracle!Next
  <2>3. ASSUME NEW x \in Blinders(M), Step2(x)
        PROVE  UNCHANGED Oracle!vars
    BY <2>3 DEF Step2, CallOf, Oracle!vars
  <2>4. CASE Step3
    <3>1. s \in Blinders(M) /\ res = (s * ((alice - bob) % M)) % M
      BY <2>4 DEF Step3, IInv, BlindedDifference
    <3>2. /\ M \in Moduli /\ M \in Nat \ {0}
          /\ alice \in Plaintexts /\ bob \in Plaintexts
          /\ alice \in Int /\ bob \in Int
      BY <2>4, ModuliAssumption, PlaintextsAssumption DEF Step3, IInv, TypeOK
    <3>3. s \in Nat
      BY <3>1, <3>2, BlindersAssumption
    <3>4. alice = bob => res = 0
      BY <3>1, <3>2, <3>3, ZeroResidue
    <3>5. alice # bob => res # 0
      <4> SUFFICES ASSUME alice # bob PROVE res # 0
        OBVIOUS
      <4>1. (alice - bob) % M # 0
        BY <3>2, SoundBlinding DEF SoundBlinding
      <4>2. (alice - bob) % M \in 0..(M - 1)
        BY <3>2, ResidueRange
      <4>3. (alice - bob) % M \in 1..(M - 1)
        BY <4>1, <4>2, <3>2
      <4> QED
        BY <3>1, <3>2, <4>3, SoundBlinding DEF SoundBlinding
    <3>6. Oracle!Answer
      BY <2>4, <3>4, <3>5 DEF Step3, CallOf, Oracle!Answer
    <3> QED
      BY <3>6 DEF Oracle!Next
  <2>5. CASE Return
    <3>1. Oracle!Return
      BY <2>5 DEF Return, CallOf, Oracle!Return
    <3> QED
      BY <3>1 DEF Oracle!Next
  <2>6. CASE UNCHANGED vars
    BY <2>6 DEF vars, Oracle!vars
  <2> QED
    BY <2>1, <2>2, <2>3, <2>4, <2>5, <2>6 DEF Next
<1> QED
  BY <1>1, <1>2, Invariance, PTL DEF Spec, OracleSpec, Oracle!Spec

----------------------------------------------------------------------------

(***************************************************************************)
(* The driver.                                                             *)
(***************************************************************************)

LEMMA SchemeSet ==
  /\ DOMAIN Schemes = 1..5 /\ Len(Schemes) = 5
  /\ \A j \in 1..5 : Schemes[j] \in ToSet(Schemes)
  /\ \A sc \in ToSet(Schemes) : \E j \in 1..5 : Schemes[j] = sc
  /\ \A j, k \in 1..5 : Schemes[j] = Schemes[k] => j = k
  /\ \A j \in 1..5 : Schemes[j] = "gm" \/ Schemes[j] \in Blinding
<1>1. DOMAIN Schemes = 1..5 /\ Len(Schemes) = 5
  BY DEF Schemes
<1>2. ToSet(Schemes) = {Schemes[j] : j \in 1..5}
  BY <1>1 DEF ToSet
<1>3. /\ Schemes[1] = "gm" /\ Schemes[2] = "paillier" /\ Schemes[3] = "ece"
      /\ Schemes[4] = "ou" /\ Schemes[5] = "ns"
  BY DEF Schemes
<1>4. \A j \in 1..5 : j = 1 \/ j = 2 \/ j = 3 \/ j = 4 \/ j = 5
  OBVIOUS
<1>5. \A j, k \in 1..5 : Schemes[j] = Schemes[k] => j = k
  BY <1>3, <1>4
<1>6. \A j \in 1..5 : Schemes[j] = "gm" \/ Schemes[j] \in Blinding
  BY <1>3, <1>4 DEF Blinding
<1> QED
  BY <1>1, <1>2, <1>5, <1>6

LEMMA SchemeNames ==
  /\ Schemes[1] = "gm" /\ Schemes[2] = "paillier" /\ Schemes[3] = "ece"
  /\ Schemes[4] = "ou" /\ Schemes[5] = "ns"
  /\ {"gm", "paillier", "ece", "ou", "ns"} \subseteq ToSet(Schemes)
  /\ TwoLists \subseteq ToSet(Schemes)
<1>1. /\ Schemes[1] = "gm" /\ Schemes[2] = "paillier" /\ Schemes[3] = "ece"
      /\ Schemes[4] = "ou" /\ Schemes[5] = "ns"
  BY DEF Schemes
<1>2. {"gm", "paillier", "ece", "ou", "ns"} \subseteq ToSet(Schemes)
  BY <1>1, SchemeSet
<1> QED
  BY <1>1, <1>2 DEF TwoLists

(* The j-th scheme has still to be asked about the equal numbers that      *)
(* exactList has already.                                                  *)
Owed(j) == IF pc = "test" /\ j >= at /\ random10A = random10B THEN 1 ELSE 0

(* How often the j-th scheme has been asked.                               *)
Asked(j) == iteration + (IF pc = "test" /\ j < at THEN 1 ELSE 0)

Started == /\ pc = "keygen" => /\ iteration = 0
                               /\ \A sc \in ToSet(Schemes) : equalCount[sc] = 0
           /\ pc = "draw" => at = 1
           /\ pc = "test" => iteration < Iterations
                               /\ random10A \in Numbers /\ random10B \in Numbers
           /\ pc = "end" => iteration = Iterations
KeysChosen == \A j \in 1..5 :
                pc # "keygen" \/ j < at => key[Schemes[j]] \in Keys[Schemes[j]]
EqualListed == pc = "test" /\ random10A = random10B =>
                 exactList # <<>> /\ exactList[Len(exactList)] = random10A
Lengths == \A sc \in ToSet(Schemes) : equalCount[sc] = Len(listA[sc])
LossesBefore == /\ \A j \in 1..5 :
                     losses[Schemes[j]] \subseteq 1..(Len(exactList) - Owed(j))
                /\ losses["ou"] = {}
Balance == \A j \in 1..5 :
             /\ Len(exactList) - Owed(j)
                  <= equalCount[Schemes[j]] + Cardinality(losses[Schemes[j]])
             /\ equalCount[Schemes[j]] + Owed(j)
                  <= Len(exactList) + laxes[Schemes[j]]
BadKeys == /\ \A sc \in {"gm", "ns"} : ~key[sc].sound => equalCount[sc] = 0
           /\ ~key["ou"].sound => equalCount["ou"] = Asked(4)

DriverInv == /\ DriverTypeOK /\ Started /\ KeysChosen /\ EqualListed
             /\ Lengths /\ LossesBefore /\ Balance /\ BadKeys

LEMMA InitDriverInv == DriverInit => DriverInv
<1> SUFFICES ASSUME DriverInit PROVE DriverInv
  OBVIOUS
<1>1. DriverTypeOK
  BY SchemeSet, IterationsAssumption
     DEF DriverInit, DriverTypeOK, PerScheme, KeyRecords
<1>2. Started /\ EqualListed /\ Lengths
  BY DEF DriverInit, Started, EqualListed, Lengths, PerScheme
<1>3. KeysChosen
  BY DEF DriverInit, KeysChosen
<1>4. \A j \in 1..5 : Owed(j) = 0
  BY DEF DriverInit, Owed
<1>5. LossesBefore /\ Balance
  <2>1. /\ \A sc \in ToSet(Schemes) : /\ losses[sc] = {} /\ laxes[sc] = 0
                                      /\ equalCount[sc] = 0
        /\ Len(exactList) = 0
    BY DEF DriverInit, PerScheme
  <2>2. \A j \in 1..5 : /\ losses[Schemes[j]] = {} /\ laxes[Schemes[j]] = 0
                        /\ equalCount[Schemes[j]] = 0
    BY <2>1, SchemeSet
  <2>3. LossesBefore
    BY <2>1, <2>2, SchemeNames DEF LossesBefore
  <2>4. Balance
    <3>1. Cardinality({}) = 0
      BY FS_EmptySet
    <3>2. \A j \in 1..5 : Cardinality(losses[Schemes[j]]) = 0
      BY <2>2, <3>1
    <3> QED
      BY <1>4, <2>1, <2>2, <3>2 DEF Balance
  <2> QED
    BY <2>3, <2>4
<1>6. BadKeys
  BY SchemeNames DEF DriverInit, BadKeys, PerScheme
<1> QED
  BY <1>1, <1>2, <1>3, <1>5, <1>6 DEF DriverInv

LEMMA KeyGenIInv == ASSUME DriverInv, DriverKeyGen PROVE DriverInv'
<1> USE DEF DriverInv
<1>1. PICK k \in Keys[Schemes[at]] : key' = [key EXCEPT ![Schemes[at]] = k]
  BY DEF DriverKeyGen
<1>2. at \in 1..5 /\ Len(Schemes) = 5 /\ Schemes[at] \in ToSet(Schemes)
  BY SchemeSet DEF DriverTypeOK
<1>3. /\ pc = "keygen" /\ pc' \in {"keygen", "draw"}
      /\ at < 5 => at' = at + 1 /\ pc' = "keygen"
      /\ at = 5 => at' = 1 /\ pc' = "draw"
      /\ UNCHANGED <<iteration, random10A, random10B, exactList,
                     listA, listB, equalCount, losses, laxes>>
  BY <1>2 DEF DriverKeyGen, history
<1>4. /\ key' \in [ToSet(Schemes) -> KeyRecords] /\ key'[Schemes[at]] = k
      /\ \A sc \in ToSet(Schemes) \ {Schemes[at]} : key'[sc] = key[sc]
  BY <1>1, <1>2, KeysAssumption DEF DriverTypeOK
<1>5. at' \in 1..5
  BY <1>2, <1>3
<1>6. DriverTypeOK'
  BY <1>3, <1>4, <1>5, SchemeSet DEF DriverTypeOK
<1>7. Started' /\ EqualListed' /\ Lengths'
  BY <1>2, <1>3 DEF Started, EqualListed, Lengths
<1>8. KeysChosen'
  <2> SUFFICES ASSUME NEW j \in 1..5, pc' # "keygen" \/ j < at'
               PROVE  key'[Schemes[j]] \in Keys[Schemes[j]]
    BY DEF KeysChosen
  <2>1. j <= at
    BY <1>2, <1>3
  <2>2. CASE j = at
    BY <1>4, <2>2
  <2>3. CASE j < at
    <3>1. Schemes[j] \in ToSet(Schemes) \ {Schemes[at]}
      BY <1>2, <2>3, SchemeSet
    <3> QED
      BY <1>4, <2>3, <3>1 DEF KeysChosen
  <2> QED
    BY <1>2, <2>1, <2>2, <2>3
<1>9. \A j \in 1..5 : Owed(j) = 0 /\ Owed(j)' = 0
  BY <1>3 DEF Owed
<1>10. LossesBefore' /\ Balance'
  BY <1>3, <1>9 DEF LossesBefore, Balance
<1>11. BadKeys'
  <2>1. \A sc \in ToSet(Schemes) : equalCount'[sc] = 0
    BY <1>3 DEF Started
  <2>2. Asked(4)' = 0
    BY <1>3 DEF Asked, Started
  <2> QED
    BY <2>1, <2>2, SchemeNames DEF BadKeys
<1> QED
  BY <1>6, <1>7, <1>8, <1>10, <1>11

LEMMA DrawIInv == ASSUME DriverInv, Draw PROVE DriverInv'
<1> USE DEF DriverInv
<1>1. PICK x \in Numbers, y \in Numbers :
        /\ random10A' = x /\ random10B' = y
        /\ exactList' = IF x = y THEN Append(exactList, x) ELSE exactList
  BY DEF Draw
<1>2. /\ exactList \in Seq(Numbers) /\ Len(exactList) \in Nat
      /\ exactList' \in Seq(Numbers)
      /\ Len(exactList') = Len(exactList) + (IF x = y THEN 1 ELSE 0)
      /\ x = y => exactList' # <<>> /\ exactList'[Len(exactList')] = x
  <2>1. exactList \in Seq(Numbers) /\ Len(exactList) \in Nat
    BY DEF DriverTypeOK
  <2>2. CASE x = y
    <3>1. exactList' = Append(exactList, x)
      BY <1>1, <2>2
    <3>2. /\ exactList' \in Seq(Numbers) /\ Len(exactList') = Len(exactList) + 1
          /\ exactList'[Len(exactList) + 1] = x
      BY <2>1, <3>1
    <3> QED
      BY <2>1, <2>2, <3>2
  <2>3. CASE x # y
    BY <1>1, <2>1, <2>3
  <2> QED
    BY <2>2, <2>3
<1>3. /\ pc = "draw" /\ pc' = "test" /\ iteration < Iterations /\ at = 1
      /\ UNCHANGED <<at, key, iteration, listA, listB, equalCount, losses, laxes>>
  BY DEF Draw, Started, history
<1>4. DriverTypeOK'
  <2>1. DOMAIN exactList \subseteq DOMAIN exactList'
    BY <1>2
  <2>2. losses' \in [ToSet(Schemes) -> SUBSET DOMAIN exactList']
    BY <1>3, <2>1 DEF DriverTypeOK
  <2> QED
    BY <1>1, <1>2, <1>3, <2>2 DEF DriverTypeOK
<1>5. Started' /\ KeysChosen' /\ EqualListed' /\ Lengths'
  BY <1>1, <1>2, <1>3 DEF Started, KeysChosen, EqualListed, Lengths
<1>6. \A j \in 1..5 : Owed(j) = 0 /\ Owed(j)' = IF x = y THEN 1 ELSE 0
  BY <1>1, <1>3 DEF Owed
<1>7. Len(exactList') - (IF x = y THEN 1 ELSE 0) = Len(exactList)
  BY <1>2
<1>8. LossesBefore'
  BY <1>2, <1>3, <1>6, <1>7 DEF LossesBefore
<1>9. Balance'
  <2> SUFFICES ASSUME NEW j \in 1..5
               PROVE  /\ Len(exactList')  - Owed(j)'
                           <= equalCount'[Schemes[j]] + Cardinality(losses'[Schemes[j]])
                      /\ equalCount'[Schemes[j]] + Owed(j)'
                           <= Len(exactList') + laxes'[Schemes[j]]
    BY DEF Balance
  <2>1. equalCount[Schemes[j]] \in Nat /\ laxes[Schemes[j]] \in Nat
    BY SchemeSet DEF DriverTypeOK
  <2>2. /\ Len(exactList)
             <= equalCount[Schemes[j]] + Cardinality(losses[Schemes[j]])
        /\ equalCount[Schemes[j]] <= Len(exactList) + laxes[Schemes[j]]
    <3>1. /\ Len(exactList) - 0
               <= equalCount[Schemes[j]] + Cardinality(losses[Schemes[j]])
          /\ equalCount[Schemes[j]] + 0 <= Len(exactList) + laxes[Schemes[j]]
      BY <1>6 DEF Balance
    <3>2. Len(exactList) - 0 = Len(exactList)
          /\ equalCount[Schemes[j]] + 0 = equalCount[Schemes[j]]
      BY <1>2, <2>1
    <3> QED
      BY <3>1, <3>2
  <2> DEFINE o == IF x = y THEN 1 ELSE 0
  <2>3. o \in {0, 1} /\ Owed(j)' = o /\ Len(exactList') = Len(exactList) + o
        /\ Len(exactList') - o = Len(exactList)
    BY <1>2, <1>6, <1>7
  <2> HIDE DEF o
  <2>4. equalCount[Schemes[j]] + o <= Len(exactList) + o + laxes[Schemes[j]]
    BY <1>2, <2>1, <2>2, <2>3
  <2>5. Len(exactList') - Owed(j)'
          <= equalCount[Schemes[j]] + Cardinality(losses[Schemes[j]])
    BY <2>2, <2>3
  <2> QED
    BY <1>3, <2>3, <2>4, <2>5
<1>10. BadKeys'
  <2>1. Asked(4)' = Asked(4)
    BY <1>3 DEF Asked
  <2> QED
    BY <1>3, <2>1 DEF BadKeys
<1> QED
  BY <1>4, <1>5, <1>8, <1>9, <1>10

(* What a call answers: who may err is noted, and what a scheme does for   *)
(* certain.                                                                *)
LEMMA AnswerFacts ==
  ASSUME DriverInv, pc = "test", NEW d \in DrawnBy(Schemes[at]),
         NEW accepted \in Answers(Schemes[at], random10A, random10B, d)
  PROVE  /\ accepted \in BOOLEAN
         /\ random10A = random10B /\ ~accepted => Lossy(Schemes[at], d)
         /\ random10A # random10B /\ accepted
              => Lax(Schemes[at], random10A, random10B, d)
         /\ Schemes[at] = "gm"
              => (accepted <=> random10A = random10B /\ key["gm"].sound)
         /\ Schemes[at] = "ece" /\ random10A = random10B => accepted
         /\ Schemes[at] = "ns" /\ ~key["ns"].sound => ~accepted
         /\ Schemes[at] = "ou" /\ ~key["ou"].sound => accepted
         /\ Schemes[at] = "ou" => ~Lossy(Schemes[at], d)
<1> DEFINE sc == Schemes[at]
           zero == Annihilated(sc, random10A, random10B, d)
<1>1. at \in 1..5 /\ sc \in ToSet(Schemes)
  BY SchemeSet DEF DriverInv, DriverTypeOK
<1>2. random10A \in Nat /\ random10B \in Nat
  BY NumbersAssumption DEF DriverInv, Started
<1>3. sc \in Blinding /\ random10A = random10B => zero
  <2> SUFFICES ASSUME sc \in Blinding, random10A = random10B PROVE zero
    OBVIOUS
  <2>1. key[sc] \in Keys[sc] /\ key[sc].m \in Nat \ {0}
    BY <1>1 DEF DriverInv, KeysChosen, DriverTypeOK, KeyRecords
  <2>2. d.s \in Nat
    BY <2>1, ScalarsAssumption DEF DrawnBy
  <2>3. random10A - random10B = 0 /\ d.s * 0 = 0 /\ 0 % key[sc].m = 0
    BY <1>2, <2>1, <2>2
  <2> QED
    BY <2>3 DEF Annihilated
<1>4. key[sc].sound \in BOOLEAN /\ d.alice \in BOOLEAN /\ d.bob \in BOOLEAN
  <2>1. key[sc] \in KeyRecords
    BY <1>1 DEF DriverInv, DriverTypeOK
  <2> QED
    BY <2>1 DEF KeyRecords, DrawnBy
<1>5. zero \in BOOLEAN
  BY DEF Annihilated
<1>6. CASE sc = "gm"
  BY <1>4, <1>6 DEF Answers, Lossy
<1>7. CASE sc = "paillier"
  <2>1. random10A = random10B => zero
    BY <1>3, <1>7 DEF Blinding
  <2>2. accepted \in (IF ~d.bob THEN {TRUE}
                      ELSE IF key[sc].sound /\ d.alice THEN {zero}
                      ELSE {TRUE, d.s = 0})
    BY <1>7 DEF Answers
  <2>3. /\ Lossy(sc, d) <=> d.bob /\ d.s # 0 /\ ~(key[sc].sound /\ d.alice)
        /\ Lax(sc, random10A, random10B, d)
             <=> zero \/ ~(key[sc].sound /\ d.alice /\ d.bob)
    BY <1>7 DEF Lossy, Lax
  <2> QED
    BY <1>4, <1>5, <1>7, <2>1, <2>2, <2>3
<1>8. CASE sc = "ece"
  BY <1>3, <1>5, <1>8 DEF Answers, Lossy, Lax, Blinding
<1>9. CASE sc = "ou"
  BY <1>3, <1>4, <1>5, <1>9 DEF Answers, Lossy, Lax, Blinding
<1>10. CASE sc = "ns"
  BY <1>3, <1>4, <1>5, <1>10 DEF Answers, Lossy, Lax, Blinding
<1>11. sc \in {"gm", "paillier", "ece", "ou", "ns"}
  BY <1>1, SchemeNames
<1> QED
  BY <1>6, <1>7, <1>8, <1>9, <1>10, <1>11, Zenon

LEMMA Recorded ==
  ASSUME DriverTypeOK, NEW sc \in ToSet(Schemes), Record(sc),
         random10A \in Numbers, random10B \in Numbers
  PROVE  /\ listA' \in [ToSet(Schemes) -> Seq(Numbers)]
         /\ listB' \in [ToSet(Schemes) -> Seq(Numbers)]
         /\ equalCount' \in [ToSet(Schemes) -> Nat]
         /\ equalCount'[sc] = equalCount[sc] + 1
         /\ Len(listA'[sc]) = Len(listA[sc]) + 1
         /\ \A other \in ToSet(Schemes) \ {sc} :
              /\ equalCount'[other] = equalCount[other]
              /\ listA'[other] = listA[other]
<1>1. /\ listA[sc] \in Seq(Numbers) /\ listB[sc] \in Seq(Numbers)
      /\ equalCount[sc] \in Nat
  BY DEF DriverTypeOK
<1>2. /\ Append(listA[sc], random10A) \in Seq(Numbers)
      /\ Append(listB[sc], random10B) \in Seq(Numbers)
      /\ Len(Append(listA[sc], random10A)) = Len(listA[sc]) + 1
  BY <1>1
<1>3. /\ listA' = [listA EXCEPT ![sc] = Append(listA[sc], random10A)]
      /\ \/ listB' = listB
         \/ listB' = [listB EXCEPT ![sc] = Append(listB[sc], random10B)]
      /\ equalCount' = [equalCount EXCEPT ![sc] = equalCount[sc] + 1]
  BY DEF Record
<1>4. /\ listA' \in [ToSet(Schemes) -> Seq(Numbers)]
      /\ listA'[sc] = Append(listA[sc], random10A)
      /\ \A other \in ToSet(Schemes) \ {sc} : listA'[other] = listA[other]
  BY <1>2, <1>3 DEF DriverTypeOK
<1>5. listB' \in [ToSet(Schemes) -> Seq(Numbers)]
  BY <1>2, <1>3 DEF DriverTypeOK
<1>6. /\ equalCount[sc] + 1 \in Nat
      /\ equalCount \in [ToSet(Schemes) -> Nat]
  BY <1>1 DEF DriverTypeOK
<1>7. /\ equalCount' \in [ToSet(Schemes) -> Nat]
      /\ equalCount'[sc] = equalCount[sc] + 1
      /\ \A other \in ToSet(Schemes) \ {sc} :
           equalCount'[other] = equalCount[other]
  BY <1>3, <1>6
<1> QED
  BY <1>2, <1>4, <1>5, <1>7

(* The history after a call.                                               *)
LEMMA Noted ==
  ASSUME DriverTypeOK, NEW sc \in ToSet(Schemes), NEW d, Note(sc, d),
         EqualListed, pc = "test"
  PROVE  /\ losses' \in [ToSet(Schemes) -> SUBSET DOMAIN exactList]
         /\ laxes' \in [ToSet(Schemes) -> Nat]
         /\ losses'[sc] = IF random10A = random10B /\ Lossy(sc, d)
                          THEN losses[sc] \cup {Len(exactList)} ELSE losses[sc]
         /\ laxes'[sc] = IF random10A # random10B
                               /\ Lax(sc, random10A, random10B, d)
                         THEN laxes[sc] + 1 ELSE laxes[sc]
         /\ \A other \in ToSet(Schemes) \ {sc} :
              losses'[other] = losses[other] /\ laxes'[other] = laxes[other]
<1>1. /\ losses \in [ToSet(Schemes) -> SUBSET DOMAIN exactList]
      /\ laxes \in [ToSet(Schemes) -> Nat]
      /\ DOMAIN exactList = 1..Len(exactList) /\ Len(exactList) \in Nat
  BY DEF DriverTypeOK
<1>2. random10A = random10B => Len(exactList) \in DOMAIN exactList
  <2> SUFFICES ASSUME random10A = random10B PROVE Len(exactList) \in 1..Len(exactList)
    BY <1>1
  <2>1. exactList # <<>> /\ exactList \in Seq(Numbers)
    BY DEF EqualListed, DriverTypeOK
  <2>2. Len(exactList) # 0
    BY <2>1
  <2> QED
    BY <1>1, <2>2
<1>3. laxes[sc] + 1 \in Nat
  BY <1>1
<1>4. /\ losses' = IF random10A = random10B /\ Lossy(sc, d)
                   THEN [losses EXCEPT ![sc] = losses[sc] \cup {Len(exactList)}]
                   ELSE losses
      /\ laxes' = IF random10A # random10B /\ Lax(sc, random10A, random10B, d)
                  THEN [laxes EXCEPT ![sc] = laxes[sc] + 1] ELSE laxes
  BY DEF Note
<1>5. /\ losses' \in [ToSet(Schemes) -> SUBSET DOMAIN exactList]
      /\ losses'[sc] = IF random10A = random10B /\ Lossy(sc, d)
                       THEN losses[sc] \cup {Len(exactList)} ELSE losses[sc]
      /\ \A other \in ToSet(Schemes) \ {sc} : losses'[other] = losses[other]
  <2>1. CASE random10A = random10B /\ Lossy(sc, d)
    BY <1>1, <1>2, <1>4, <2>1
  <2>2. CASE ~(random10A = random10B /\ Lossy(sc, d))
    BY <1>1, <1>4, <2>2
  <2> QED
    BY <2>1, <2>2
<1>6. /\ laxes' \in [ToSet(Schemes) -> Nat]
      /\ laxes'[sc] = IF random10A # random10B
                            /\ Lax(sc, random10A, random10B, d)
                      THEN laxes[sc] + 1 ELSE laxes[sc]
      /\ \A other \in ToSet(Schemes) \ {sc} : laxes'[other] = laxes[other]
  <2>1. CASE random10A # random10B /\ Lax(sc, random10A, random10B, d)
    BY <1>1, <1>3, <1>4, <2>1
  <2>2. CASE ~(random10A # random10B /\ Lax(sc, random10A, random10B, d))
    BY <1>1, <1>4, <2>2
  <2> QED
    BY <2>1, <2>2
<1> QED
  BY <1>5, <1>6

(* Who is still owed a question after one.                                 *)
LEMMA OwedAfter ==
  ASSUME DriverTypeOK, Test
  PROVE  /\ Owed(at) = (IF random10A = random10B THEN 1 ELSE 0)
         /\ \A j \in 1..5 : Owed(j)' = IF j # at THEN Owed(j) ELSE 0
         /\ \A j \in 1..5 : Asked(j)' = IF j # at THEN Asked(j) ELSE Asked(j) + 1
<1>1. /\ at \in 1..5 /\ pc = "test" /\ iteration \in Nat
      /\ UNCHANGED <<random10A, random10B>>
      /\ at < 5 => at' = at + 1 /\ pc' = "test" /\ iteration' = iteration
      /\ at = 5 => at' = 1 /\ pc' = "draw" /\ iteration' = iteration + 1
  <2>1. at \in 1..5 /\ Len(Schemes) = 5
    BY SchemeSet DEF DriverTypeOK
  <2>2. iteration \in Nat
    BY IterationsAssumption DEF DriverTypeOK
  <2> QED
    BY <2>1, <2>2 DEF Test
<1>2. Owed(at) = IF random10A = random10B THEN 1 ELSE 0
  BY <1>1 DEF Owed
<1>3. ASSUME NEW j \in 1..5 PROVE Owed(j)' = IF j # at THEN Owed(j) ELSE 0
  <2>1. CASE at < 5
    BY <1>1, <2>1 DEF Owed
  <2>2. CASE at = 5
    BY <1>1, <2>2 DEF Owed
  <2> QED
    BY <1>1, <2>1, <2>2
<1>4. ASSUME NEW j \in 1..5
      PROVE  Asked(j)' = IF j # at THEN Asked(j) ELSE Asked(j) + 1
  <2>1. CASE at < 5
    BY <1>1, <2>1 DEF Asked
  <2>2. CASE at = 5
    BY <1>1, <2>2 DEF Asked
  <2> QED
    BY <1>1, <2>1, <2>2
<1> QED
  BY <1>2, <1>3, <1>4

LEMMA TestIInv == ASSUME DriverInv, Test PROVE DriverInv'
<1> USE DEF DriverInv
<1> DEFINE sc == Schemes[at]
<1>1. at \in 1..5 /\ sc \in ToSet(Schemes) /\ pc = "test"
  BY SchemeSet DEF DriverTypeOK, Test
<1>2. PICK d \in DrawnBy(sc) : \E accepted \in Answers(sc, random10A, random10B, d) :
        /\ IF accepted THEN Record(sc) ELSE UNCHANGED <<listA, listB, equalCount>>
        /\ Note(sc, d)
  BY DEF Test
<1>3. PICK accepted \in Answers(sc, random10A, random10B, d) :
        /\ IF accepted THEN Record(sc) ELSE UNCHANGED <<listA, listB, equalCount>>
        /\ Note(sc, d)
  BY <1>2
<1>4. random10A \in Numbers /\ random10B \in Numbers /\ iteration < Iterations
  BY <1>1 DEF Started
<1>5. /\ accepted \in BOOLEAN
      /\ random10A = random10B /\ ~accepted => Lossy(sc, d)
      /\ random10A # random10B /\ accepted => Lax(sc, random10A, random10B, d)
      /\ sc = "gm" => (accepted <=> random10A = random10B /\ key["gm"].sound)
      /\ sc = "ns" /\ ~key["ns"].sound => ~accepted
      /\ sc = "ou" /\ ~key["ou"].sound => accepted
      /\ sc = "ou" => ~Lossy(sc, d)
  BY <1>1, AnswerFacts
<1>6. /\ UNCHANGED <<key, random10A, random10B, exactList>>
      /\ at < 5 => at' = at + 1 /\ pc' = "test" /\ iteration' = iteration
      /\ at = 5 => at' = 1 /\ pc' = "draw" /\ iteration' = iteration + 1
  BY <1>1, SchemeSet DEF Test
<1>7. /\ listA' \in [ToSet(Schemes) -> Seq(Numbers)]
      /\ listB' \in [ToSet(Schemes) -> Seq(Numbers)]
      /\ equalCount' \in [ToSet(Schemes) -> Nat]
      /\ equalCount'[sc] = equalCount[sc] + (IF accepted THEN 1 ELSE 0)
      /\ Len(listA'[sc]) = Len(listA[sc]) + (IF accepted THEN 1 ELSE 0)
      /\ \A other \in ToSet(Schemes) \ {sc} :
           equalCount'[other] = equalCount[other] /\ listA'[other] = listA[other]
  <2>1. CASE accepted
    BY <1>1, <1>3, <1>4, <2>1, Recorded
  <2>2. CASE ~accepted
    <3>1. equalCount[sc] \in Nat /\ Len(listA[sc]) \in Nat
      BY <1>1 DEF DriverTypeOK
    <3> QED
      BY <1>3, <2>2, <3>1 DEF DriverTypeOK
  <2> QED
    BY <2>1, <2>2
<1>8. /\ losses' \in [ToSet(Schemes) -> SUBSET DOMAIN exactList]
      /\ laxes' \in [ToSet(Schemes) -> Nat]
      /\ losses'[sc] = IF random10A = random10B /\ Lossy(sc, d)
                       THEN losses[sc] \cup {Len(exactList)} ELSE losses[sc]
      /\ laxes'[sc] = IF random10A # random10B
                            /\ Lax(sc, random10A, random10B, d)
                      THEN laxes[sc] + 1 ELSE laxes[sc]
      /\ \A other \in ToSet(Schemes) \ {sc} :
           losses'[other] = losses[other] /\ laxes'[other] = laxes[other]
  BY <1>1, <1>3, Noted
<1>9. /\ Owed(at) = (IF random10A = random10B THEN 1 ELSE 0)
      /\ \A j \in 1..5 : Owed(j)' = IF j # at THEN Owed(j) ELSE 0
      /\ \A j \in 1..5 : Asked(j)' = IF j # at THEN Asked(j) ELSE Asked(j) + 1
  BY OwedAfter
<1>10. DriverTypeOK'
  <2>1. at' \in 1..5 /\ pc' \in {"draw", "test"}
    BY <1>1, <1>6
  <2>2. iteration' \in 0..Iterations
    BY <1>1, <1>4, <1>6, IterationsAssumption DEF DriverTypeOK
  <2> QED
    BY <1>6, <1>7, <1>8, <2>1, <2>2, SchemeSet DEF DriverTypeOK
<1>11. Started' /\ KeysChosen' /\ EqualListed'
  <2>1. pc' # "keygen" /\ pc' # "end"
    BY <1>1, <1>6
  <2>2. Started'
    BY <1>1, <1>4, <1>6, <2>1 DEF Started
  <2> QED
    BY <1>1, <1>6, <2>1, <2>2 DEF KeysChosen, EqualListed
<1>12. Lengths'
  <2> SUFFICES ASSUME NEW other \in ToSet(Schemes)
               PROVE  equalCount'[other] = Len(listA'[other])
    BY DEF Lengths
  <2>1. equalCount[other] = Len(listA[other])
    BY DEF Lengths
  <2> QED
    BY <1>7, <2>1
<1>13. \A j \in 1..5 : j # at => Schemes[j] \in ToSet(Schemes) \ {sc}
  BY <1>1, SchemeSet
<1>14. Len(exactList) \in Nat
  BY DEF DriverTypeOK
<1>15. losses[sc] \subseteq 1..(Len(exactList) - Owed(at))
  BY <1>1 DEF LossesBefore
<1>16. LossesBefore'
  <2>1. losses'["ou"] = {}
    <3>1. losses["ou"] = {}
      BY DEF LossesBefore
    <3>2. CASE sc = "ou"
      BY <1>5, <1>8, <3>1, <3>2
    <3>3. CASE sc # "ou"
      BY <1>8, <3>1, <3>3, SchemeNames
    <3> QED
      BY <3>2, <3>3
  <2>2. ASSUME NEW j \in 1..5
        PROVE  losses'[Schemes[j]] \subseteq 1..(Len(exactList') - Owed(j)')
    <3>1. CASE j = at
      <4>1. losses'[sc] \subseteq DOMAIN exactList
        BY <1>1, <1>8
      <4>2. Len(exactList') - Owed(j)' = Len(exactList)
        BY <1>6, <1>9, <1>14, <3>1
      <4>3. DOMAIN exactList = 1..Len(exactList)
        BY DEF DriverTypeOK
      <4> QED
        BY <3>1, <4>1, <4>2, <4>3
    <3>2. CASE j # at
      BY <1>6, <1>8, <1>9, <1>13, <3>2 DEF LossesBefore
    <3> QED
      BY <3>1, <3>2
  <2> QED
    BY <2>1, <2>2 DEF LossesBefore
<1>17. Balance'
  <2> SUFFICES ASSUME NEW j \in 1..5
               PROVE  /\ Len(exactList) - Owed(j)'
                           <= equalCount'[Schemes[j]] + Cardinality(losses'[Schemes[j]])
                      /\ equalCount'[Schemes[j]] + Owed(j)'
                           <= Len(exactList) + laxes'[Schemes[j]]
    BY <1>6 DEF Balance
  <2>1. /\ Len(exactList) - Owed(j)
             <= equalCount[Schemes[j]] + Cardinality(losses[Schemes[j]])
        /\ equalCount[Schemes[j]] + Owed(j)
             <= Len(exactList) + laxes[Schemes[j]]
    BY DEF Balance
  <2>2. CASE j # at
    BY <1>8, <1>7, <1>9, <1>13, <2>1, <2>2
  <2>3. CASE j = at
    <3> DEFINE L == Len(exactList)  c == equalCount[sc]  x == laxes[sc]
               l == Cardinality(losses[sc])
    <3>1. L \in Nat /\ c \in Nat /\ x \in Nat /\ Owed(j)' = 0
      BY <1>1, <1>9, <1>14, <2>3 DEF DriverTypeOK
    <3>2. IsFiniteSet(losses[sc]) /\ l \in Nat
      <4>1. IsFiniteSet(1..(L - Owed(at)))
        BY <1>9, <3>1, FS_Interval
      <4>2. IsFiniteSet(losses[sc])
        BY <1>15, <4>1, FS_Subset
      <4> QED
        BY <4>2, FS_CardinalityType
    <3>3. random10A = random10B /\ Lossy(sc, d) => Cardinality(losses'[sc]) = l + 1
      <4> SUFFICES ASSUME random10A = random10B, Lossy(sc, d)
                   PROVE  Cardinality(losses[sc] \cup {L}) = l + 1
        BY <1>8
      <4>1. losses[sc] \subseteq 1..(L - 1)
        BY <1>9, <1>15
      <4>2. L \notin losses[sc]
        BY <3>1, <4>1
      <4> QED
        BY <3>2, <4>2, FS_AddElement
    <3>4. ~(random10A = random10B /\ Lossy(sc, d)) => Cardinality(losses'[sc]) = l
      BY <1>8
    <3>5. /\ L - (IF random10A = random10B THEN 1 ELSE 0) <= c + l
          /\ c + (IF random10A = random10B THEN 1 ELSE 0) <= L + x
      BY <1>9, <2>1, <2>3
    <3>6. /\ equalCount'[sc] = c + (IF accepted THEN 1 ELSE 0)
          /\ laxes'[sc] = IF random10A # random10B
                                /\ Lax(sc, random10A, random10B, d)
                          THEN x + 1 ELSE x
      BY <1>7, <1>8
    <3> HIDE DEF L, c, x, l
    <3>7. /\ L <= equalCount'[sc] + Cardinality(losses'[sc])
          /\ equalCount'[sc] <= L + laxes'[sc]
      <4>1. CASE random10A = random10B /\ accepted
        BY <3>1, <3>2, <3>3, <3>4, <3>5, <3>6, <4>1
      <4>2. CASE random10A = random10B /\ ~accepted
        BY <1>5, <3>1, <3>2, <3>3, <3>5, <3>6, <4>2
      <4>3. CASE random10A # random10B
        BY <1>5, <3>1, <3>2, <3>4, <3>5, <3>6, <4>3
      <4> QED
        BY <1>5, <4>1, <4>2, <4>3
    <3>8. L - Owed(j)' = L /\ equalCount'[sc] + Owed(j)' = equalCount'[sc]
      BY <3>1, <3>6
    <3> QED
      BY <2>3, <3>7, <3>8 DEF L
  <2> QED
    BY <2>2, <2>3
<1>18. BadKeys'
  <2>1. ASSUME NEW other \in {"gm", "ns"}, ~key[other].sound
        PROVE  equalCount'[other] = 0
    <3>1. equalCount[other] = 0 /\ other \in ToSet(Schemes)
      BY <2>1, SchemeNames DEF BadKeys
    <3>2. CASE other = sc
      BY <1>5, <1>7, <2>1, <3>1, <3>2
    <3>3. CASE other # sc
      BY <1>7, <3>1, <3>3
    <3> QED
      BY <3>2, <3>3
  <2>2. ASSUME ~key["ou"].sound PROVE equalCount'["ou"] = Asked(4)'
    <3>1. equalCount["ou"] = Asked(4) /\ Asked(4) \in Nat
      BY <1>1, <2>2 DEF BadKeys, Asked, DriverTypeOK
    <3>2. CASE at = 4
      <4>1. sc = "ou" /\ accepted
        BY <1>5, <2>2, <3>2, SchemeNames
      <4>2. equalCount'["ou"] = equalCount["ou"] + 1
        BY <1>7, <4>1
      <4>3. Asked(4)' = Asked(4) + 1
        BY <1>9, <3>2
      <4> QED
        BY <3>1, <4>2, <4>3
    <3>3. CASE at # 4
      <4>1. "ou" \in ToSet(Schemes) \ {sc}
        BY <1>13, <3>3, SchemeNames
      <4>2. Asked(4)' = Asked(4)
        BY <1>9, <3>3
      <4> QED
        BY <1>7, <3>1, <4>1, <4>2
    <3> QED
      BY <3>2, <3>3
  <2> QED
    BY <1>6, <2>1, <2>2 DEF BadKeys
<1> QED
  BY <1>10, <1>11, <1>12, <1>16, <1>17, <1>18

LEMMA ReportIInv == ASSUME DriverInv, Report PROVE DriverInv'
<1> USE DEF DriverInv
<1>1. /\ pc = "draw" /\ pc' = "end" /\ iteration >= Iterations
      /\ UNCHANGED <<at, key, iteration, random10A, random10B, exactList,
                     listA, listB, equalCount, losses, laxes>>
  BY DEF Report, history
<1>2. /\ \A j \in 1..5 : Owed(j)' = Owed(j)
      /\ Asked(4)' = Asked(4)
  BY <1>1 DEF Owed, Asked
<1>3. iteration = Iterations
  BY <1>1, IterationsAssumption DEF DriverTypeOK
<1>4. DriverTypeOK' /\ Started' /\ KeysChosen' /\ EqualListed' /\ Lengths'
  BY <1>1, <1>3 DEF DriverTypeOK, Started, KeysChosen, EqualListed, Lengths
<1>5. LossesBefore' /\ Balance' /\ BadKeys'
  BY <1>1, <1>2 DEF LossesBefore, Balance, BadKeys
<1> QED
  BY <1>4, <1>5

LEMMA StutterIInv == ASSUME DriverInv, UNCHANGED driverVars PROVE DriverInv'
<1> USE DEF DriverInv
<1>1. UNCHANGED <<pc, at, key, iteration, random10A, random10B, exactList,
                  listA, listB, equalCount, losses, laxes>>
  BY DEF driverVars, history
<1>2. /\ \A j \in 1..5 : Owed(j)' = Owed(j)
      /\ Asked(4)' = Asked(4)
  BY <1>1 DEF Owed, Asked
<1>3. DriverTypeOK' /\ Started' /\ KeysChosen' /\ EqualListed' /\ Lengths'
  BY <1>1 DEF DriverTypeOK, Started, KeysChosen, EqualListed, Lengths
<1>4. LossesBefore' /\ Balance' /\ BadKeys'
  BY <1>1, <1>2 DEF LossesBefore, Balance, BadKeys
<1> QED
  BY <1>3, <1>4

LEMMA DriverInvariance == DriverSpec => []DriverInv
<1>1. DriverInv /\ [DriverNext]_driverVars => DriverInv'
  BY KeyGenIInv, DrawIInv, TestIInv, ReportIInv, StutterIInv DEF DriverNext
<1> QED
  BY InitDriverInv, <1>1, PTL DEF DriverSpec

(***************************************************************************)
(* The driver keeps its types, for any number of iterations.               *)
(***************************************************************************)
THEOREM DriverTypeCorrect == DriverSpec => []DriverTypeOK
<1>1. DriverInv => DriverTypeOK
  BY DEF DriverInv
<1> QED
  BY <1>1, DriverInvariance, PTL

(***************************************************************************)
(* The counts main prints at the end are the lengths of its lists, and are *)
(* off the length of exactList by no more than the calls in which the key, *)
(* the scalar or the random numbers drawn can make the scheme err.  A g    *)
(* without inverse shows: GM and NS then count nothing, OU every call.     *)
(***************************************************************************)
THEOREM CountsCorrect == DriverSpec => []CountsExplained
<1>1. DriverInv => CountsExplained
  <2> SUFFICES ASSUME DriverInv, pc = "end" PROVE CountsExplained
    BY DEF CountsExplained
  <2>1. ASSUME NEW sc \in ToSet(Schemes)
        PROVE  /\ equalCount[sc] = Len(listA[sc])
               /\ Len(exactList) <= equalCount[sc] + Cardinality(losses[sc])
               /\ equalCount[sc] <= Len(exactList) + laxes[sc]
    <3>1. PICK j \in 1..5 : Schemes[j] = sc
      BY SchemeSet
    <3>2. Owed(j) = 0
      BY DEF Owed
    <3>3. equalCount[sc] \in Nat /\ Len(exactList) \in Nat
      BY DEF DriverInv, DriverTypeOK
    <3>4. /\ Len(exactList) - 0 <= equalCount[sc] + Cardinality(losses[sc])
          /\ equalCount[sc] + 0 <= Len(exactList) + laxes[sc]
      BY <3>1, <3>2 DEF DriverInv, Balance
    <3> QED
      BY <3>3, <3>4 DEF DriverInv, Lengths
  <2>2. Asked(4) = Iterations
    BY IterationsAssumption DEF DriverInv, Started, Asked
  <2> QED
    BY <2>1, <2>2 DEF DriverInv, BadKeys, CountsExplained
<1> QED
  BY <1>1, DriverInvariance, PTL

----------------------------------------------------------------------------

LEMMA Appended ==
  ASSUME NEW S, NEW a \in Seq(S), NEW x \in S
  PROVE  /\ Len(a) \in Nat /\ Len(Append(a, x)) = Len(a) + 1
         /\ 1..Len(a) \subseteq 1..(Len(a) + 1) /\ Len(a) + 1 \in 1..(Len(a) + 1)
         /\ \A p \in 1..Len(a) : Append(a, x)[p] = a[p]
         /\ Append(a, x)[Len(a) + 1] = x
         /\ \A p \in 1..(Len(a) + 1) : p \in 1..Len(a) \/ p = Len(a) + 1
         /\ \A p \in 1..Len(a) : p < Len(a) + 1 /\ p # Len(a) + 1
<1>1. Len(a) \in Nat
  OBVIOUS
<1>2. Len(Append(a, x)) = Len(a) + 1
  OBVIOUS
<1>3. \A p \in 1..Len(a) : Append(a, x)[p] = a[p]
  OBVIOUS
<1>4. Append(a, x)[Len(a) + 1] = x
  OBVIOUS
<1> DEFINE L == Len(a)
<1> HIDE DEF L
<1>5. /\ 1..L \subseteq 1..(L + 1) /\ L + 1 \in 1..(L + 1)
      /\ \A p \in 1..(L + 1) : p \in 1..L \/ p = L + 1
      /\ \A p \in 1..L : p < L + 1 /\ p # L + 1
  BY <1>1 DEF L
<1> QED
  BY <1>1, <1>2, <1>3, <1>4, <1>5 DEF L

(* The list a has met the first n numbers of e in their order, where f     *)
(* says: what the list of ECE does.                                        *)
Meeting(f, e, n, a) ==
  /\ f \in [1..n -> 1..Len(a)]
  /\ \A j, k \in 1..n : j < k => f[j] < f[k]
  /\ \A j \in 1..n : e[j] = a[f[j]]

Meets(e, n, a) == \E f : Meeting(f, e, n, a)

(* Where the lists a and b agree they have numbers of the first n of e in  *)
(* their order, where f says, and all but those of the set l.              *)
Agree(a, b) == {p \in 1..Len(a) : a[p] = b[p]}

Tracking(f, e, n, a, b, l) ==
  /\ f \in [Agree(a, b) -> 1..n]
  /\ \A p, r \in Agree(a, b) : p < r => f[p] < f[r]
  /\ \A p \in Agree(a, b) : a[p] = e[f[p]]
  /\ \A j \in (1..n) \ l : \E p \in Agree(a, b) : f[p] = j

Tracks(e, n, a, b, l) == \E f : Tracking(f, e, n, a, b, l)

LEMMA NothingMet ==
  ASSUME NEW e, NEW l PROVE Meets(e, 0, <<>>) /\ Tracks(e, 0, <<>>, <<>>, l)
<1> DEFINE f == [j \in 1..0 |-> 0]
<1>1. 1..0 = {} /\ Len(<<>>) = 0
  OBVIOUS
<1>2. Agree(<<>>, <<>>) = {}
  BY <1>1 DEF Agree
<1>3. f \in [{} -> 1..0] /\ f \in [1..0 -> 1..0]
  BY <1>1
<1> HIDE DEF f
<1>4. Meeting(f, e, 0, <<>>)
  BY <1>1, <1>3 DEF Meeting
<1>5. Tracking(f, e, 0, <<>>, <<>>, l)
  BY <1>1, <1>2, <1>3 DEF Tracking
<1> QED
  BY <1>4, <1>5 DEF Meets, Tracks

(* Only the first n numbers matter.                                        *)
LEMMA SameMet ==
  ASSUME NEW e, NEW d, NEW n, NEW a, NEW b, NEW l, \A j \in 1..n : d[j] = e[j]
  PROVE  /\ Meets(e, n, a) => Meets(d, n, a)
         /\ Tracks(e, n, a, b, l) => Tracks(d, n, a, b, l)
<1>1. ASSUME NEW f, Meeting(f, e, n, a) PROVE Meeting(f, d, n, a)
  BY <1>1 DEF Meeting
<1>2. ASSUME NEW f, Tracking(f, e, n, a, b, l) PROVE Tracking(f, d, n, a, b, l)
  <2>1. \A p \in Agree(a, b) : f[p] \in 1..n
    BY <1>2 DEF Tracking
  <2> QED
    BY <1>2, <2>1 DEF Tracking
<1> QED
  BY <1>1, <1>2 DEF Meets, Tracks

(* The next number of e is listed.                                         *)
LEMMA MeetsNext ==
  ASSUME NEW S, NEW a \in Seq(S), NEW x \in S,
         NEW n \in Nat, NEW e, e[n + 1] = x, Meets(e, n, a)
  PROVE  Meets(e, n + 1, Append(a, x))
<1>1. PICK f : Meeting(f, e, n, a)
  BY DEF Meets
<1> DEFINE L == Len(a)  A == Append(a, x)
           g == [j \in 1..(n + 1) |-> IF j = n + 1 THEN L + 1 ELSE f[j]]
<1>2. /\ L \in Nat /\ Len(A) = L + 1
      /\ 1..L \subseteq 1..(L + 1) /\ L + 1 \in 1..(L + 1)
      /\ \A p \in 1..L : A[p] = a[p]
      /\ A[L + 1] = x
      /\ \A p \in 1..L : p < L + 1
  BY Appended
<1>3. /\ f \in [1..n -> 1..L]
      /\ \A j, k \in 1..n : j < k => f[j] < f[k]
      /\ \A j \in 1..n : e[j] = a[f[j]]
  BY <1>1 DEF Meeting
<1> HIDE DEF L, A
<1>4. /\ \A j \in 1..(n + 1) : j \in 1..n \/ j = n + 1
      /\ 1..n \subseteq 1..(n + 1) /\ n + 1 \in 1..(n + 1)
      /\ \A j \in 1..n : j # n + 1 /\ ~(n + 1 < j)
      /\ ~(n + 1 < n + 1)
  OBVIOUS
<1>5. /\ \A j \in 1..n : g[j] = f[j]
      /\ g[n + 1] = L + 1
      /\ DOMAIN g = 1..(n + 1)
  BY <1>4
<1>6. g \in [1..(n + 1) -> 1..(L + 1)]
  BY <1>2, <1>3, <1>4
<1> HIDE DEF g
<1>7. \A j, k \in 1..(n + 1) : j < k => g[j] < g[k]
  <2> SUFFICES ASSUME NEW j \in 1..(n + 1), NEW k \in 1..(n + 1), j < k
               PROVE  g[j] < g[k]
    OBVIOUS
  <2>1. j \in 1..n
    BY <1>4
  <2>2. g[j] = f[j] /\ f[j] < L + 1
    BY <1>2, <1>3, <1>5, <2>1
  <2>3. CASE k \in 1..n
    <3>1. f[j] < f[k] /\ g[k] = f[k]
      BY <1>3, <1>5, <2>1, <2>3
    <3> QED
      BY <2>2, <3>1
  <2>4. CASE k = n + 1
    BY <1>5, <2>2, <2>4
  <2>5. k \in 1..n \/ k = n + 1
    BY <1>4
  <2> QED
    BY <2>3, <2>4, <2>5, Zenon
<1>8. \A j \in 1..(n + 1) : e[j] = A[g[j]]
  <2>1. \A j \in 1..n : f[j] \in 1..L
    BY <1>3
  <2>2. \A j \in 1..n : e[j] = A[g[j]]
    BY <1>2, <1>3, <1>5, <2>1
  <2>3. e[n + 1] = A[g[n + 1]]
    BY <1>2, <1>5
  <2> QED
    BY <1>4, <2>2, <2>3
<1>9. Meeting(g, e, n + 1, A)
  BY <1>2, <1>6, <1>7, <1>8 DEF Meeting
<1> QED
  BY <1>9 DEF Meets, A

(* Something else is listed.                                               *)
LEMMA MeetsMore ==
  ASSUME NEW S, NEW a \in Seq(S), NEW x \in S, NEW n, NEW e, Meets(e, n, a)
  PROVE  Meets(e, n, Append(a, x))
<1>1. PICK f : Meeting(f, e, n, a)
  BY DEF Meets
<1> DEFINE L == Len(a)  A == Append(a, x)
<1>2. /\ Len(A) = L + 1 /\ 1..L \subseteq 1..(L + 1)
      /\ \A p \in 1..L : A[p] = a[p]
  BY Appended
<1>3. /\ f \in [1..n -> 1..L]
      /\ \A j, k \in 1..n : j < k => f[j] < f[k]
      /\ \A j \in 1..n : e[j] = a[f[j]]
  BY <1>1 DEF Meeting
<1> HIDE DEF L, A
<1>4. f \in [1..n -> 1..(L + 1)] /\ \A j \in 1..n : e[j] = A[f[j]]
  BY <1>2, <1>3
<1>5. Meeting(f, e, n, A)
  BY <1>2, <1>3, <1>4 DEF Meeting
<1> QED
  BY <1>5 DEF Meets, A

(* The next number of e is listed in both lists.                           *)
LEMMA TracksMatch ==
  ASSUME NEW S, NEW a \in Seq(S), NEW b \in Seq(S), Len(b) = Len(a), NEW x \in S,
         NEW n \in Nat, NEW e, e[n + 1] = x, NEW l, NEW u, l \subseteq u,
         Tracks(e, n, a, b, l)
  PROVE  Tracks(e, n + 1, Append(a, x), Append(b, x), u)
<1>1. PICK f : Tracking(f, e, n, a, b, l)
  BY DEF Tracks
<1> DEFINE L == Len(a)  A == Append(a, x)  B == Append(b, x)
           G == Agree(a, b)
           g == [p \in G \cup {L + 1} |-> IF p = L + 1 THEN n + 1 ELSE f[p]]
<1>2. /\ L \in Nat /\ Len(A) = L + 1
      /\ 1..L \subseteq 1..(L + 1) /\ L + 1 \in 1..(L + 1)
      /\ \A p \in 1..L : A[p] = a[p] /\ B[p] = b[p]
      /\ A[L + 1] = x /\ B[L + 1] = x
      /\ \A p \in 1..(L + 1) : p \in 1..L \/ p = L + 1
      /\ \A p \in 1..L : p < L + 1 /\ p # L + 1
  BY Appended
<1>3. G = {p \in 1..L : a[p] = b[p]}
  BY DEF Agree
<1>4. /\ f \in [G -> 1..n]
      /\ \A p, r \in G : p < r => f[p] < f[r]
      /\ \A p \in G : a[p] = e[f[p]]
      /\ \A j \in (1..n) \ l : \E p \in G : f[p] = j
  BY <1>1 DEF Tracking
<1> HIDE DEF L, A, B, G
<1>5. Agree(A, B) = G \cup {L + 1}
  BY <1>2, <1>3 DEF Agree
<1>6. G \subseteq 1..L /\ L + 1 \notin G
  BY <1>2, <1>3
<1>7. /\ 1..n \subseteq 1..(n + 1) /\ n + 1 \in 1..(n + 1)
      /\ \A j \in 1..(n + 1) : j \in 1..n \/ j = n + 1
      /\ \A j \in 1..n : j < n + 1
  OBVIOUS
<1>8. /\ \A p \in G : g[p] = f[p]
      /\ g[L + 1] = n + 1
      /\ g \in [G \cup {L + 1} -> 1..(n + 1)]
  BY <1>4, <1>6, <1>7
<1> HIDE DEF g
<1>9. \A p, r \in G \cup {L + 1} : p < r => g[p] < g[r]
  <2> SUFFICES ASSUME NEW p \in G \cup {L + 1}, NEW r \in G \cup {L + 1}, p < r
               PROVE  g[p] < g[r]
    OBVIOUS
  <2>1. CASE p \in G /\ r \in G
    BY <1>4, <1>8, <2>1
  <2>2. CASE p \in G /\ r = L + 1
    BY <1>4, <1>7, <1>8, <2>2
  <2>3. CASE p = L + 1
    <3>1. r \in 1..(L + 1)
      BY <1>2, <1>6
    <3>2. ~(L + 1 < r)
      BY <1>2, <3>1
    <3> QED
      BY <2>3, <3>2
  <2> QED
    BY <2>1, <2>2, <2>3
<1>10. \A p \in G \cup {L + 1} : A[p] = e[g[p]]
  BY <1>2, <1>4, <1>6, <1>8
<1>11. \A j \in (1..(n + 1)) \ u : \E p \in G \cup {L + 1} : g[p] = j
  <2> SUFFICES ASSUME NEW j \in (1..(n + 1)) \ u
               PROVE  \E p \in G \cup {L + 1} : g[p] = j
    OBVIOUS
  <2>1. CASE j = n + 1
    BY <1>8, <2>1
  <2>2. CASE j \in (1..n) \ l
    BY <1>4, <1>8, <2>2
  <2> QED
    BY <1>7, <2>1, <2>2
<1>12. Tracking(g, e, n + 1, A, B, u)
  BY <1>5, <1>8, <1>9, <1>10, <1>11 DEF Tracking
<1> QED
  BY <1>12 DEF Tracks, A, B

(* A wrong acceptance, which the two lists show by disagreeing.            *)
LEMMA TracksMismatch ==
  ASSUME NEW S, NEW a \in Seq(S), NEW b \in Seq(S), Len(b) = Len(a),
         NEW x \in S, NEW y \in S, x # y,
         NEW n, NEW e, NEW l, Tracks(e, n, a, b, l)
  PROVE  Tracks(e, n, Append(a, x), Append(b, y), l)
<1>1. PICK f : Tracking(f, e, n, a, b, l)
  BY DEF Tracks
<1> DEFINE L == Len(a)  A == Append(a, x)  B == Append(b, y)
<1>2. /\ Len(A) = L + 1
      /\ 1..L \subseteq 1..(L + 1)
      /\ \A p \in 1..L : A[p] = a[p] /\ B[p] = b[p]
      /\ A[L + 1] = x /\ B[L + 1] = y
      /\ \A p \in 1..(L + 1) : p \in 1..L \/ p = L + 1
  BY Appended
<1>3. Agree(a, b) = {p \in 1..L : a[p] = b[p]}
  BY DEF Agree
<1> HIDE DEF L, A, B
<1>4. Agree(A, B) = Agree(a, b)
  <2>1. Agree(A, B) = {p \in 1..(L + 1) : A[p] = B[p]}
    BY <1>2 DEF Agree
  <2> QED
    BY <1>2, <1>3, <2>1
<1>5. \A p \in Agree(a, b) : A[p] = a[p]
  BY <1>2, <1>3
<1>6. Tracking(f, e, n, A, B, l)
  BY <1>1, <1>4, <1>5 DEF Tracking
<1> QED
  BY <1>6 DEF Tracks, A, B

(* Equal numbers are rejected, which l knows.                              *)
LEMMA TracksLost ==
  ASSUME NEW a, NEW b, NEW n \in Nat, NEW e, NEW l, Tracks(e, n, a, b, l)
  PROVE  Tracks(e, n + 1, a, b, l \cup {n + 1})
<1>1. PICK f : Tracking(f, e, n, a, b, l)
  BY DEF Tracks
<1>2. /\ 1..n \subseteq 1..(n + 1)
      /\ (1..(n + 1)) \ (l \cup {n + 1}) \subseteq (1..n) \ l
  OBVIOUS
<1>3. f \in [Agree(a, b) -> 1..(n + 1)]
  BY <1>1, <1>2 DEF Tracking
<1>4. Tracking(f, e, n + 1, a, b, l \cup {n + 1})
  BY <1>1, <1>2, <1>3 DEF Tracking
<1> QED
  BY <1>4 DEF Tracks

(***************************************************************************)
(* The lists, each up to the number that its scheme has not been asked     *)
(* about yet: GM with an invertible g lists exactList, ECE meets it, and   *)
(* two lists agree on it but for the losses.                               *)
(***************************************************************************)
BothLists == \A sc \in TwoLists : Len(listB[sc]) = Len(listA[sc])
GMFollows == key["gm"].sound \/ pc = "keygen" =>
               /\ Len(listA["gm"]) = Len(exactList) - Owed(1)
               /\ \A j \in 1..Len(listA["gm"]) : listA["gm"][j] = exactList[j]
ECEMeets == Meets(exactList, Len(exactList) - Owed(3), listA["ece"])
AllTrack == \A j \in 1..5 : Schemes[j] \in TwoLists =>
              Tracks(exactList, Len(exactList) - Owed(j),
                     listA[Schemes[j]], listB[Schemes[j]], losses[Schemes[j]])

LInv == BothLists /\ GMFollows /\ ECEMeets /\ AllTrack

LEMMA InitLInv == DriverInit => LInv
<1> SUFFICES ASSUME DriverInit PROVE LInv
  OBVIOUS
<1>1. /\ \A sc \in ToSet(Schemes) : listA[sc] = <<>> /\ listB[sc] = <<>>
      /\ exactList = <<>> /\ pc = "keygen"
  BY DEF DriverInit, PerScheme
<1>2. \A j \in 1..5 : Owed(j) = 0
  BY <1>1 DEF Owed
<1>3. /\ Len(exactList) = 0 /\ 0 - 0 = 0
      /\ \A sc \in ToSet(Schemes) : Len(listA[sc]) = 0 /\ Len(listB[sc]) = 0
  BY <1>1
<1>4. BothLists /\ GMFollows
  BY <1>2, <1>3, SchemeNames DEF BothLists, GMFollows
<1>5. ECEMeets
  BY <1>1, <1>2, <1>3, NothingMet, SchemeNames DEF ECEMeets
<1>6. AllTrack
  BY <1>1, <1>2, <1>3, NothingMet, SchemeSet DEF AllTrack
<1> QED
  BY <1>4, <1>5, <1>6 DEF LInv

LEMMA KeyGenLInv == ASSUME LInv, DriverKeyGen PROVE LInv'
<1>1. /\ pc = "keygen" /\ pc' # "test"
      /\ UNCHANGED <<exactList, listA, listB, losses>>
  BY DEF DriverKeyGen, history
<1>2. \A j \in 1..5 : Owed(j)' = Owed(j)
  BY <1>1 DEF Owed
<1> QED
  BY <1>1, <1>2 DEF LInv, BothLists, GMFollows, ECEMeets, AllTrack

LEMMA DrawLInv == ASSUME DriverInv, LInv, Draw PROVE LInv'
<1>1. PICK x \in Numbers, y \in Numbers :
        /\ random10A' = x /\ random10B' = y
        /\ exactList' = IF x = y THEN Append(exactList, x) ELSE exactList
  BY DEF Draw
<1>2. /\ UNCHANGED <<at, key, listA, listB, losses>>
      /\ pc = "draw" /\ pc' = "test" /\ at = 1
      /\ exactList \in Seq(Numbers)
  BY DEF Draw, DriverInv, Started, DriverTypeOK, history
<1> DEFINE n == Len(exactList)
<1>3. n \in Nat /\ n - 0 = n
  BY <1>2
<1>4. \A j \in 1..5 : Owed(j) = 0 /\ Owed(j)' = IF x = y THEN 1 ELSE 0
  BY <1>1, <1>2 DEF Owed
<1>5. /\ Len(exactList') - (IF x = y THEN 1 ELSE 0) = n
      /\ \A k \in 1..n : exactList'[k] = exactList[k]
  <2>1. CASE x = y
    <3>1. exactList' = Append(exactList, x)
      BY <1>1, <2>1
    <3> QED
      BY <1>2, <1>3, <2>1, <3>1, Appended
  <2>2. CASE x # y
    BY <1>1, <1>3, <2>2
  <2> QED
    BY <2>1, <2>2
<1>6. BothLists'
  BY <1>2 DEF LInv, BothLists
<1>7. GMFollows'
  <2> SUFFICES ASSUME key["gm"].sound
               PROVE  /\ Len(listA["gm"]) = n
                      /\ \A j \in 1..Len(listA["gm"]) : listA["gm"][j] = exactList'[j]
    BY <1>2, <1>4, <1>5 DEF GMFollows
  <2>1. /\ Len(listA["gm"]) = n
        /\ \A j \in 1..Len(listA["gm"]) : listA["gm"][j] = exactList[j]
    BY <1>3, <1>4 DEF LInv, GMFollows
  <2> QED
    BY <1>5, <2>1
<1>8. ECEMeets'
  <2>1. Meets(exactList, n, listA["ece"])
    BY <1>3, <1>4 DEF LInv, ECEMeets
  <2>2. Meets(exactList', n, listA["ece"])
    BY <1>5, <2>1, SameMet
  <2> QED
    BY <1>2, <1>4, <1>5, <2>2 DEF ECEMeets
<1>9. AllTrack'
  <2> SUFFICES ASSUME NEW j \in 1..5, Schemes[j] \in TwoLists
               PROVE  Tracks(exactList', n, listA[Schemes[j]], listB[Schemes[j]],
                             losses[Schemes[j]])
    BY <1>2, <1>4, <1>5 DEF AllTrack
  <2>1. Tracks(exactList, n, listA[Schemes[j]], listB[Schemes[j]], losses[Schemes[j]])
    BY <1>3, <1>4 DEF LInv, AllTrack
  <2> QED
    BY <1>5, <2>1, SameMet
<1> QED
  BY <1>6, <1>7, <1>8, <1>9 DEF LInv

LEMMA ReportLInv == ASSUME LInv, Report PROVE LInv'
<1>1. /\ UNCHANGED <<at, key, exactList, listA, listB, losses>>
      /\ pc = "draw" /\ pc' = "end"
  BY DEF Report, history
<1>2. \A j \in 1..5 : Owed(j)' = Owed(j)
  BY <1>1 DEF Owed
<1> QED
  BY <1>1, <1>2 DEF LInv, BothLists, GMFollows, ECEMeets, AllTrack

LEMMA StutterLInv == ASSUME LInv, UNCHANGED driverVars PROVE LInv'
<1>1. UNCHANGED <<pc, at, key, exactList, listA, listB, losses, random10A, random10B>>
  BY DEF driverVars, history
<1>2. \A j \in 1..5 : Owed(j)' = Owed(j)
  BY <1>1 DEF Owed
<1> QED
  BY <1>1, <1>2 DEF LInv, BothLists, GMFollows, ECEMeets, AllTrack

(* The lists after an acceptance.                                          *)
LEMMA RecordedLists ==
  ASSUME DriverTypeOK, NEW sc \in ToSet(Schemes), Record(sc)
  PROVE  /\ listA'[sc] = Append(listA[sc], random10A)
         /\ sc \in TwoLists => listB'[sc] = Append(listB[sc], random10B)
         /\ \A other \in ToSet(Schemes) \ {sc} :
              listA'[other] = listA[other] /\ listB'[other] = listB[other]
<1>1. /\ listA' = [listA EXCEPT ![sc] = Append(listA[sc], random10A)]
      /\ listB' = IF sc \in TwoLists
                  THEN [listB EXCEPT ![sc] = Append(listB[sc], random10B)] ELSE listB
  BY DEF Record
<1>2. listA \in [ToSet(Schemes) -> Seq(Numbers)] /\ listB \in [ToSet(Schemes) -> Seq(Numbers)]
  BY DEF DriverTypeOK
<1> QED
  BY <1>1, <1>2

LEMMA TestLInv == ASSUME DriverInv, LInv, Test PROVE LInv'
<1> DEFINE sc == Schemes[at]  n == Len(exactList) - Owed(at)  len == Len(exactList)
<1>1. at \in 1..5 /\ sc \in ToSet(Schemes) /\ pc = "test"
  BY SchemeSet DEF DriverInv, DriverTypeOK, Test
<1>2. PICK d \in DrawnBy(sc) : \E accepted \in Answers(sc, random10A, random10B, d) :
        /\ IF accepted THEN Record(sc) ELSE UNCHANGED <<listA, listB, equalCount>>
        /\ Note(sc, d)
  BY DEF Test
<1>3. PICK accepted \in Answers(sc, random10A, random10B, d) :
        /\ IF accepted THEN Record(sc) ELSE UNCHANGED <<listA, listB, equalCount>>
        /\ Note(sc, d)
  BY <1>2
<1>4. /\ random10A \in Numbers /\ random10B \in Numbers
      /\ listA[sc] \in Seq(Numbers) /\ listB[sc] \in Seq(Numbers)
      /\ exactList \in Seq(Numbers) /\ len \in Nat
  BY <1>1 DEF DriverInv, Started, DriverTypeOK
<1>5. /\ accepted \in BOOLEAN
      /\ random10A = random10B /\ ~accepted => Lossy(sc, d)
      /\ sc = "gm" => (accepted <=> random10A = random10B /\ key["gm"].sound)
      /\ sc = "ece" /\ random10A = random10B => accepted
  BY <1>1, AnswerFacts
<1>6. /\ UNCHANGED <<key, random10A, random10B, exactList>>
      /\ pc' # "keygen"
  BY <1>1 DEF Test
<1>7. /\ accepted => /\ listA'[sc] = Append(listA[sc], random10A)
                     /\ sc \in TwoLists => listB'[sc] = Append(listB[sc], random10B)
      /\ ~accepted => listA'[sc] = listA[sc] /\ listB'[sc] = listB[sc]
      /\ \A other \in ToSet(Schemes) \ {sc} :
           listA'[other] = listA[other] /\ listB'[other] = listB[other]
  <2>1. CASE accepted
    <3>1. DriverTypeOK /\ Record(sc)
      BY <1>3, <2>1 DEF DriverInv
    <3> QED
      BY <1>1, <2>1, <3>1, RecordedLists
  <2>2. CASE ~accepted
    BY <1>3, <2>2
  <2> QED
    BY <1>5, <2>1, <2>2
<1>8. /\ losses'[sc] = IF random10A = random10B /\ Lossy(sc, d)
                       THEN losses[sc] \cup {len} ELSE losses[sc]
      /\ \A other \in ToSet(Schemes) \ {sc} : losses'[other] = losses[other]
  BY <1>1, <1>3, Noted DEF DriverInv
<1>9. /\ Owed(at) = (IF random10A = random10B THEN 1 ELSE 0)
      /\ \A j \in 1..5 : Owed(j)' = IF j # at THEN Owed(j) ELSE 0
  BY OwedAfter DEF DriverInv
<1>10. \A j \in 1..5 : j # at => Schemes[j] \in ToSet(Schemes) \ {sc}
  BY <1>1, SchemeSet
<1>11. random10A = random10B =>
         n \in Nat /\ n + 1 = len /\ exactList[n + 1] = random10A
  <2> SUFFICES ASSUME random10A = random10B
               PROVE  n \in Nat /\ n + 1 = len /\ exactList[len] = random10A
    BY <1>4
  <2>1. exactList # <<>> /\ exactList[len] = random10A /\ n = len - 1
    BY <1>1, <1>9 DEF DriverInv, EqualListed
  <2>2. len # 0
    BY <1>4, <2>1
  <2> QED
    BY <1>4, <2>1, <2>2
<1>12. random10A # random10B => n = len
  BY <1>4, <1>9
<1>13. len - 0 = len
  BY <1>4
<1> HIDE DEF n, len
<1>14. sc \in TwoLists => Len(listB[sc]) = Len(listA[sc])
  BY DEF LInv, BothLists
<1>15. BothLists'
  <2> SUFFICES ASSUME NEW other \in TwoLists
               PROVE  Len(listB'[other]) = Len(listA'[other])
    BY DEF BothLists
  <2>1. other \in ToSet(Schemes) /\ Len(listB[other]) = Len(listA[other])
    BY SchemeNames DEF LInv, BothLists
  <2>2. CASE other = sc /\ accepted
    <3>1. /\ Len(Append(listA[sc], random10A)) = Len(listA[sc]) + 1
          /\ Len(Append(listB[sc], random10B)) = Len(listB[sc]) + 1
      BY <1>4, Appended
    <3> QED
      BY <1>7, <2>1, <2>2, <3>1
  <2>3. CASE other # sc
    BY <1>7, <2>1, <2>3
  <2>4. CASE other = sc /\ ~accepted
    BY <1>7, <2>1, <2>4
  <2> QED
    BY <1>5, <2>2, <2>3, <2>4
<1>16. GMFollows'
  <2> SUFFICES ASSUME key["gm"].sound
               PROVE  /\ Len(listA'["gm"]) = len - Owed(1)'
                      /\ \A j \in 1..Len(listA'["gm"]) : listA'["gm"][j] = exactList[j]
    BY <1>6 DEF GMFollows, len
  <2>1. /\ Len(listA["gm"]) = len - Owed(1)
        /\ \A j \in 1..Len(listA["gm"]) : listA["gm"][j] = exactList[j]
    BY DEF LInv, GMFollows, len
  <2>2. CASE at # 1
    <3>1. listA'["gm"] = listA["gm"] /\ Owed(1)' = Owed(1)
      BY <1>7, <1>9, <1>10, <2>2, SchemeNames
    <3> QED
      BY <2>1, <3>1
  <2>3. CASE at = 1
    <3>1. sc = "gm" /\ Owed(1)' = 0 /\ Len(listA["gm"]) = n
      BY <1>9, <2>1, <2>3, SchemeNames DEF n, len
    <3>2. CASE random10A = random10B
      <4>1. listA'["gm"] = Append(listA["gm"], random10A)
        BY <1>5, <1>7, <3>1, <3>2
      <4>2. Len(listA'["gm"]) = n + 1
        BY <1>4, <3>1, <4>1, Appended
      <4>3. \A j \in 1..(n + 1) : listA'["gm"][j] = exactList[j]
        <5>1. /\ \A j \in 1..n : listA'["gm"][j] = listA["gm"][j]
              /\ listA'["gm"][n + 1] = random10A
              /\ \A j \in 1..(n + 1) : j \in 1..n \/ j = n + 1
          BY <1>4, <3>1, <4>1, Appended
        <5> QED
          BY <1>11, <2>1, <3>1, <3>2, <5>1
      <4> QED
        BY <1>11, <1>13, <3>1, <3>2, <4>2, <4>3
    <3>3. CASE random10A # random10B
      <4>1. listA'["gm"] = listA["gm"]
        BY <1>5, <1>7, <3>1, <3>3
      <4> QED
        BY <1>12, <1>13, <2>1, <3>1, <3>3, <4>1
    <3> QED
      BY <3>2, <3>3
  <2> QED
    BY <2>2, <2>3
<1>17. ECEMeets'
  <2> SUFFICES Meets(exactList, len - Owed(3)', listA'["ece"])
    BY <1>6 DEF ECEMeets, len
  <2>1. Meets(exactList, len - Owed(3), listA["ece"])
    BY DEF LInv, ECEMeets, len
  <2>2. CASE at # 3
    <3>1. listA'["ece"] = listA["ece"] /\ Owed(3)' = Owed(3)
      BY <1>7, <1>9, <1>10, <2>2, SchemeNames
    <3> QED
      BY <2>1, <3>1
  <2>3. CASE at = 3
    <3>1. sc = "ece" /\ Owed(3)' = 0 /\ Meets(exactList, n, listA["ece"])
      BY <1>9, <2>1, <2>3, SchemeNames DEF n, len
    <3>2. CASE random10A = random10B
      <4>1. listA'["ece"] = Append(listA["ece"], random10A)
        BY <1>5, <1>7, <3>1, <3>2
      <4>2. Meets(exactList, n + 1, listA'["ece"])
        BY <1>4, <1>11, <3>1, <3>2, <4>1, MeetsNext
      <4> QED
        BY <1>11, <1>13, <3>1, <3>2, <4>2
    <3>3. CASE random10A # random10B /\ accepted
      <4>1. listA'["ece"] = Append(listA["ece"], random10A)
        BY <1>7, <3>1, <3>3
      <4>2. Meets(exactList, n, listA'["ece"])
        BY <1>4, <3>1, <4>1, MeetsMore
      <4> QED
        BY <1>12, <1>13, <3>1, <3>3, <4>2
    <3>4. CASE random10A # random10B /\ ~accepted
      BY <1>7, <1>12, <1>13, <3>1, <3>4
    <3> QED
      BY <1>5, <3>2, <3>3, <3>4
  <2> QED
    BY <2>2, <2>3
<1>18. sc \in TwoLists =>
         Tracks(exactList, len, listA'[sc], listB'[sc], losses'[sc])
  <2> SUFFICES ASSUME sc \in TwoLists
               PROVE  Tracks(exactList, len, listA'[sc], listB'[sc], losses'[sc])
    OBVIOUS
  <2>1. Tracks(exactList, n, listA[sc], listB[sc], losses[sc])
    BY <1>1 DEF LInv, AllTrack, n
  <2> HIDE DEF sc
  <2>2. CASE random10A = random10B /\ accepted
    <3>1. /\ listA'[sc] = Append(listA[sc], random10A)
          /\ listB'[sc] = Append(listB[sc], random10A)
          /\ losses[sc] \subseteq losses'[sc]
      BY <1>7, <1>8, <2>2
    <3>2. Tracks(exactList, n + 1, Append(listA[sc], random10A),
                 Append(listB[sc], random10A), losses'[sc])
      BY <1>4, <1>11, <1>14, <2>1, <2>2, <3>1, TracksMatch
    <3> QED
      BY <1>11, <2>2, <3>1, <3>2
  <2>3. CASE random10A = random10B /\ ~accepted
    <3>1. /\ losses'[sc] = losses[sc] \cup {n + 1}
          /\ listA'[sc] = listA[sc] /\ listB'[sc] = listB[sc]
      BY <1>5, <1>7, <1>8, <1>11, <2>3
    <3>2. Tracks(exactList, n + 1, listA[sc], listB[sc], losses[sc] \cup {n + 1})
      BY <1>11, <2>1, <2>3, TracksLost
    <3> QED
      BY <1>11, <2>3, <3>1, <3>2
  <2>4. CASE random10A # random10B /\ accepted
    <3>1. /\ listA'[sc] = Append(listA[sc], random10A)
          /\ listB'[sc] = Append(listB[sc], random10B)
          /\ losses'[sc] = losses[sc]
      BY <1>7, <1>8, <2>4
    <3>2. Tracks(exactList, n, Append(listA[sc], random10A),
                 Append(listB[sc], random10B), losses[sc])
      BY <1>4, <1>14, <2>1, <2>4, TracksMismatch
    <3> QED
      BY <1>12, <2>4, <3>1, <3>2
  <2>5. CASE random10A # random10B /\ ~accepted
    BY <1>7, <1>8, <1>12, <2>1, <2>5
  <2> QED
    BY <1>5, <2>2, <2>3, <2>4, <2>5
<1>19. AllTrack'
  <2> SUFFICES ASSUME NEW j \in 1..5, Schemes[j] \in TwoLists
               PROVE  Tracks(exactList, len - Owed(j)', listA'[Schemes[j]],
                             listB'[Schemes[j]], losses'[Schemes[j]])
    BY <1>6 DEF AllTrack, len
  <2>1. CASE j = at
    BY <1>9, <1>13, <1>18, <2>1
  <2>2. CASE j # at
    <3>1. Tracks(exactList, len - Owed(j), listA[Schemes[j]], listB[Schemes[j]],
                 losses[Schemes[j]])
      BY DEF LInv, AllTrack, len
    <3> QED
      BY <1>7, <1>8, <1>9, <1>10, <2>2, <3>1
  <2> QED
    BY <2>1, <2>2
<1> QED
  BY <1>15, <1>16, <1>17, <1>19 DEF LInv

LEMMA ListInvariance == DriverSpec => []LInv
<1>1. DriverInv /\ LInv /\ [DriverNext]_driverVars => LInv'
  BY KeyGenLInv, DrawLInv, TestLInv, ReportLInv, StutterLInv DEF DriverNext
<1> QED
  BY InitLInv, DriverInvariance, <1>1, PTL DEF DriverSpec

(***************************************************************************)
(* What a reader of the printed lists may conclude, whatever keys and      *)
(* random numbers were drawn: GM's list is exactList itself, or empty when *)
(* its g has no inverse; ECE's list holds exactList in its order; and      *)
(* where two lists are printed, the positions at which they agree are      *)
(* elements of exactList in its order, none missing but those whose call   *)
(* was degenerate, which for OU is none.                                   *)
(***************************************************************************)
THEOREM ListsTellAll == DriverSpec => []ListsComplete
<1>1. DriverInv /\ LInv => ListsComplete
  <2> SUFFICES ASSUME DriverInv, LInv, pc \in {"draw", "end"}
               PROVE  ListsComplete
    BY DEF ListsComplete
  <2> DEFINE n == Len(exactList)
  <2>1. /\ exactList \in Seq(Numbers) /\ n \in Nat /\ DOMAIN exactList = 1..n
        /\ \A sc \in ToSet(Schemes) : /\ listA[sc] \in Seq(Numbers)
                                      /\ DOMAIN listA[sc] = 1..Len(listA[sc])
    BY DEF DriverInv, DriverTypeOK
  <2>2. \A j \in 1..5 : n - Owed(j) = n
    <3>1. \A j \in 1..5 : Owed(j) = 0
      BY DEF Owed
    <3>2. n - 0 = n
      BY <2>1
    <3> QED
      BY <3>1, <3>2
  <2> HIDE DEF n
  <2>3. listA["gm"] = IF key["gm"].sound THEN exactList ELSE <<>>
    <3>1. "gm" \in ToSet(Schemes)
      BY SchemeNames
    <3>2. CASE key["gm"].sound
      <4>1. /\ Len(listA["gm"]) = n
            /\ \A j \in 1..n : listA["gm"][j] = exactList[j]
        BY <2>2, <3>2 DEF LInv, GMFollows, n
      <4> QED
        BY <2>1, <3>1, <3>2, <4>1 DEF n
    <3>3. CASE ~key["gm"].sound
      <4>1. Len(listA["gm"]) = 0
        BY <3>1, <3>3 DEF DriverInv, Lengths, BadKeys
      <4> QED
        BY <2>1, <3>1, <3>3, <4>1
    <3> QED
      BY <3>2, <3>3
  <2>4. Subsequence(exactList, listA["ece"])
    <3>1. "ece" \in ToSet(Schemes)
      BY SchemeNames
    <3>2. PICK f : Meeting(f, exactList, n, listA["ece"])
      BY <2>2 DEF LInv, ECEMeets, Meets, n
    <3>3. f \in [DOMAIN exactList -> DOMAIN listA["ece"]]
      BY <2>1, <3>1, <3>2 DEF Meeting
    <3>4. Embeds(f, exactList, listA["ece"])
      BY <2>1, <3>2 DEF Meeting, Embeds
    <3> QED
      BY <3>3, <3>4 DEF Subsequence
  <2>5. ASSUME NEW sc \in TwoLists PROVE ExactWhereAgreeing(sc)
    <3>1. sc \in ToSet(Schemes)
      BY SchemeNames
    <3>2. PICK j \in 1..5 : Schemes[j] = sc
      BY <3>1, SchemeSet
    <3>3. PICK f : Tracking(f, exactList, n, listA[sc], listB[sc], losses[sc])
      BY <2>2, <2>5, <3>2 DEF LInv, AllTrack, Tracks, n
    <3>4. Agree(listA[sc], listB[sc]) = Agreeing(sc)
      BY <2>1, <3>1 DEF Agree, Agreeing
    <3> QED
      BY <2>1, <3>3, <3>4 DEF Tracking, ExactWhereAgreeing
  <2>6. losses["ou"] = {}
    BY DEF DriverInv, LossesBefore
  <2> QED
    BY <2>3, <2>4, <2>5, <2>6 DEF ListsComplete
<1> QED
  BY <1>1, DriverInvariance, ListInvariance, PTL

----------------------------------------------------------------------------

(***************************************************************************)
(* The reductions of Kyber.                                                *)
(***************************************************************************)

Half == R \div 2

LEMMA Widths ==
  /\ q \in Nat \ {0} /\ R \in Nat \ {0} /\ Half \in Nat \ {0}
  /\ R = 2 * Half /\ 4 * q < Half
  BY ModulusAssumption DEF Half

(* An assignment to a short changes the number by a multiple of R, and not *)
(* at all if it fits.                                                      *)
LEMMA ShortCuts ==
  ASSUME NEW x \in Int
  PROVE  /\ short(x) \in (-Half)..(Half - 1)
         /\ \E k \in Int : x = short(x) + R * k
<1> DEFINE d == (x + Half) \div R  mm == (x + Half) % R
<1>1. x + Half = R * d + mm /\ d \in Int /\ mm \in 0..(R - 1)
  <2>1. x + Half \in Int
    BY Widths
  <2> QED
    BY <2>1, Widths, DivMod
<1>2. short(x) = mm - Half
  BY DEF short, Half
<1> HIDE DEF d, mm
<1> DEFINE u == R * d
<1>3. x = short(x) + u
  <2>1. u \in Int /\ x + Half = u + mm /\ mm \in Int /\ Half \in Int
    BY <1>1, Widths
  <2> HIDE DEF u
  <2> QED
    BY <1>2, <2>1
<1>4. mm - Half \in (-Half)..(Half - 1)
  BY <1>1, Widths
<1> QED
  BY <1>1, <1>2, <1>3, <1>4

LEMMA ShortKeeps ==
  ASSUME NEW x \in (-Half)..(Half - 1)
  PROVE  short(x) = x
<1>1. x \in Int
  BY Widths
<1> DEFINE y == short(x)
<1>2. PICK k \in Int : x = y + R * k
  BY <1>1, ShortCuts
<1>3. y \in (-Half)..(Half - 1)
  BY <1>1, ShortCuts
<1> HIDE DEF y
<1>4. -R < R * k /\ R * k < R
  BY <1>2, <1>3, Widths
<1>5. k = 0
  BY <1>4, Widths, SmallMultiple
<1>6. R * k = 0
  BY <1>5, Widths
<1> QED
  BY <1>2, <1>3, <1>6, Widths DEF y

LEMMA Smaller ==
  ASSUME NEW n \in Nat \ {0}, NEW x \in Int, NEW y \in Int, n * x < n * y
  PROVE  x < y
<1> SUFFICES ASSUME y <= x PROVE FALSE
  OBVIOUS
<1>1. n * y <= n * x
  OBVIOUS
<1> QED
  BY <1>1

LEMMA Quotient ==
  ASSUME NEW n \in Nat \ {0}, NEW t \in Int
  PROVE  (n * t) \div n = t
<1> DEFINE p == n * t
<1>1. p \in Int
  OBVIOUS
<1>2. p = n * (p \div n) + (p % n) /\ p \div n \in Int /\ p % n \in 0..(n - 1)
  BY <1>1, DivMod
<1> DEFINE d == p \div n  mm == p % n  e == t - d
<1>3. n * e = n * t - n * d
  <2> HIDE DEF p
  <2>1. d \in Int
    BY <1>2
  <2> HIDE DEF d
  <2> QED
    BY <2>1
<1>4. n * e = mm
  BY <1>2, <1>3
<1>5. e \in Int /\ mm \in 0..(n - 1)
  BY <1>2
<1> HIDE DEF e, mm
<1>6. e = 0
  BY <1>4, <1>5, SmallMultiple
<1> QED
  BY <1>2, <1>6 DEF e

(***************************************************************************)
(* montgomery_reduce divides by R modulo q and returns less than q in      *)
(* magnitude for the inputs its comment allows, -q*2^15 to q*2^15-1, with  *)
(* a product in between that overflows.                                    *)
(***************************************************************************)
THEOREM MontgomeryReduces ==
  ASSUME NEW a \in Int, -(q * Half) <= a, a < q * Half
  PROVE  /\ montgomery_reduce(a) \in (1 - q)..(q - 1)
         /\ (R * montgomery_reduce(a)) % q = a % q
<1> DEFINE u == short(a * QINV)
<1>1. QINV \in Int /\ a * QINV \in Int
  BY MontgomeryAssumption, Widths
<1>2. PICK k \in Int : a * QINV = u + R * k
  BY <1>1, ShortCuts
<1>3. u \in (-Half)..(Half - 1)
  BY <1>1, ShortCuts
<1>4. PICK mm \in Int : QINV * q = R * mm + 1
  <2>1. QINV * q \in Int
    BY <1>1, Widths
  <2>2. QINV * q = R * ((QINV * q) \div R) + 1 /\ (QINV * q) \div R \in Int
    BY <2>1, Widths, DivMod, MontgomeryAssumption
  <2> QED
    BY <2>2
<1> HIDE DEF u
<1> DEFINE t == k * q - a * mm
<1>5. t \in Int /\ u \in Int
  BY <1>3, Widths
<1>6. a - u * q = R * t
  <2>1. (a * QINV) * q = a * (QINV * q)
    BY <1>1, Widths
  <2>2. a * (R * mm + 1) = R * (a * mm) + a
    BY Widths
  <2>3. (u + R * k) * q = u * q + R * (k * q)
    BY <1>5, Widths
  <2>4. R * (k * q - a * mm) = R * (k * q) - R * (a * mm)
    BY Widths
  <2>5. a * (QINV * q) = R * (a * mm) + a
    BY <1>4, <2>2
  <2>6. (a * QINV) * q = u * q + R * (k * q)
    BY <1>2, <2>3
  <2> DEFINE x == u * q  y == R * (k * q)  z == R * (a * mm)
  <2>7. x \in Int /\ y \in Int /\ z \in Int
    BY <1>5, Widths
  <2>8. x + y = z + a
    BY <2>1, <2>5, <2>6
  <2>9. R * t = y - z
    BY <2>4
  <2> HIDE DEF x, y, z
  <2>10. a - x = y - z
    BY <2>7, <2>8
  <2> QED
    BY <2>9, <2>10 DEF x
<1> HIDE DEF t
<1>7. -q < t /\ t < q
  <2>1. q * u >= q * (-Half) /\ q * u <= q * (Half - 1)
    BY <1>3, <1>5, Widths
  <2>2. q * (-Half) = -(q * Half) /\ q * (Half - 1) = q * Half - q
    BY Widths
  <2>3. u * q = q * u /\ q * R = 2 * (q * Half)
    BY <1>5, Widths
  <2> DEFINE x == q * u  h == q * Half  y == R * t  w == q * R
  <2>4. x \in Int /\ h \in Int /\ y \in Int /\ w \in Int
    BY <1>5, Widths
  <2>5. x >= -h /\ x <= h - q /\ w = 2 * h /\ a - x = y /\ -h <= a /\ a < h
    BY <1>6, <2>1, <2>2, <2>3
  <2>6. R * q = w /\ R * (-q) = -w
    BY Widths
  <2> HIDE DEF x, h, y, w
  <2>7. -w < y /\ y < w
    BY <2>4, <2>5, Widths
  <2>8. R * (-q) < R * t /\ R * t < R * q
    BY <2>6, <2>7 DEF y
  <2> QED
    BY <1>5, <2>8, Widths, Smaller
<1>8. montgomery_reduce(a) = t
  <2>1. (R * t) \div R = t
    BY <1>5, Widths, Quotient
  <2>2. t \in (-Half)..(Half - 1)
    BY <1>5, <1>7, Widths
  <2>3. short(t) = t
    BY <2>2, ShortKeeps
  <2>4. montgomery_reduce(a) = short((a - u * q) \div R)
    BY DEF montgomery_reduce, u
  <2> QED
    BY <1>6, <2>1, <2>3, <2>4
<1>9. (R * t) % q = a % q
  <2>1. u * q = q * u /\ -u \in Int /\ q * (-u) = -(q * u)
    BY <1>5, Widths
  <2>2. R * t \in Int
    BY <1>5, Widths
  <2> DEFINE y == R * t  x == q * u  minus == -u
  <2>3. y \in Int /\ x \in Int /\ minus \in Int /\ a - x = y
    BY <1>6, <2>1, <2>2, <1>5, Widths
  <2>4. q * minus = -x
    BY <2>1
  <2> HIDE DEF x, y, minus
  <2>5. y = a + q * minus
    BY <2>3, <2>4
  <2>6. q \in Nat \ {0} /\ a \in Int
    BY Widths
  <2>7. y % q = a % q
    BY <2>3, <2>5, <2>6, SameResidue
  <2> QED
    BY <2>7 DEF y
<1> QED
  BY <1>5, <1>7, <1>8, <1>9, Widths

(***************************************************************************)
(* barrett_reduce returns the residue of any int16_t, or q in place of 0:  *)
(* the quotient by multiplication is exact or one too small, and not more. *)
(***************************************************************************)
THEOREM BarrettReduces ==
  ASSUME NEW a \in int16
  PROVE  barrett_reduce(a) \in 0..q /\ barrett_reduce(a) % q = a % q
<1> DEFINE bm == BarrettM
           v == bm \div q + 1
           e == v * q - bm
           t == (v * a) \div bm
           mm == (v * a) % bm
<1>1. a \in Int /\ -Half <= a /\ a < Half /\ bm \in Nat \ {0}
  BY Widths, BarrettAssumption DEF int16, Half
<1>2. v \in Int /\ e \in 1..q
  <2> DEFINE d == bm \div q  r == bm % q
  <2>1. bm = q * d + r /\ d \in Int /\ r \in 0..(q - 1)
    BY <1>1, Widths, DivMod
  <2>2. v = d + 1
    OBVIOUS
  <2> HIDE DEF bm, d, r, v
  <2>3. v * q = q * d + q
    BY <2>1, <2>2, Widths
  <2> QED
    BY <2>1, <2>2, <2>3, <1>1, Widths
<1>3. e * R < 2 * bm
  BY BarrettAssumption
<1>4. v * a = bm * t + mm /\ t \in Int /\ mm \in 0..(bm - 1)
  <2>1. v * a \in Int
    BY <1>1, <1>2
  <2> HIDE DEF bm, v
  <2> QED
    BY <2>1, <1>1, DivMod
<1>5. barrett_reduce(a) = short(a - t * q)
  BY DEF barrett_reduce
<1>6. v * q = bm + e
  <2> HIDE DEF v, bm
  <2> QED
    BY <1>1, <1>2, Widths
<1> HIDE DEF bm, v, e, t, mm
<1> DEFINE r == a - t * q
<1>7. t * q \in Int /\ r \in Int
  BY <1>1, <1>4, Widths
<1>8. bm * r = mm * q - e * a
  <2>1. q * (v * a) = a * (v * q)
    BY <1>1, <1>2, Widths
  <2>2. q * (bm * t + mm) = bm * (t * q) + mm * q
    BY <1>1, <1>4, Widths
  <2>3. a * (bm + e) = bm * a + e * a
    BY <1>1, <1>2, Widths
  <2>4. bm * (a - t * q) = bm * a - bm * (t * q)
    BY <1>1, <1>7
  <2> DEFINE x == bm * (t * q)  y == bm * a  z == e * a  w == mm * q
  <2>5. x \in Int /\ y \in Int /\ z \in Int /\ w \in Int
    BY <1>1, <1>2, <1>4, <1>7, Widths
  <2>6. x + w = y + z
    BY <1>4, <1>6, <2>1, <2>2, <2>3
  <2> HIDE DEF x, y, z, w
  <2>7. y - x = w - z
    BY <2>5, <2>6
  <2> QED
    BY <2>4, <2>7 DEF x, y, z, w
<1>9. -bm < e * a /\ e * a < bm
  <2>1. e * Half < bm
    <3>1. e * R = 2 * (e * Half)
      BY <1>2, Widths
    <3> QED
      BY <1>1, <1>2, <1>3, <3>1, Widths
  <2>2. e * a <= e * Half /\ e * (-Half) <= e * a
    BY <1>1, <1>2, Widths
  <2>3. e * (-Half) = -(e * Half)
    BY <1>2, Widths
  <2> DEFINE x == e * a  h == e * Half
  <2>4. x \in Int /\ h \in Int
    BY <1>1, <1>2, Widths
  <2>5. h < bm /\ x <= h /\ -h <= x
    BY <2>1, <2>2, <2>3
  <2> HIDE DEF x, h
  <2>6. -bm < x /\ x < bm
    BY <1>1, <2>4, <2>5
  <2> QED
    BY <2>6 DEF x
<1>10. 0 <= mm * q /\ mm * q <= bm * q - q
  <2>1. mm * q <= (bm - 1) * q /\ 0 * q <= mm * q
    BY <1>1, <1>4, Widths
  <2>2. (bm - 1) * q = bm * q - q
    BY <1>1, Widths
  <2> QED
    BY <2>1, <2>2, Widths
<1> HIDE DEF r
<1>11. r \in 0..q
  <2>1. bm * (-1) < bm * r
    BY <1>1, <1>2, <1>4, <1>7, <1>8, <1>9, <1>10, Widths
  <2>2. bm * r < bm * (q + 1)
    <3>1. bm * (q + 1) = bm * q + bm
      BY <1>1, Widths
    <3> DEFINE x == e * a  w == mm * q  z == bm * q
    <3>2. x \in Int /\ w \in Int /\ z \in Int
      BY <1>1, <1>2, <1>4, Widths
    <3>3. -bm < x /\ w <= z - q
      BY <1>9, <1>10
    <3> HIDE DEF x, w, z
    <3>4. w - x < z + bm
      BY <1>1, <3>2, <3>3, Widths
    <3> QED
      BY <1>8, <3>1, <3>4 DEF x, w, z
  <2>3. -1 < r /\ r < q + 1
    BY <1>1, <1>7, <2>1, <2>2, Widths, Smaller
  <2> QED
    BY <1>7, <2>3, Widths
<1>12. short(r) = r
  <2>1. r \in (-Half)..(Half - 1)
    BY <1>11, Widths
  <2> QED
    BY <2>1, ShortKeeps
<1>13. r % q = a % q
  <2> DEFINE k == -t
  <2>1. k \in Int /\ q * k = -(t * q)
    BY <1>4, Widths
  <2> HIDE DEF k
  <2>2. r = a + q * k
    BY <1>1, <1>7, <2>1, Widths DEF r
  <2> QED
    BY <1>1, <1>7, <2>1, <2>2, Widths, SameResidue
<1> QED
  BY <1>5, <1>11, <1>12, <1>13 DEF r

(* csubq subtracts q once where it should; a negative number stays as it   *)
(* is, unlike what compression needs.                                      *)
LEMMA Csubq ==
  ASSUME NEW a \in (q - Half)..(Half - 1)
  PROVE  csubq(a) = IF a >= q THEN a - q ELSE a
<1>1. a \in Int /\ a - q \in (-Half)..(Half - 1)
  BY Widths
<1>2. short(a - q) = a - q
  BY <1>1, ShortKeeps
<1>3. CASE a >= q
  BY <1>1, <1>2, <1>3, Widths DEF csubq
<1>4. CASE a < q
  <2>1. (a - q) + q = a /\ a - q < 0
    BY <1>1, <1>4, Widths
  <2>2. a \in (-Half)..(Half - 1)
    BY Widths
  <2>3. short(a) = a
    BY <2>2, ShortKeeps
  <2> QED
    BY <1>1, <1>2, <1>4, <2>1, <2>3, Widths DEF csubq
<1> QED
  BY <1>1, <1>3, <1>4, Widths

(***************************************************************************)
(* poly_reduce followed by the csubq of compression and packing gives the  *)
(* one residue in 0..q-1, whatever the 16-bit number: packing, which every *)
(* comparison of ciphertexts and keys works on, is canonical there.        *)
(***************************************************************************)
THEOREM ReducedFormCanonical ==
  ASSUME NEW a \in int16
  PROVE  csubq(barrett_reduce(a)) = a % q
<1> DEFINE b == barrett_reduce(a)
<1>1. b \in 0..q /\ b % q = a % q
  BY BarrettReduces
<1> HIDE DEF b
<1>2. b \in (q - Half)..(Half - 1)
  BY <1>1, Widths
<1>3. csubq(b) = IF b >= q THEN b - q ELSE b
  BY <1>2, Csubq
<1>4. CASE b < q
  <2>1. b % q = b
    BY <1>1, <1>4, Widths
  <2> QED
    BY <1>1, <1>3, <1>4, <2>1, Widths DEF b
<1>5. CASE b >= q
  <2>1. b = q
    BY <1>1, <1>5, Widths
  <2>2. q % q = 0
    BY Widths
  <2> QED
    BY <1>1, <1>3, <2>1, <2>2, Widths DEF b
<1> QED
  BY <1>1, <1>4, <1>5, Widths

----------------------------------------------------------------------------

KemSpec == KemInit /\ [][KemNext]_kemVars

(* The hash of a message and a key, and the ciphertext its coins give.     *)
Hashed(x, pk) == hash_g([m |-> x, h |-> hash_h(pk)])
Encapsulated(x, pk) == pack_ciphertext(indcpa_enc(x, pk, Hashed(x, pk)[2]))

(* A ciphertext that decrypts to another message than it was made from is  *)
(* not the one that the other message gives.                               *)
NoSharedCiphertext ==
  \A d \in Draws, x \in Messages :
    LET k == indcpa_keypair(d)
        y == indcpa_dec(Encapsulated(x, k.pk), k.sk)
    IN  y # x => Encapsulated(y, k.pk) # Encapsulated(x, k.pk)

Decrypted == indcpa_dec(arrived, sk.sk)

(* The secret of a decapsulation, by cases.                                *)
Decapsulated ==
  kdf(IF Encapsulated(Decrypted, sk.pk) = arrived
      THEN Hashed(Decrypted, sk.pk)[1] ELSE sk.z,
      hash_h(arrived))

HasKey == kemPc # "keypair" =>
            /\ kemDraw \in Draws
            /\ sk.sk = indcpa_keypair(kemDraw).sk
            /\ sk.pk = indcpa_keypair(kemDraw).pk
            /\ sk.h = hash_h(sk.pk)
            /\ sk.z \in RejectKeys
HasText == kemPc \in {"transit", "dec", "done"} =>
             /\ m \in Messages
             /\ ct = Encapsulated(m, sk.pk)
             /\ ssEnc = kdf(Hashed(m, sk.pk)[1], hash_h(ct))
HasArrived ==
  kemPc \in {"dec", "done"} => arrived \in {ct} \cup Altered(ct)
HasSecret == kemPc = "done" => ssDec = Decapsulated

KemInv == HasKey /\ HasText /\ HasArrived /\ HasSecret

LEMMA KeypairKeeps ==
  ASSUME KemInv, crypto_kem_keypair
  PROVE  KemInv'
<1>1. /\ kemPc' = "enc" /\ kemDraw' \in Draws
      /\ \E z \in RejectKeys :
           sk' = [sk |-> indcpa_keypair(kemDraw').sk,
                  pk |-> indcpa_keypair(kemDraw').pk,
                  h |-> hash_h(indcpa_keypair(kemDraw').pk), z |-> z]
  BY DEF crypto_kem_keypair
<1>2. PICK z \in RejectKeys :
           sk' = [sk |-> indcpa_keypair(kemDraw').sk,
                  pk |-> indcpa_keypair(kemDraw').pk,
                  h |-> hash_h(indcpa_keypair(kemDraw').pk), z |-> z]
  BY <1>1
<1>3. /\ sk'.sk = indcpa_keypair(kemDraw').sk
      /\ sk'.pk = indcpa_keypair(kemDraw').pk
      /\ sk'.h = hash_h(indcpa_keypair(kemDraw').pk)
      /\ sk'.z \in RejectKeys
  BY <1>2
<1>4. HasKey'
  BY <1>1, <1>3 DEF HasKey
<1> QED
  BY <1>1, <1>4 DEF KemInv, HasText, HasArrived, HasSecret

LEMMA EncKeeps ==
  ASSUME KemInv, crypto_kem_enc
  PROVE  KemInv'
<1>1. /\ kemPc = "enc" /\ kemPc' = "transit" /\ m' \in Messages
      /\ UNCHANGED <<kemDraw, sk>>
  BY DEF crypto_kem_enc
<1>2. /\ ct' = Encapsulated(m', sk.pk)
      /\ ssEnc' = kdf(Hashed(m', sk.pk)[1], hash_h(ct'))
  BY DEF crypto_kem_enc, Encapsulated, Hashed
<1>3. HasKey'
  BY <1>1 DEF KemInv, HasKey
<1>4. HasText'
  BY <1>1, <1>2 DEF HasText
<1> QED
  BY <1>1, <1>3, <1>4 DEF KemInv, HasArrived, HasSecret

LEMMA TransitKeeps ==
  ASSUME KemInv, Transit
  PROVE  KemInv'
<1>1. /\ kemPc = "transit" /\ kemPc' = "dec"
      /\ arrived' \in {ct} \cup Altered(ct)
      /\ UNCHANGED <<kemDraw, sk, m, ct, ssEnc, ssDec>>
  BY DEF Transit
<1> QED
  BY <1>1 DEF KemInv, HasKey, HasText, HasArrived, HasSecret

LEMMA DecKeeps ==
  ASSUME KemInv, crypto_kem_dec
  PROVE  KemInv'
<1>1. /\ kemPc = "dec" /\ kemPc' = "done"
      /\ UNCHANGED <<kemDraw, sk, m, ct, ssEnc, arrived>>
  BY DEF crypto_kem_dec
<1>2. sk.h = hash_h(sk.pk)
  BY <1>1 DEF KemInv, HasKey
<1>3. ssDec' = Decapsulated
  BY <1>2 DEF crypto_kem_dec, Decapsulated, Decrypted, Encapsulated, Hashed,
              fails
<1>4. Decapsulated' = Decapsulated
  BY <1>1 DEF Decapsulated, Decrypted
<1> QED
  BY <1>1, <1>3, <1>4 DEF KemInv, HasKey, HasText, HasArrived, HasSecret

LEMMA KemInvariance == KemSpec => []KemInv
<1>1. KemInit => KemInv
  BY DEF KemInit, KemInv, HasKey, HasText, HasArrived, HasSecret
<1>2. KemInv /\ [KemNext]_kemVars => KemInv'
  <2> SUFFICES ASSUME KemInv, [KemNext]_kemVars PROVE KemInv'
    OBVIOUS
  <2>1. CASE KemNext
    BY <2>1, KeypairKeeps, EncKeeps, TransitKeeps, DecKeeps DEF KemNext
  <2>2. CASE UNCHANGED kemVars
    BY <2>2 DEF kemVars, KemInv, HasKey, HasText, HasArrived, HasSecret,
                Decapsulated, Decrypted
  <2> QED
    BY <2>1, <2>2
<1> QED
  BY <1>1, <1>2, PTL DEF KemSpec

(***************************************************************************)
(* A ciphertext that was altered but decrypts to the message it was made   *)
(* from is answered with the secret of z, and one that arrives as it was   *)
(* sent and decrypts to that message with the sender's secret.             *)
(***************************************************************************)
AlteredRejected ==
  kemPc = "done" /\ Decrypted = m =>
    ssDec = IF arrived = ct THEN ssEnc ELSE kdf(sk.z, hash_h(arrived))

THEOREM RejectsAltered == KemSpec => []AlteredRejected
<1>1. KemInv => AlteredRejected
  BY DEF KemInv, HasText, HasSecret, Decapsulated, AlteredRejected
<1> QED
  BY <1>1, KemInvariance, PTL

(***************************************************************************)
(* If no two messages share a ciphertext under their own coins, the secret *)
(* of z also answers an unaltered ciphertext that decrypts to another      *)
(* message than it was made from: RejectsByKey.                            *)
(***************************************************************************)
THEOREM FailureAnsweredByKey ==
  NoSharedCiphertext /\ KemSpec => []RejectsByKey
<1> SUFFICES ASSUME NoSharedCiphertext PROVE KemSpec => []RejectsByKey
  OBVIOUS
<1>1. KemInv => RejectsByKey
  <2> SUFFICES ASSUME KemInv, kemPc = "done",
                      (Decrypted = m) # (arrived = ct)
               PROVE  ssDec = kdf(sk.z, hash_h(arrived))
    BY DEF RejectsByKey, Decrypted
  <2>1. /\ kemDraw \in Draws /\ m \in Messages
        /\ sk.sk = indcpa_keypair(kemDraw).sk
        /\ sk.pk = indcpa_keypair(kemDraw).pk
        /\ ct = Encapsulated(m, sk.pk) /\ ssDec = Decapsulated
    BY DEF KemInv, HasKey, HasText, HasSecret
  <2>2. Encapsulated(Decrypted, sk.pk) # arrived
    <3>1. CASE Decrypted = m
      BY <2>1, <3>1
    <3>2. CASE arrived = ct
      <4>1. Decrypted # m
        BY <3>2
      <4>2. Decrypted = indcpa_dec(Encapsulated(m, indcpa_keypair(kemDraw).pk),
                                   indcpa_keypair(kemDraw).sk)
        BY <2>1, <3>2 DEF Decrypted
      <4> QED
        BY <2>1, <3>2, <4>1, <4>2 DEF NoSharedCiphertext
    <3> QED
      BY <3>1, <3>2
  <2> QED
    BY <2>1, <2>2 DEF Decapsulated
<1> QED
  BY <1>1, KemInvariance, PTL

----------------------------------------------------------------------------

(***************************************************************************)
(* Kyber: numbers modulo q, Montgomery products, least representatives.    *)
(***************************************************************************)

(* Adding and taking away on both sides of a congruence, in one step.      *)
LEMMA CongruentBy ==
  ASSUME NEW n \in Nat \ {0}, NEW x \in Int, NEW y \in Int, NEW k \in Int, x = y + n * k
  PROVE  Congruent(x, y, n)
  BY CongruentMultiple

(* R has an inverse modulo q.                                              *)
LEMMA RadixInverse == \E y \in Int : Congruent(R * y, 1, q)
<1>1. QINV \in Int /\ q \in Int /\ QINV * q \in Int
  BY MontgomeryAssumption, Widths
<1> DEFINE p == QINV * q  d == p \div R
<1>2. p = R * d + (p % R) /\ d \in Int
  BY <1>1, Widths, DivMod
<1>3. p % R = 1
  BY MontgomeryAssumption
<1> HIDE DEF d
<1> DEFINE y == -d
<1>4. y \in Int /\ R * y = -(R * d)
  BY <1>2, Widths
<1>5. R * y = 1 + q * (-QINV)
  <2> DEFINE u == R * d
  <2>1. u \in Int
    BY <1>2, Widths
  <2>2. q * (-QINV) = -p
    BY <1>1
  <2> HIDE DEF u, p
  <2>3. p \in Int
    BY <1>1 DEF p
  <2> QED
    BY <1>2, <1>3, <1>4, <2>1, <2>2, <2>3 DEF u
<1> HIDE DEF y
<1> DEFINE x == R * y
<1> DEFINE k == -QINV  one == 1
<1>6. x \in Int /\ k \in Int /\ one \in Int /\ q \in Nat \ {0}
  BY <1>1, <1>4, Widths
<1>7. x = one + q * k
  BY <1>5
<1> HIDE DEF x, k, one
<1>8. Congruent(x, one, q)
  BY <1>6, <1>7, CongruentBy
<1> QED
  BY <1>4, <1>8 DEF x, one

(* A factor R on both sides of a congruence may be left out.               *)
LEMMA RadixCancels ==
  ASSUME NEW a \in Int, NEW b \in Int, Congruent(R * a, R * b, q)
  PROVE  Congruent(a, b, q)
<1>1. PICK y \in Int : Congruent(R * y, 1, q)
  BY RadixInverse
<1> DEFINE u == R * y
<1>2. u \in Int /\ R * a \in Int /\ R * b \in Int
  BY Widths
<1>3. Congruent((R * a) * y, (R * b) * y, q)
  BY <1>2, Widths, CongruentScale
<1>4. (R * a) * y = u * a /\ (R * b) * y = u * b
  BY Widths
<1>5. Congruent(u, 1, q)
  BY <1>1
<1> DEFINE one == 1
<1> HIDE DEF u
<1>6. Congruent(u * a, one * a, q) /\ Congruent(u * b, one * b, q)
  <2>1. one \in Int /\ Congruent(u, one, q) /\ q \in Nat \ {0}
    BY <1>5, Widths
  <2> HIDE DEF one
  <2> QED
    BY <1>2, <2>1, CongruentScale
<1>7. one * a = a /\ one * b = b
  OBVIOUS

<1>8. Congruent(u * a, u * b, q)
  BY <1>3, <1>4
<1> QED
  BY <1>6, <1>7, <1>8, CongruentEquivalence

(* A short times a number up to q is in reach of montgomery_reduce.        *)
LEMMA ShortTimes ==
  ASSUME NEW a \in (-Half)..(Half - 1), NEW b \in (1 - q)..q
  PROVE  a * b \in Int /\ -(q * Half) <= a * b /\ a * b < q * Half
<1>1. a \in Int /\ b \in Int /\ Half \in Nat \ {0} /\ q \in Nat \ {0}
  BY Widths
<1>2. CASE b >= 0
  <2>1. a + Half \in Nat /\ Half - 1 - a \in Nat /\ b \in Nat /\ q - b \in Nat
    BY <1>1, <1>2
  <2>2. (a + Half) * b \in Nat /\ ((Half - 1) - a) * b \in Nat /\ Half * (q - b) \in Nat
    BY <1>1, <2>1
  <2>3. (a + Half) * b = a * b + Half * b
    BY <1>1
  <2>4. ((Half - 1) - a) * b = (Half * b - b) - a * b
    BY <1>1
  <2>5. Half * (q - b) = q * Half - Half * b
    BY <1>1
  <2>6. q * Half \in Nat /\ Half * b \in Int /\ a * b \in Int
    BY <1>1
  <2> DEFINE u == a * b  v == Half * b  w == q * Half
  <2>7. u \in Int /\ v \in Int /\ w \in Nat
    BY <2>6
  <2>8. u + v >= 0 /\ v - b - u >= 0 /\ w - v >= 0
    BY <2>2, <2>3, <2>4, <2>5
  <2>9. b > 0 \/ u = 0
    BY <1>1, <1>2
  <2>10. w > 0
    BY <1>1
  <2> HIDE DEF u, v, w
  <2>11. -w <= u /\ u < w
    BY <1>1, <1>2, <2>7, <2>8, <2>9, <2>10
  <2> QED
    BY <2>7, <2>11 DEF u, w
<1>3. CASE b < 0
  <2> DEFINE c == -b
  <2>1. a + Half \in Nat /\ Half - 1 - a \in Nat /\ c \in Nat \ {0} /\ q - 1 - c \in Nat
    BY <1>1, <1>3
  <2>2. (a + Half) * c \in Nat /\ ((Half - 1) - a) * c \in Nat /\ Half * ((q - 1) - c) \in Nat
    BY <1>1, <2>1
  <2>3. (a + Half) * c = Half * c - a * b
    BY <1>1
  <2>4. ((Half - 1) - a) * c = (Half * c - c) + a * b
    BY <1>1
  <2>5. Half * ((q - 1) - c) = (q * Half - Half) - Half * c
    BY <1>1
  <2>6. q * Half \in Nat /\ Half * c \in Int /\ a * b \in Int
    BY <1>1
  <2> DEFINE u == a * b  v == Half * c  w == q * Half
  <2>7. u \in Int /\ v \in Int /\ w \in Nat
    BY <2>6
  <2>8. v - u >= 0 /\ (v - c) + u >= 0 /\ (w - Half) - v >= 0
    BY <2>2, <2>3, <2>4, <2>5
  <2> HIDE DEF u, v, w, c
  <2>9. -w <= u /\ u < w
    BY <1>1, <2>1, <2>7, <2>8
  <2> QED
    BY <2>7, <2>9 DEF u, w
<1> QED
  BY <1>1, <1>2, <1>3

LEMMA Shorts == int16 = (-Half)..(Half - 1) /\ int16 \subseteq Int
  BY Widths DEF int16, Half

(* fqmul divides the product by R, and is smaller than q in magnitude.     *)
LEMMA Fqmul ==
  ASSUME NEW a \in int16, NEW b \in (1 - q)..q
  PROVE  /\ fqmul(a, b) \in (1 - q)..(q - 1) /\ fqmul(a, b) \in Int
         /\ Congruent(R * fqmul(a, b), a * b, q)
<1>1. a \in (-Half)..(Half - 1)
  BY Shorts
<1> DEFINE p == a * b
<1>2. p \in Int /\ -(q * Half) <= p /\ p < q * Half
  BY <1>1, ShortTimes
<1> HIDE DEF p
<1>3. /\ montgomery_reduce(p) \in (1 - q)..(q - 1)
      /\ (R * montgomery_reduce(p)) % q = p % q
  BY <1>2, MontgomeryReduces
<1>4. fqmul(a, b) = montgomery_reduce(p)
  BY DEF fqmul, p
<1>5. Congruent(R * fqmul(a, b), p, q)
  BY <1>3, <1>4 DEF Congruent
<1>6. \A x \in (1 - q)..(q - 1) : x \in Int
  BY Widths
<1> QED
  BY <1>3, <1>4, <1>5, <1>6 DEF p

(* The factor may come first, and if it is a multiple of R modulo q, R     *)
(* goes away.                                                              *)
LEMMA FqmulBy ==
  ASSUME NEW a \in int16, NEW b \in (1 - q)..q, NEW w \in Int, Congruent(b, w * R, q)
  PROVE  /\ fqmul(b, a) = fqmul(a, b)
         /\ Congruent(fqmul(a, b), w * a, q)
<1>1. a \in Int /\ b \in Int
  BY Shorts, Widths
<1>2. fqmul(b, a) = fqmul(a, b)
  <2>1. a * b = b * a
    BY <1>1
  <2> QED
    BY <2>1 DEF fqmul
<1> DEFINE f == fqmul(a, b)
<1>3. f \in Int /\ Congruent(R * f, a * b, q)
  BY Fqmul
<1> HIDE DEF f
<1>4. w * R \in Int /\ w * a \in Int /\ R * f \in Int /\ a * b \in Int
  BY <1>1, <1>3, Widths
<1>5. Congruent(a * b, a * (w * R), q)
  BY <1>1, <1>4, Widths, CongruentScale
<1>6. a * (w * R) = R * (w * a)
  BY <1>1, Widths
<1>7. Congruent(R * f, R * (w * a), q)
  BY <1>3, <1>5, <1>6, CongruentEquivalence
<1>8. Congruent(f, w * a, q)
  BY <1>3, <1>4, <1>7, RadixCancels
<1> QED
  BY <1>2, <1>8 DEF f

(* centre is the least representative.                                     *)
LEMMA Centre ==
  ASSUME NEW x \in Int
  PROVE  /\ centre(x) \in (-(q \div 2))..(q \div 2) /\ centre(x) \in Int
         /\ Congruent(centre(x), x, q)
<1> DEFINE h == q \div 2  y == x + h  r == y % q  d == y \div q
<1>1. h \in Nat /\ q = 2 * h + 1
  BY ModulusAssumption
<1>2. y \in Int
  BY <1>1
<1> HIDE DEF h
<1>3. y = q * d + r /\ d \in Int /\ r \in 0..(q - 1)
  <2> HIDE DEF y
  <2> QED
    BY <1>2, Widths, DivMod
<1>4. centre(x) = r - h
  BY DEF centre, h
<1> HIDE DEF r, d
<1>5. r - h \in (-h)..h
  BY <1>1, <1>3
<1> DEFINE k == -d  c == r - h
<1>6. k \in Int /\ c \in Int /\ q * k = -(q * d)
  BY <1>1, <1>3, Widths
<1> HIDE DEF k
<1>7. c = x + q * k
  <2> DEFINE u == q * d
  <2>1. u \in Int
    BY <1>3, Widths
  <2> HIDE DEF u
  <2> QED
    BY <1>1, <1>3, <1>6, <2>1 DEF u
<1> HIDE DEF c
<1>8. Congruent(c, x, q)
  BY <1>6, <1>7, Widths, CongruentBy
<1> QED
  BY <1>4, <1>5, <1>6, <1>8 DEF c, h

(* Small numbers that are congruent are equal.                             *)
LEMMA SmallEqual ==
  ASSUME NEW x \in Int, NEW y \in Int, Congruent(x, y, q), -q < x - y, x - y < q
  PROVE  x = y
<1>1. PICK k \in Int : x = y + q * k
  BY Widths, CongruentMultiple
<1> DEFINE u == q * k
<1>2. u \in Int /\ x = y + u
  BY <1>1, Widths
<1> HIDE DEF u
<1>3. -q < u /\ u < q
  BY <1>2, Widths
<1>4. k = 0
  BY <1>3, Widths, SmallMultiple DEF u
<1>5. u = 0
  BY <1>4, Widths DEF u
<1> QED
  BY <1>2, <1>5

(* The magnitude of a number.                                              *)
LEMMA Size ==
  ASSUME NEW x \in Int
  PROVE  /\ size(x) \in Nat /\ x <= size(x) /\ -x <= size(x)
         /\ \A b \in Int : size(x) <= b <=> x <= b /\ -x <= b
  BY DEF size

(* The centre of a number is no larger than what the number is congruent to*)
LEMMA CentreLeast ==
  ASSUME NEW x \in Int, NEW e \in Int, Congruent(x, e, q)
  PROVE  size(centre(x)) <= size(e)
<1> DEFINE c == centre(x)  h == q \div 2
<1>1. h \in Nat /\ q = 2 * h + 1
  BY ModulusAssumption
<1>2. c \in (-h)..h /\ c \in Int /\ Congruent(c, x, q)
  BY Centre
<1> HIDE DEF c, h
<1>3. Congruent(c, e, q)
  BY <1>2, CongruentEquivalence
<1>4. CASE size(e) > h
  <2>1. size(c) <= h
    BY <1>1, <1>2, Size
  <2> QED
    BY <1>1, <1>2, <1>4, <2>1, Size DEF c
<1>5. CASE size(e) <= h
  <2>1. e <= h /\ -e <= h
    BY <1>1, <1>5, Size
  <2>2. -q < c - e /\ c - e < q
    BY <1>1, <1>2, <2>1
  <2>3. c = e
    BY <1>2, <1>3, <2>2, SmallEqual
  <2> QED
    BY <2>3, Size DEF c
<1> QED
  BY <1>1, <1>4, <1>5, Size

LEMMA HalfModulus == (q \div 2) \in Nat /\ q = 2 * (q \div 2) + 1
  BY ModulusAssumption

(* The canonical residue of a reduced coefficient.                         *)
LEMMA CsubqReduced ==
  ASSUME NEW a \in 0..q
  PROVE  /\ csubq(a) \in 0..(q - 1) /\ csubq(a) \in Int /\ Congruent(csubq(a), a, q)
         /\ a # q => csubq(a) = a
<1>1. a \in (q - Half)..(Half - 1)
  BY Widths
<1>2. csubq(a) = IF a >= q THEN a - q ELSE a
  BY <1>1, Csubq
<1>3. CASE a < q
  BY <1>2, <1>3, Widths DEF Congruent
<1>4. CASE a = q
  <2>1. csubq(a) = 0
    BY <1>2, <1>4, Widths
  <2>2. 0 % q = q % q
    BY Widths
  <2> QED
    BY <1>4, <2>1, <2>2, Widths DEF Congruent
<1> QED
  BY <1>3, <1>4, Widths

LEMMA QuotientBound ==
  ASSUME NEW n \in Nat \ {0}, NEW y \in Int, NEW k \in Int
  PROVE  /\ k * n <= y => k <= y \div n
         /\ y < k * n => y \div n < k
<1> DEFINE d == y \div n  r == y % n
<1>1. y = n * d + r /\ d \in Int /\ r \in 0..(n - 1)
  BY DivMod
<1> HIDE DEF d, r
<1>2. ASSUME k * n <= y PROVE k <= d
  <2> SUFFICES ASSUME d < k PROVE FALSE
    BY <1>1
  <2> DEFINE j == k - d - 1
  <2>1. j \in Nat
    BY <1>1
  <2>2. k * n = (n * d + n) + n * j
    BY <1>1
  <2>3. n * j \in Nat
    BY <2>1
  <2> DEFINE u == n * d  v == n * j  w == k * n
  <2>4. u \in Int /\ v \in Nat /\ w \in Int
    BY <1>1, <2>3
  <2>5. w = u + n + v /\ w <= y /\ y = u + r
    BY <1>1, <1>2, <2>2
  <2> HIDE DEF u, v, w, j
  <2> QED
    BY <1>1, <2>4, <2>5
<1>3. ASSUME y < k * n PROVE d < k
  <2> SUFFICES ASSUME k <= d PROVE FALSE
    BY <1>1
  <2> DEFINE j == d - k
  <2>1. j \in Nat
    BY <1>1
  <2>2. n * d = k * n + n * j
    BY <1>1
  <2>3. n * j \in Nat
    BY <2>1
  <2> DEFINE u == n * d  v == n * j  w == k * n
  <2>4. u \in Int /\ v \in Nat /\ w \in Int
    BY <1>1, <2>3
  <2>5. u = w + v /\ y < w /\ y = u + r
    BY <1>1, <1>3, <2>2
  <2> HIDE DEF u, v, w, j
  <2> QED
    BY <1>1, <2>4, <2>5
<1> QED
  BY <1>2, <1>3 DEF d

(* The bits of a compressed coefficient.                                   *)
LEMMA Widening ==
  ASSUME NEW d \in Nat \ {0}
  PROVE  /\ two_to[d - 1] \in Nat \ {0} /\ two_to[d] \in Nat \ {0}
         /\ two_to[d] = 2 * two_to[d - 1] /\ two_to[d + 1] = 2 * two_to[d]
<1>1. d - 1 \in Nat /\ (d - 1) + 1 = d
  OBVIOUS
<1> QED
  BY <1>1, TwoTo

LEMMA DecompressRange ==
  ASSUME NEW d \in Nat \ {0}, NEW t \in 0..(two_to[d] - 1)
  PROVE  decompress(t, d) \in 0..q /\ short(decompress(t, d)) = decompress(t, d)
<1> DEFINE D == two_to[d]  E == two_to[d - 1]  y == t * q + E
<1>1. D \in Nat \ {0} /\ E \in Nat \ {0} /\ D = 2 * E /\ t \in 0..(D - 1)
  BY Widening
<1>2. decompress(t, d) = y \div D
  BY DEF decompress
<1> HIDE DEF D, E
<1>3. t * q \in Nat /\ ((D - 1) - t) * q \in Nat
  BY <1>1, Widths
<1>4. ((D - 1) - t) * q = (D * q - q) - t * q
  BY <1>1, Widths
<1>5. D * q \in Nat /\ (q + 1) * D = D * q + D
  BY <1>1, Widths
<1>6. y \in Nat /\ y < (q + 1) * D
  BY <1>1, <1>3, <1>4, <1>5, Widths
<1> HIDE DEF y
<1>7. y \div D < q + 1 /\ 0 <= y \div D /\ y \div D \in Int
  <2> DEFINE o == 0  k == q + 1
  <2>1. o * D <= y /\ y < k * D
    BY <1>1, <1>6
  <2>2. k \in Int /\ o \in Int /\ y \in Int
    BY <1>6, Widths
  <2> HIDE DEF o, k
  <2>3. y \div D < k /\ o <= y \div D /\ y \div D \in Int
    BY <1>1, <2>1, <2>2, QuotientBound, DivMod
  <2> QED
    BY <2>3 DEF o, k
<1>8. decompress(t, d) \in 0..q
  BY <1>2, <1>7, Widths
<1>9. \A x \in 0..q : x \in (-Half)..(Half - 1)
  BY Widths
<1> QED
  BY <1>8, <1>9, ShortKeeps

(* Compression and decompression move a coefficient by at most Rounding.   *)
LEMMA CompressRounds ==
  ASSUME NEW d \in Nat \ {0}, two_to[d] <= R, NEW a \in 0..q
  PROVE  /\ compress(a, d) \in 0..(two_to[d] - 1)
         /\ \E f \in (-Rounding(d))..Rounding(d) :
              f \in Int /\ Congruent(decompress(compress(a, d), d), a + f, q)
<1> DEFINE D == two_to[d]  E == two_to[d - 1]  c == csubq(a)  h == q \div 2
           x == c * D + h  rr == R * R
<1>1. D \in Nat \ {0} /\ E \in Nat \ {0} /\ D = 2 * E /\ two_to[d + 1] = 2 * D /\ D <= R
  BY Widening
<1>2. h \in Nat /\ q = 2 * h + 1
  BY HalfModulus
<1>3. c \in 0..(q - 1) /\ c \in Int /\ Congruent(c, a, q)
  BY CsubqReduced
<1>4. compress(a, d) = ((x % rr) \div q) % D
  BY DEF compress
<1>5. Rounding(d) = (q + D) \div (2 * D)
  BY <1>1 DEF Rounding
<1> HIDE DEF D, E, c, h
<1>6. c * D \in Nat /\ ((q - 1) - c) * D \in Nat /\ (R - D) * q \in Nat /\ ((R - q) * R) \in Nat
  BY <1>1, <1>3, Widths
<1>7. /\ ((q - 1) - c) * D = (q * D - D) - c * D
      /\ (R - D) * q = R * q - q * D
      /\ (R - q) * R = R * R - R * q
  BY <1>1, <1>3, Widths
<1>8. q * D \in Nat /\ R * q \in Nat /\ R * R \in Nat
  BY <1>1, Widths
<1>9. x \in Nat /\ x <= (q * D - D) + h /\ x < rr /\ rr \in Nat \ {0}
  <2> DEFINE u == c * D  v == q * D  w == R * q
  <2>1. u \in Nat /\ v \in Nat /\ w \in Nat /\ rr \in Nat
    BY <1>6, <1>8
  <2>2. (v - D) - u >= 0 /\ w - v >= 0 /\ rr - w >= 0 /\ x = u + h
    BY <1>6, <1>7
  <2>3. x >= 0 /\ x <= (v - D) + h /\ x \in Int
    <3> HIDE DEF u, v
    <3> QED
      BY <1>1, <1>2, <2>1, <2>2
  <2>4. (R - q) * R >= R
    BY Widths
  <2>5. rr >= w + R
    <3> DEFINE p == (R - q) * R
    <3>1. p \in Nat /\ p = rr - w /\ p >= R
      BY <1>6, <1>7, <2>4
    <3> HIDE DEF p, rr, w
    <3> QED
      BY <2>1, <3>1, Widths
  <2>6. x < rr
    <3> HIDE DEF x, u, v, w, rr
    <3> QED
      BY <1>1, <1>2, <2>1, <2>2, <2>3, <2>5, Widths
  <2> QED
    BY <2>1, <2>3, <2>6
<1>10. x % rr = x
  <2> HIDE DEF x, rr
  <2> QED
    BY <1>9
<1> DEFINE u == x \div q  r == x % q
<1>11. x = q * u + r /\ u \in Int /\ r \in 0..(q - 1)
  <2>1. x \in Int /\ q \in Nat \ {0}
    BY <1>9, Widths
  <2> HIDE DEF x
  <2> QED
    BY <2>1, DivMod
<1>12. 0 <= u /\ u < D + 1
  <2>1. (D + 1) * q = q * D + q
    BY <1>1, Widths
  <2>2. x < (D + 1) * q /\ 0 * q <= x
    BY <1>1, <1>2, <1>8, <1>9, <2>1, Widths
  <2> HIDE DEF x
  <2> QED
    BY <1>1, <1>9, <2>2, Widths, QuotientBound
<1> DEFINE t == u % D
<1>13. compress(a, d) = t
  BY <1>4, <1>10
<1>14. t \in 0..(D - 1)
  <2> HIDE DEF u
  <2> QED
    BY <1>1, <1>11
(* Before the mask, what decompression gives is off by f.                  *)
<1> DEFINE e == h - r  f == (e + E) \div D  g == (e + E) % D
<1>15. e \in (-h)..h /\ q * u = c * D + e
  <2> DEFINE v == q * u  w == c * D
  <2>1. v \in Int /\ w \in Nat /\ x = w + h /\ x = v + r
    BY <1>6, <1>8, <1>11, Widths
  <2>2. r \in 0..(2 * h)
    BY <1>2, <1>11
  <2> HIDE DEF v, w, x, r
  <2>3. e \in (-h)..h /\ v = w + e
    BY <1>2, <2>1, <2>2
  <2> HIDE DEF e
  <2> QED
    BY <2>3 DEF v, w
<1>16. e + E = D * f + g /\ f \in Int /\ g \in 0..(D - 1)
  <2>1. e + E \in Int
    BY <1>1, <1>15
  <2> HIDE DEF e
  <2> QED
    BY <1>1, <2>1, DivMod
<1>17. (u * q + E) \div D = c + f
  <2> DEFINE v == c * D  w == D * f  y == u * q + E
  <2>1. u * q = q * u
    BY <1>11, Widths
  <2>2. y = v + (e + E)
    <3>1. v \in Nat /\ e \in Int /\ q * u = v + e
      BY <1>6, <1>15
    <3> HIDE DEF v, e
    <3> QED
      BY <1>1, <2>1, <3>1
  <2>3. v \in Nat /\ w \in Int /\ D * (c + f) = v + w
    BY <1>1, <1>3, <1>6, <1>16
  <2>4. c + f \in Int /\ y \in Int
    BY <1>1, <1>3, <1>11, <1>16, Widths
  <2>5. y = D * (c + f) + g
    <3> HIDE DEF v, w, e, y, f, g
    <3> QED
      BY <1>16, <2>2, <2>3 DEF w
  <2> DEFINE k == c + f
  <2>6. k \in Int /\ y = D * k + g
    BY <2>4, <2>5
  <2> HIDE DEF y, v, w, f, g, k
  <2>7. y \div D = k
    BY <1>1, <1>16, <2>4, <2>6, QuotientUnique
  <2> QED
    BY <2>7 DEF y, k

<1>18. f \in (-Rounding(d))..Rounding(d)
  <2> DEFINE w == D * f  n == 2 * D  y == q + D
  <2>1. w \in Int /\ e + E = w + g /\ e \in Int
    BY <1>1, <1>15, <1>16
  <2>2. f * n = 2 * w /\ (-f) * n = -(2 * w) /\ n \in Nat \ {0} /\ y \in Int /\ -f \in Int
    BY <1>1, <1>16, Widths
  <2> HIDE DEF w, f, g, e, n
  <2>3. 2 * w <= y /\ -(2 * w) <= y
    BY <1>1, <1>2, <1>15, <1>16, <2>1
  <2>4. f <= y \div n /\ -f <= y \div n
    <3> HIDE DEF y
    <3> QED
      BY <1>16, <2>2, <2>3, QuotientBound
  <2>5. y \div n \in Int
    <3> HIDE DEF y
    <3> QED
      BY <2>2, DivMod
  <2>6. Rounding(d) = y \div n
    BY <1>5 DEF y, n
  <2> QED
    BY <1>16, <2>4, <2>5, <2>6
<1>19. Congruent(decompress(t, d), c + f, q)
  <2>1. CASE u < D
    <3>1. t = u
      <4> HIDE DEF u
      <4> QED
        BY <1>1, <1>11, <1>12, <2>1
    <3>2. decompress(t, d) = c + f
      BY <1>17, <3>1 DEF decompress, D, E
    <3> QED
      BY <3>2, CongruentEquivalence
  <2>2. CASE u = D
    <3>1. t = 0
      <4> HIDE DEF u
      <4> QED
        BY <1>1, <2>2
    <3>2. decompress(t, d) = 0
      <4> HIDE DEF t
      <4>1. t * q = 0
        BY <3>1, Widths
      <4>2. decompress(t, d) = E \div D
        <5>1. decompress(t, d) = (t * q + E) \div D
          BY DEF decompress, D, E
        <5>2. t * q + E = E
          BY <1>1, <4>1
        <5> QED
          BY <5>1, <5>2
      <4>3. E \div D = 0
        <5>1. E = D * 0 + E /\ E \in 0..(D - 1) /\ E \in Int
          BY <1>1
        <5> QED
          BY <1>1, <5>1, QuotientUnique
      <4> QED
        BY <4>2, <4>3
    <3>3. c + f = q
      <4>1. D * q + E = D * q + E /\ D * q \in Int /\ u * q = D * q
        BY <1>1, <2>2, Widths
      <4> DEFINE y == u * q + E
      <4>2. y = D * q + E /\ y \in Int /\ q \in Int /\ E \in 0..(D - 1)
        BY <1>1, <4>1, Widths
      <4> HIDE DEF y
      <4>3. y \div D = q
        BY <1>1, <4>2, QuotientUnique
      <4> QED
        BY <1>17, <4>3 DEF y
    <3>4. 0 % q = q % q
      BY Widths
    <3> QED
      BY <3>2, <3>3, <3>4 DEF Congruent
  <2>3. u \in Nat /\ u <= D
    <3> HIDE DEF u
    <3> QED
      BY <1>1, <1>11, <1>12
  <2> QED
    BY <1>1, <2>1, <2>2, <2>3
<1>20. Congruent(c + f, a + f, q)
  <2> HIDE DEF f
  <2>1. Congruent(f, f, q) /\ a \in Int
    BY Widths, CongruentEquivalence
  <2> QED
    BY <1>3, <1>16, <2>1, Widths, CongruentAdd
<1>21. Congruent(decompress(t, d), a + f, q)
  BY <1>19, <1>20, CongruentEquivalence
<1> HIDE DEF t, f
<1> QED
  BY <1>13, <1>14, <1>16, <1>18, <1>21 DEF D

(* What decryption makes of a coefficient: the exclusive or of the bits    *)
(* under it, if what is added is small.                                    *)
LEMMA TobitReads ==
  ASSUME NEW a \in 0..q, NEW x \in {0, 1}, NEW y \in {0, 1}, NEW n \in Int,
         Congruent(a, frombit(x) + frombit(y) + n, q), 4 * (size(n) + 1) < q
  PROVE  tobit(a) = (x + y) % 2
<1> DEFINE h == q \div 2  c == csubq(a)
<1>1. h \in Nat /\ q = 2 * h + 1 /\ h >= 1
  BY HalfModulus, ModulusAssumption
<1>2. c \in 0..(q - 1) /\ c \in Int /\ Congruent(c, a, q)
  BY CsubqReduced
<1>3. tobit(a) = ((2 * c + h) \div q) % 2
  BY DEF tobit
<1>4. (q + 1) \div 2 = h + 1
  BY HalfModulus, Widths
<1> HIDE DEF c, h
<1>5. 2 * n <= h - 2 /\ -(2 * n) <= h - 2
  BY <1>1, Size
<1>6. frombit(0) = 0 /\ frombit(1) = h + 1
  BY <1>1, <1>4 DEF frombit
<1>7. ASSUME NEW k \in Int, NEW b \in Int, NEW r \in Int, 2 * c + h = q * b + r, r \in 0..(q - 1)
      PROVE  (2 * c + h) \div q = b
  <2> DEFINE z == 2 * c + h
  <2>1. z \in Int /\ z = q * b + r
    BY <1>1, <1>2, <1>7
  <2> HIDE DEF z
  <2>2. z \div q = b
    BY <1>7, <2>1, Widths, QuotientUnique
  <2> QED
    BY <2>2 DEF z
(* A small number, or a negative one that q was added to.                  *)
<1>8. ASSUME NEW v \in Int, Congruent(c, v, q), 2 * v <= h, -(2 * v) <= h
      PROVE  tobit(a) = 0
  <2>1. CASE v >= 0
    <3>1. -q < c - v /\ c - v < q
      BY <1>1, <1>2, <1>8, <2>1
    <3>2. c = v
      BY <1>2, <1>8, <3>1, SmallEqual
    <3>3. 2 * c + h = q * 0 + (2 * c + h) /\ 2 * c + h \in 0..(q - 1)
      BY <1>1, <1>8, <2>1, <3>2
    <3>4. (2 * c + h) \div q = 0
      BY <1>1, <1>7, <3>3
    <3> QED
      BY <1>3, <3>4
  <2>2. CASE v < 0
    <3> DEFINE w == v + q
    <3>1. w \in Int /\ w = v + q * 1
      BY <1>1
    <3>2. Congruent(w, v, q)
      <4>1. 1 \in Int
        OBVIOUS
      <4> HIDE DEF w
      <4> QED
        BY <3>1, <4>1, Widths, CongruentBy
    <3>3. Congruent(c, w, q)
      BY <1>8, <3>2, CongruentEquivalence
    <3>4. -q < c - w /\ c - w < q
      BY <1>1, <1>2, <1>8, <2>2
    <3> HIDE DEF w
    <3>5. c = w
      BY <1>2, <3>1, <3>3, <3>4, SmallEqual
    <3>6. 2 * c + h = q * 2 + (2 * v + h) /\ 2 * v + h \in 0..(q - 1)
      BY <1>1, <1>8, <2>2, <3>5 DEF w
    <3>7. (2 * c + h) \div q = 2
      BY <1>1, <1>7, <3>6
    <3> QED
      BY <1>3, <3>7
  <2> QED
    BY <2>1, <2>2
(* A number near the middle.                                               *)
<1>9. ASSUME Congruent(c, n + (h + 1), q)
      PROVE  tobit(a) = 1
  <2> DEFINE w == n + (h + 1)
  <2>1. w \in Int /\ -q < c - w /\ c - w < q
    BY <1>1, <1>2, <1>5
  <2> HIDE DEF w
  <2>2. c = w
    BY <1>2, <1>9, <2>1, SmallEqual DEF w
  <2>3. 2 * c + h = q * 1 + (2 * n + h + 1) /\ 2 * n + h + 1 \in 0..(q - 1)
    BY <1>1, <1>5, <2>2 DEF w
  <2>4. (2 * c + h) \div q = 1
    BY <1>1, <1>7, <2>3
  <2> QED
    BY <1>3, <2>4
<1>10. Congruent(c, frombit(x) + frombit(y) + n, q)
  BY <1>2, CongruentEquivalence
<1>11. CASE x = 0 /\ y = 0
  <2>1. frombit(x) + frombit(y) + n = n
    BY <1>6, <1>11
  <2> QED
    BY <1>1, <1>5, <1>8, <1>10, <1>11, <2>1
<1>12. CASE x = 1 /\ y = 1
  <2> DEFINE v == n + 1  w == frombit(x) + frombit(y) + n
  <2>1. w = v + q * 1 /\ v \in Int /\ w \in Int
    BY <1>1, <1>6, <1>12
  <2>2. Congruent(w, v, q)
    <3>1. 1 \in Int
      OBVIOUS
    <3> HIDE DEF w, v
    <3> QED
      BY <2>1, <3>1, Widths, CongruentBy
  <2>3. Congruent(c, v, q)
    BY <1>10, <2>2, CongruentEquivalence
  <2>4. 2 * v <= h /\ -(2 * v) <= h
    BY <1>1, <1>5
  <2> HIDE DEF v
  <2> QED
    BY <1>8, <1>12, <2>1, <2>3, <2>4
<1>13. CASE x + y = 1
  <2>1. frombit(x) + frombit(y) + n = n + (h + 1)
    BY <1>1, <1>6, <1>13
  <2> QED
    BY <1>9, <1>10, <1>13, <2>1
<1> QED
  BY <1>11, <1>12, <1>13

----------------------------------------------------------------------------

(***************************************************************************)
(* Kyber: bytes and compression.                                           *)
(***************************************************************************)

(* The sums of the model are those that the lemmas are about.              *)
LEMMA SumOver ==
  ASSUME NEW f
  PROVE  SumFunction(f) = Sum(f, DOMAIN f)
  BY DEF SumFunction, Sum

(* n bits put together, and a number's bits put together.                  *)
LEMMA NumberOfBits ==
  ASSUME NEW n \in Nat, NEW f \in [Places(n) -> 0..1]
  PROVE  /\ SumFunction([j \in 0..(n - 1) |-> f[j] * two_to[j]]) \in 0..(two_to[n] - 1)
         /\ \A j \in Places(n) :
              bit(SumFunction([i \in 0..(n - 1) |-> f[i] * two_to[i]]), j) = f[j]
<1> DEFINE h == [j \in 0..(n - 1) |-> f[j] * two_to[j]]
<1>1. PICK x \in 0..(two_to[n] - 1) : \A j \in Places(n) : Digit(x, j, two_to, 2) = f[j]
  <2>1. f \in [Places(n) -> 0..(2 - 1)]
    OBVIOUS
  <2> QED
    BY <2>1, BitWeights, DigitsExist
<1>2. x \in Nat /\ two_to[n] \in Nat \ {0}
  BY TwoType
<1>3. Sum(Digits(x, n, two_to, 2), Places(n)) = x % two_to[n]
  BY <1>2, BitWeights, DigitsMakeUp
<1>4. x % two_to[n] = x
  <2> DEFINE t == two_to[n]
  <2>1. t \in Nat \ {0} /\ x \in 0..(t - 1) /\ x \in Int
    BY <1>2
  <2> HIDE DEF t
  <2>2. x % t = x
    BY <2>1
  <2> QED
    BY <2>2 DEF t
<1>5. h = Digits(x, n, two_to, 2)
  BY <1>1 DEF Digits, Places
<1>6. DOMAIN h = Places(n)
  BY DEF Places
<1>7. SumFunction(h) = x
  BY <1>3, <1>4, <1>5, <1>6, SumOver
<1>8. \A j \in Places(n) : bit(x, j) = f[j]
  BY <1>1 DEF Digit, bit
<1> QED
  BY <1>7, <1>8

LEMMA BitsOfNumber ==
  ASSUME NEW n \in Nat, NEW x \in 0..(two_to[n] - 1)
  PROVE  SumFunction([j \in 0..(n - 1) |-> bit(x, j) * two_to[j]]) = x
<1> DEFINE h == [j \in 0..(n - 1) |-> bit(x, j) * two_to[j]]
<1>2. x \in Nat /\ two_to[n] \in Nat \ {0}
  BY TwoType
<1>3. Sum(Digits(x, n, two_to, 2), Places(n)) = x % two_to[n]
  BY <1>2, BitWeights, DigitsMakeUp
<1>4. x % two_to[n] = x
  <2> DEFINE t == two_to[n]
  <2>1. t \in Nat \ {0} /\ x \in 0..(t - 1) /\ x \in Int
    BY <1>2
  <2> HIDE DEF t
  <2>2. x % t = x
    BY <2>1
  <2> QED
    BY <2>2 DEF t
<1>5. h = Digits(x, n, two_to, 2)
  BY DEF Digits, Places, Digit, bit
<1>6. DOMAIN h = Places(n)
  BY DEF Places
<1> QED
  BY <1>3, <1>4, <1>5, <1>6, SumOver

LEMMA BitIsBit ==
  ASSUME NEW x \in Nat, NEW j \in Nat
  PROVE  bit(x, j) \in 0..1
<1> DEFINE y == x \div two_to[j]
<1>1. y \in Nat
  BY TwoType, QuotientNat
<1> HIDE DEF y
<1>2. y % 2 \in 0..1
  BY <1>1
<1> QED
  BY <1>2 DEF bit, y

(* The number of coefficients is a multiple of 8.                          *)
LEMMA WholeBytes ==
  ASSUME NEW d \in Nat \ {0}
  PROVE  /\ N \in Nat \ {0} /\ \E k \in Nat \ {0} : N = 8 * k
         /\ N * d = 8 * ((N * d) \div 8) /\ (N * d) \div 8 \in Nat
<1>1. LogN - 3 \in Nat /\ LogN = 3 + (LogN - 3) /\ N = two_to[LogN] /\ 3 \in Nat
  BY RingAssumption
<1>2. two_to[3] = 8
  <2>1. two_to[0 + 1] = 2 * two_to[0] /\ two_to[1 + 1] = 2 * two_to[1] /\ two_to[2 + 1] = 2 * two_to[2]
    BY TwoTo
  <2> QED
    BY <2>1, TwoTo
<1> DEFINE e == LogN - 3  k == two_to[e]
<1>3. k \in Nat \ {0}
  BY <1>1, TwoType
<1>4. N = 8 * k
  <2>1. two_to[3 + e] = two_to[3] * two_to[e]
    BY <1>1, TwoAdd
  <2> QED
    BY <1>1, <1>2, <2>1
<1> HIDE DEF k
<1>5. N * d = 8 * (k * d) /\ k * d \in Nat
  BY <1>3, <1>4
<1>6. (8 * (k * d)) \div 8 = k * d
  <2> DEFINE b == k * d  a == 8 * b
  <2>1. b \in Int /\ a \in Int /\ a = 8 * b + 0 /\ 0 \in 0..(8 - 1) /\ 8 \in Nat \ {0}
    BY <1>5
  <2> HIDE DEF a, b
  <2>2. a \div 8 = b
    BY <2>1, QuotientUnique
  <2> QED
    BY <2>2 DEF a, b
<1> QED
  BY <1>3, <1>4, <1>5, <1>6

(* What is written as bytes is read back.                                  *)
LEMMA BytesBack ==
  ASSUME NEW d \in Nat \ {0}, NEW t \in [Index -> 0..(two_to[d] - 1)]
  PROVE  from_bytes(to_bytes(t, d), d) = t
<1> DEFINE L == (N * d) \div 8  a == to_bytes(t, d)
           f(k) == [j \in Places(8) |-> bit(t[(8 * k + j) \div d], (8 * k + j) % d)]
<1>1. N \in Nat \ {0} /\ L \in Nat /\ N * d = 8 * L
  BY WholeBytes
<1>2. ASSUME NEW k \in 0..(L - 1), NEW j \in 0..7
      PROVE  /\ (8 * k + j) \div d \in Index /\ (8 * k + j) % d \in Nat
             /\ bit(t[(8 * k + j) \div d], (8 * k + j) % d) \in 0..1
  <2> DEFINE y == 8 * k + j
  <2> HIDE DEF L
  <2>1. y \in Nat /\ y < N * d
    BY <1>1
  <2> HIDE DEF y
  <2>2. y \div d \in Nat
    BY <2>1, QuotientNat
  <2>3. y \div d < N
    BY <1>1, <2>1, QuotientBound
  <2>4. y \div d \in Index
    BY <1>1, <2>2, <2>3 DEF Index
  <2>5. y % d \in Nat
    BY <2>1
  <2>6. t[y \div d] \in Nat
    BY <2>4, TwoType
  <2>7. bit(t[y \div d], y % d) \in 0..1
    BY <2>5, <2>6, BitIsBit
  <2> QED
    BY <2>4, <2>5, <2>7 DEF y
<1>3. ASSUME NEW k \in 0..(L - 1), NEW j \in 0..7
      PROVE  bit(a[k], j) = bit(t[(8 * k + j) \div d], (8 * k + j) % d)
  <2>1. f(k) \in [Places(8) -> 0..1]
    BY <1>2 DEF Places
  <2> DEFINE fk == f(k)
  <2>2. a[k] = SumFunction([i \in 0..(8 - 1) |-> fk[i] * two_to[i]])
    BY DEF to_bytes, Places
  <2>3. fk[j] = bit(t[(8 * k + j) \div d], (8 * k + j) % d) /\ j \in Places(8)
    BY DEF Places
  <2> HIDE DEF fk, a
  <2>4. fk \in [Places(8) -> 0..1] /\ 8 \in Nat
    BY <2>1 DEF fk
  <2>5. bit(SumFunction([i \in 0..(8 - 1) |-> fk[i] * two_to[i]]), j) = fk[j]
    BY <2>3, <2>4, NumberOfBits
  <2> QED
    BY <2>2, <2>3, <2>5
<1>4. ASSUME NEW i \in Index, NEW j \in 0..(d - 1)
      PROVE  bit(a[(d * i + j) \div 8], (d * i + j) % 8) = bit(t[i], j)
  <2> DEFINE y == d * i + j
  <2> HIDE DEF L, a
  <2>1. y \in Nat /\ y < N * d
    <3>1. i \in Int /\ i + 1 <= N /\ i >= 0 /\ N \in Int
      BY <1>1 DEF Index
    <3>2. d * (i + 1) <= d * N
      BY <3>1
    <3>3. d * (i + 1) = d * i + d /\ d * i \in Nat /\ N * d = d * N
      BY <3>1
    <3> DEFINE u == d * i  v == N * d
    <3>4. u \in Nat /\ v \in Int /\ u + d <= v /\ y = u + j
      BY <1>1, <3>2, <3>3

    <3> HIDE DEF u, v
    <3>5. y \in Nat /\ y < v
      BY <3>4
    <3> QED
      BY <3>5 DEF v
  <2>a. d * i
 \in Int /\ i \in Int
    BY <1>1 DEF Index
  <2>2. y = d * i + j /\ y \in Int
    BY <2>1
  <2> HIDE DEF y
  <2>3. y \div d = i /\ y % d = j
    BY <2>2, <2>a, QuotientUnique
  <2> DEFINE k == y \div 8  r == y % 8
  <2>4. y = 8 * k + r /\ r \in 0..7 /\ k \in Nat
    <3>1. 8 \in Nat \ {0} /\ 8 - 1 = 7
      OBVIOUS
    <3> QED
      BY <2>1, <3>1, DivMod, QuotientNat
  <2> HIDE DEF k, r
  <2>5. k \in 0..(L - 1)
    BY <1>1, <2>1, <2>4
  <2>6. bit(a[k], r) = bit(t[(8 * k + r) \div d], (8 * k + r) % d)
    BY <1>3, <2>4, <2>5 DEF L, a
  <2> QED
    BY <2>3, <2>4, <2>6 DEF k, r, y
<1> HIDE DEF a, L
<1>5. ASSUME NEW i \in Index PROVE from_bytes(a, d)[i] = t[i]
  <2> DEFINE g == [j \in 0..(d - 1) |-> bit(a[(d * i + j) \div 8], (d * i + j) % 8) * two_to[j]]
             h == [j \in 0..(d - 1) |-> bit(t[i], j) * two_to[j]]
  <2>1. g = h
    BY <1>4
  <2>2. from_bytes(a, d)[i] = SumFunction(g)
    BY DEF from_bytes
  <2>3. SumFunction(h) = t[i]
    BY BitsOfNumber
  <2> QED
    BY <2>1, <2>2, <2>3
<1>6. from_bytes(a, d) = [i \in Index |-> from_bytes(a, d)[i]]
  BY DEF from_bytes
<1> QED
  BY <1>5, <1>6 DEF a

LEMMA CompressedFits ==
  ASSUME NEW d \in Nat, NEW a \in Int
  PROVE  compress(a, d) \in 0..(two_to[d] - 1)
<1> DEFINE t == two_to[d]  c == csubq(a)  h == q \div 2  w == R * R
<1>1. t \in Nat \ {0} /\ h \in Nat /\ q \in Nat \ {0}
  BY TwoType, HalfModulus, Widths
<1>2. c \in Int
  BY Widths, ShortCuts DEF csubq
<1>3. w \in Nat \ {0}
  BY Widths
<1> HIDE DEF c, h, w, t
<1> DEFINE y == c * t + h
<1>4. y \in Int
  BY <1>1, <1>2
<1> HIDE DEF y
<1> DEFINE x == y % w
<1>5. x \in Int
  BY <1>3, <1>4, DivMod
<1> HIDE DEF x
<1> DEFINE z == x \div q
<1>6. z \in Int
  BY <1>1, <1>5, DivMod
<1> HIDE DEF z
<1>7. z % t \in 0..(t - 1)
  BY <1>1, <1>6, DivMod
<1> QED
  BY <1>7 DEF compress, c, h, w, t, y, x, z

(* A polynomial compressed and decompressed, coefficient by coefficient.   *)
LEMMA CompressedBack ==
  ASSUME NEW d \in Nat \ {0}, two_to[d] <= R, NEW a \in [Index -> Int]
  PROVE  /\ poly_decompress(poly_compress(a, d), d) \in [Index -> 0..q]
         /\ \A i \in Index : a[i] \in 0..q =>
              \E f \in (-Rounding(d))..Rounding(d) :
                f \in Int /\ Congruent(poly_decompress(poly_compress(a, d), d)[i], a[i] + f, q)
<1> DEFINE t == [i \in Index |-> compress(a[i], d)]
<1>1. t \in [Index -> 0..(two_to[d] - 1)]
  BY CompressedFits
<1>2. from_bytes(to_bytes(t, d), d) = t
  BY <1>1, BytesBack
<1>3. poly_decompress(poly_compress(a, d), d) = [i \in Index |-> short(decompress(t[i], d))]
  BY <1>2 DEF poly_decompress, poly_compress
<1>4. \A i \in Index : decompress(t[i], d) \in 0..q /\ short(decompress(t[i], d)) = decompress(t[i], d)
  BY <1>1, DecompressRange
<1>5. \A i \in Index : t[i] = compress(a[i], d)
  OBVIOUS
<1> HIDE DEF t
<1>6. \A i \in Index : a[i] \in 0..q =>
        \E f \in (-Rounding(d))..Rounding(d) :
          f \in Int /\ Congruent(decompress(t[i], d), a[i] + f, q)
  BY <1>5, CompressRounds
<1> QED
  BY <1>3, <1>4, <1>6

(* A polynomial as bytes and read back.                                    *)
LEMMA KeyBack ==
  ASSUME NEW a \in [Index -> 0..q]
  PROVE  /\ poly_frombytes(poly_tobytes(a)) \in [Index -> 0..q]
         /\ \A i \in Index : Congruent(poly_frombytes(poly_tobytes(a))[i], a[i], q)
<1> DEFINE t == [i \in Index |-> csubq(a[i]) % R]
<1>1. \A i \in Index : t[i] = csubq(a[i]) /\ csubq(a[i]) \in 0..(q - 1) /\ Congruent(csubq(a[i]), a[i], q)
  <2> SUFFICES ASSUME NEW i \in Index
               PROVE  csubq(a[i]) % R = csubq(a[i]) /\ csubq(a[i]) \in 0..(q - 1) /\ Congruent(csubq(a[i]), a[i], q)
    OBVIOUS
  <2> DEFINE c == csubq(a[i])
  <2>1. c \in 0..(q - 1) /\ Congruent(c, a[i], q)
    BY CsubqReduced
  <2>2. q < R
    BY Widths
  <2> HIDE DEF c
  <2>3. c % R = c
    BY <2>1, <2>2, Widths
  <2> QED
    BY <2>1, <2>3 DEF c
<1> HIDE DEF t
<1>2. DP \in Nat \ {0} /\ q <= two_to[DP] /\ two_to[DP] \in Nat
  <2>1. DP \in Nat /\ q <= two_to[DP] /\ two_to[DP] \in Nat
    BY RingAssumption, TwoType
  <2>2. DP # 0
    BY <2>1, TwoTo, ModulusAssumption
  <2> QED
    BY <2>1, <2>2
<1>3. t \in [Index -> 0..(two_to[DP] - 1)]
  <2>1. t = [i \in Index |-> t[i]]
    BY DEF t
  <2>2. \A i \in Index : t[i] \in 0..(two_to[DP] - 1)
    BY <1>1, <1>2, Widths
  <2> QED
    BY <2>1, <2>2
<1>4. poly_frombytes(poly_tobytes(a)) = t
  BY <1>2, <1>3, BytesBack DEF poly_frombytes, poly_tobytes, t
<1>5. t \in [Index -> 0..q]
  <2>1. t = [i \in Index |-> t[i]]
    BY DEF t
  <2>2. \A i \in Index : t[i] \in 0..q
    BY <1>1, Widths
  <2> QED
    BY <2>1, <2>2
<1> QED
  BY <1>1, <1>4, <1>5

----------------------------------------------------------------------------

(***************************************************************************)
(* Kyber: the powers of the root and the order of the tables.              *)
(***************************************************************************)

(* The definition of power has a solution.                                 *)
LEMMA PowerRecursion ==
  /\ power[0] = 1
  /\ \A n \in Nat : power[n] \in Int /\ power[n + 1] = (root * power[n]) % q
<1> DEFINE next == [n \in Nat |-> [v \in Int |-> (root * v) % q]]
           body(f) == [n \in Nat |-> IF n = 0 THEN 1 ELSE (root * f[n - 1]) % q]
<1>0. \A v \in Int : (root * v) % q \in Int
  <2> SUFFICES ASSUME NEW v \in Int PROVE (root * v) % q \in Int
    OBVIOUS
  <2> DEFINE y == root * v
  <2>1. y \in Int
    BY RingAssumption
  <2> HIDE DEF y
  <2>2. y % q \in Int
    BY <2>1, Widths, DivMod
  <2> QED
    BY <2>2 DEF y
<1>1. PICK f : IsIteration(f, Int, 1, next)
  <2>1. 1 \in Int /\ next \in [Nat -> [Int -> Int]]
    BY <1>0
  <2> HIDE DEF next
  <2> QED
    BY <2>1, Iteration
<1>2. f \in [Nat -> Int] /\ f[0] = 1 /\ \A k \in Nat : f[k + 1] = (root * f[k]) % q
  BY <1>1 DEF IsIteration
<1>3. f = body(f)
  <2>1. ASSUME NEW k \in Nat PROVE f[k] = body(f)[k]
    <3>1. CASE k = 0
      BY <1>2, <3>1
    <3>2. CASE k # 0
      <4>1. k - 1 \in Nat /\ (k - 1) + 1 = k
        BY <3>2
      <4>2. f[(k - 1) + 1] = (root * f[k - 1]) % q
        BY <1>2, <4>1
      <4>3. body(f)[k] = (root * f[k - 1]) % q
        BY <3>2
      <4> QED
        BY <4>1, <4>2, <4>3
    <3> QED
      BY <3>1, <3>2
  <2> QED
    BY <1>2, <2>1
<1> DEFINE g == CHOOSE h : h = body(h)
<1>4. g = body(g)
  <2> HIDE DEF body
  <2> QED
    BY <1>3
<1>5. power = g
  BY DEF power
<1> HIDE DEF g
<1>6. \A k \in Nat : power[k] = IF k = 0 THEN 1 ELSE (root * power[k - 1]) % q
  BY <1>4, <1>5
<1>7. \A k \in Nat : power[k + 1] = (root * power[k]) % q
  <2> SUFFICES ASSUME NEW k \in Nat PROVE power[k + 1] = (root * power[k]) % q
    OBVIOUS
  <2>1. k + 1 \in Nat /\ k + 1 # 0 /\ (k + 1) - 1 = k
    OBVIOUS
  <2> QED
    BY <1>6, <2>1
<1>8. power[0] = 1
  BY <1>6
<1> DEFINE S == {k \in Nat : power[k] \in Int}
<1>9. Nat \subseteq S
  <2>1. 0 \in S
    BY <1>8
  <2>2. \A n \in Nat : n \in S => n + 1 \in S
    BY <1>0, <1>7
  <2> HIDE DEF S
  <2> QED
    BY <2>1, <2>2, Induction
<1> QED
  BY <1>7, <1>8, <1>9

(* It holds the powers of the root.                                        *)
LEMMA PowerTable ==
  \A n \in Nat : power[n] \in 0..(q - 1) /\ Congruent(power[n], Power(root, n), q)
<1>0. root \in Int /\ q \in Nat \ {0} /\ q > 1
  BY RingAssumption, ModulusAssumption
<1> DEFINE S == {n \in Nat : power[n] \in 0..(q - 1) /\ Congruent(power[n], Power(root, n), q)}
<1>1. 0 \in S
  <2>1. power[0] = 1 /\ Power(root, 0) = 1
    BY <1>0, PowerRecursion, PowerDef
  <2>2. power[0] \in 0..(q - 1)
    BY <1>0, <2>1
  <2>3. Congruent(power[0], Power(root, 0), q)
    BY <2>1, CongruentEquivalence
  <2> QED
    BY <2>2, <2>3
<1>2. ASSUME NEW n \in Nat, n \in S PROVE n + 1 \in S

  <2> DEFINE p == power[n]  w == Power(root, n)  y == root * p
  <2>1. p \in Int /\ w \in Int /\ Congruent(p, w, q)
    BY <1>0, <1>2, PowerRecursion, PowerDef
  <2>2. power[n + 1] = y % q /\ Power(root, n + 1) = root * w
    BY <1>0, PowerRecursion, PowerDef
  <2> HIDE DEF p, w
  <2>3. Congruent(y, root * w, q)
    BY <1>0, <2>1, CongruentScale
  <2>4. y \in Int
    BY <1>0, <2>1
  <2> HIDE DEF y
  <2>5. y % q \in 0..(q - 1) /\ Congruent(y % q, y, q)
    BY <1>0, <2>4, CongruentResidue
  <2> QED
    BY <2>2, <2>3, <2>5, CongruentEquivalence
<1>3. Nat \subseteq S
  <2>1. \A n \in Nat : n \in S => n + 1 \in S
    BY <1>2
  <2> HIDE DEF S
  <2> QED
    BY <1>1, <2>1, Induction
<1> QED
  BY <1>3

(* The definition of tree has a solution.                                  *)
LEMMA TreeRecursion ==
  /\ tree[0][0] = 0
  /\ \A n \in Nat : \A k \in 0..(two_to[n + 1] - 1) :
       k \div 2 \in 0..(two_to[n] - 1) /\ tree[n + 1][k] = (k % 2) * two_to[n] + tree[n][k \div 2]
<1> DEFINE X == [Nat -> Int]
           next == [n \in Nat |-> [h \in X |-> [k \in Nat |-> (k % 2) * two_to[n] + h[k \div 2]]]]
           body(f) == [n \in Nat |-> [k \in 0..(two_to[n] - 1) |->
                         IF n = 0 THEN 0 ELSE (k % 2) * two_to[n - 1] + f[n - 1][k \div 2]]]
           zeros == [k \in Nat |-> 0]
<1>1. \A k \in Nat : k \div 2 \in Nat /\ k % 2 \in {0, 1} /\ k = 2 * (k \div 2) + (k % 2)
  OBVIOUS
<1>2. ASSUME NEW n \in Nat, NEW k \in 0..(two_to[n + 1] - 1) PROVE k \div 2 \in 0..(two_to[n] - 1)
  <2> DEFINE t == two_to[n]  u == two_to[n + 1]
  <2>1. u = 2 * t /\ t \in Nat
    BY TwoTo
  <2>2. k \in 0..(u - 1)
    OBVIOUS
  <2> HIDE DEF t, u
  <2>3. k \div 2 \in 0..(t - 1)
    BY <1>1, <2>1, <2>2
  <2> QED
    BY <2>3 DEF t
<1>3. next \in [Nat -> [X -> X]]
  <2>1. ASSUME NEW n \in Nat, NEW h \in X
        PROVE  [k \in Nat |-> (k % 2) * two_to[n] + h[k \div 2]] \in X
    <3> DEFINE t == two_to[n]
    <3>1. t \in Int
      BY TwoType
    <3> HIDE DEF t
    <3>2. ASSUME NEW k \in Nat PROVE (k % 2) * t + h[k \div 2] \in Int
      <4>1. h[k \div 2] \in Int
        BY <1>1
      <4> DEFINE u == h[k \div 2]  b == k % 2
      <4>2. b \in Int /\ u \in Int
        BY <1>1, <4>1
      <4> HIDE DEF u, b
      <4>3. b * t + u \in Int
        BY <3>1, <4>2
      <4> QED
        BY <4>3 DEF u, b
    <3> QED
      BY <3>2 DEF t
  <2> HIDE DEF X
  <2> QED
    BY <2>1
<1>4. zeros \in X
  OBVIOUS
<1>5. PICK g : IsIteration(g, X, zeros, next)
  <2> HIDE DEF X, zeros, next
  <2> QED
    BY <1>3, <1>4, Iteration
<1>6. g[0] = zeros /\ \A n \in Nat : \A k \in Nat : g[n + 1][k] = (k % 2) * two_to[n] + g[n][k \div 2]
  <2>1. g \in [Nat -> X] /\ g[0] = zeros /\ \A n \in Nat : g[n + 1] = next[n][g[n]]
    BY <1>5 DEF IsIteration
  <2>2. ASSUME NEW n \in Nat PROVE next[n][g[n]] = [k \in Nat |-> (k % 2) * two_to[n] + g[n][k \div 2]]
    <3>1. g[n] \in X
      BY <2>1
    <3> HIDE DEF X
    <3> QED
      BY <3>1
  <2> HIDE DEF next, X
  <2>3. \A n \in Nat : g[n + 1] = [k \in Nat |-> (k % 2) * two_to[n] + g[n][k \div 2]]
    BY <2>1, <2>2
  <2> HIDE DEF zeros
  <2>4. ASSUME NEW n \in Nat, NEW k \in Nat PROVE g[n + 1][k] = (k % 2) * two_to[n] + g[n][k \div 2]
    <3> DEFINE h == g[n + 1]
    <3>1. h = [j \in Nat |-> (j % 2) * two_to[n] + g[n][j \div 2]]
      BY <2>3
    <3> HIDE DEF h
    <3>2. h[k] = (k % 2) * two_to[n] + g[n][k \div 2]
      BY <3>1
    <3> QED
      BY <3>2 DEF h
  <2> QED
    BY <2>1, <2>4
<1> HIDE DEF X, next
<1> DEFINE f == [n \in Nat |-> [k \in 0..(two_to[n] - 1) |-> g[n][k]]]
<1>7. f = body(f)
  <2>1. ASSUME NEW n \in Nat PROVE f[n] = body(f)[n]
    <3>1. CASE n = 0
      <4>1. \A k \in 0..(two_to[n] - 1) : g[n][k] = 0
        BY <1>6, <3>1
      <4> QED
        BY <3>1, <4>1
    <3>2. CASE n # 0
      <4> DEFINE p == n - 1
      <4>1. p \in Nat /\ p + 1 = n
        BY <3>2
      <4> HIDE DEF p
      <4>2. ASSUME NEW k \in 0..(two_to[n] - 1)
            PROVE  g[n][k] = (k % 2) * two_to[p] + f[p][k \div 2]
        <5>1. k \div 2 \in 0..(two_to[p] - 1)
          BY <1>2, <4>1
        <5>2. f[p][k \div 2] = g[p][k \div 2]
          BY <4>1, <5>1
        <5>3. k \in Nat
          OBVIOUS
        <5>4. g[p + 1][k] = (k % 2) * two_to[p] + g[p][k \div 2]
          BY <1>6, <4>1, <5>3
        <5> QED
          BY <4>1, <5>2, <5>4
      <4>3. body(f)[n] = [k \in 0..(two_to[n] - 1) |-> (k % 2) * two_to[p] + f[p][k \div 2]]
        <5> HIDE DEF f
        <5> QED
          BY <3>2 DEF p
      <4>4. f[n] = [k \in 0..(two_to[n] - 1) |-> g[n][k]]
        OBVIOUS
      <4> HIDE DEF f
      <4> QED
        BY <4>2, <4>3, <4>4
    <3> QED
      BY <3>1, <3>2
  <2> QED
    BY <2>1
<1> DEFINE c == CHOOSE h : h = body(h)
<1>8. c = body(c)
  <2> HIDE DEF body, f
  <2> QED
    BY <1>7
<1>9. tree = c
  BY DEF tree
<1> HIDE DEF c
<1>10. tree = body(tree)
  BY <1>8, <1>9
<1>11. ASSUME NEW n \in Nat, NEW k \in 0..(two_to[n + 1] - 1)
       PROVE  tree[n + 1][k] = (k % 2) * two_to[n] + tree[n][k \div 2]
  <2> DEFINE u == n + 1
  <2>1. u \in Nat /\ u # 0 /\ u - 1 = n /\ k \in 0..(two_to[u] - 1)
    OBVIOUS
  <2> HIDE DEF u
  <2>2. tree[u] = body(tree)[u]
    BY <1>10
  <2>3. tree[u][k] = (k % 2) * two_to[n] + tree[n][k \div 2]
    BY <2>1, <2>2
  <2> QED
    BY <2>3 DEF u
<1>12. tree[0][0] = 0
  <2>1. tree[0] = body(tree)[0]
    BY <1>10
  <2>2. 0 \in 0..(two_to[0] - 1)
    BY TwoTo
  <2> QED
    BY <2>1, <2>2
<1> QED
  BY <1>2, <1>11, <1>12

(* The entries of a row of tree are places in it, and those of the lower   *)
(* half are twice those of the row before.                                 *)
LEMMA TreeRow ==
  \A n \in Nat : \A k \in 0..(two_to[n] - 1) : tree[n][k] \in 0..(two_to[n] - 1)
<1> DEFINE S == {n \in Nat : \A k \in 0..(two_to[n] - 1) : tree[n][k] \in 0..(two_to[n] - 1)}
<1>1. 0 \in S
  <2>1. two_to[0] = 1 /\ tree[0][0] = 0
    BY TwoTo, TreeRecursion
  <2> QED
    BY <2>1
<1>2. ASSUME NEW n \in Nat, n \in S PROVE n + 1 \in S
  <2> DEFINE t == two_to[n]  u == two_to[n + 1]
  <2>1. t \in Nat /\ u = 2 * t
    BY TwoTo
  <2>2. ASSUME NEW k \in 0..(u - 1) PROVE tree[n + 1][k] \in 0..(u - 1)
    <3>1. tree[n + 1][k] = (k % 2) * t + tree[n][k \div 2] /\ k \div 2 \in 0..(t - 1)
      BY TreeRecursion
    <3>2. tree[n][k \div 2] \in 0..(t - 1)
      BY <1>2, <3>1
    <3> DEFINE b == k % 2  x == tree[n][k \div 2]
    <3>3. b \in {0, 1}
      BY <2>1
    <3> HIDE DEF b, x, t, u
    <3>4. b * t = 0 \/ b * t = t
      BY <2>1, <3>3
    <3>5. b * t + x \in 0..(u - 1)
      BY <2>1, <3>2, <3>4 DEF x
    <3> QED
      BY <3>1, <3>5 DEF b, x
  <2> QED
    BY <2>2
<1>3. \A n \in Nat : n \in S => n + 1 \in S
  BY <1>2
<1>4. Nat \subseteq S
  <2> HIDE DEF S
  <2> QED
    BY <1>1, <1>3, Induction
<1> QED
  BY <1>4

LEMMA TreeHalf ==
  \A n \in Nat : \A k \in 0..(two_to[n] - 1) :
    k \in 0..(two_to[n + 1] - 1) /\ tree[n + 1][k] = 2 * tree[n][k]
<1> DEFINE S == {n \in Nat : \A k \in 0..(two_to[n] - 1) : tree[n + 1][k] = 2 * tree[n][k]}
<1>0. \A n \in Nat : \A k \in 0..(two_to[n] - 1) : k \in 0..(two_to[n + 1] - 1)
  <2> SUFFICES ASSUME NEW n \in Nat, NEW k \in 0..(two_to[n] - 1) PROVE k \in 0..(two_to[n + 1] - 1)
    OBVIOUS
  <2>1. two_to[n] \in Nat /\ two_to[n + 1] = 2 * two_to[n]
    BY TwoTo
  <2> QED
    BY <2>1
<1>1. 0 \in S
  <2>1. two_to[0] = 1 /\ tree[0][0] = 0
    BY TwoTo, TreeRecursion
  <2>2. 0 \in 0..(two_to[0 + 1] - 1)
    BY <1>0, <2>1
  <2>3. tree[0 + 1][0] = (0 % 2) * two_to[0] + tree[0][0 \div 2]
    BY <2>2, TreeRecursion
  <2>4. 0 % 2 = 0 /\ 0 \div 2 = 0
    OBVIOUS
  <2>5. tree[0 + 1][0] = 0
    BY <2>1, <2>3, <2>4
  <2> QED
    BY <2>1, <2>5
<1>2. ASSUME NEW n \in Nat, n \in S PROVE n + 1 \in S
  <2> DEFINE t == two_to[n]  u == two_to[n + 1]  p == n + 1
  <2>1. t \in Nat /\ u = 2 * t /\ p \in Nat
    BY TwoTo
  <2>2. ASSUME NEW k \in 0..(two_to[p] - 1) PROVE tree[p + 1][k] = 2 * tree[p][k]
    <3>1. k \in 0..(two_to[p + 1] - 1)
      BY <1>0, <2>1
    <3>2. tree[p + 1][k] = (k % 2) * two_to[p] + tree[p][k \div 2]
      BY <2>1, <3>1, TreeRecursion
    <3>3. tree[p][k] = (k % 2) * t + tree[n][k \div 2] /\ k \div 2 \in 0..(t - 1)
      BY TreeRecursion
    <3>4. tree[p][k \div 2] = 2 * tree[n][k \div 2] /\ tree[n][k \div 2] \in Int
      BY <1>2, <3>3, TreeRow
    <3> DEFINE b == k % 2  x == tree[n][k \div 2]
    <3>5. b \in Int
      BY <2>1, TwoType
    <3> HIDE DEF b, x, t, u, p
    <3>6. b * (2 * t) + 2 * x = 2 * (b * t + x)
      BY <2>1, <3>4, <3>5 DEF x
    <3> QED
      BY <2>1, <3>2, <3>3, <3>4, <3>6 DEF b, x, u, p
  <2> QED
    BY <2>1, <2>2
<1>3. \A n \in Nat : n \in S => n + 1 \in S
  BY <1>2
<1>4. Nat \subseteq S
  <2> HIDE DEF S
  <2> QED
    BY <1>1, <1>3, Induction
<1> QED
  BY <1>0, <1>4

(* The transform has half as many powers of the root as coefficients.      *)
Pairs == N \div 2

LEMMA HalfOfN ==
  /\ Pairs \in Nat \ {0} /\ N = 2 * Pairs /\ Pairs >= 4 /\ N \in Nat \ {0}
  /\ LogN - 1 \in Nat /\ LogN - 2 \in Nat /\ Pairs = two_to[LogN - 1]
<1> DEFINE e == LogN - 1  t == two_to[e]
<1>1. e \in Nat /\ LogN = e + 1 /\ LogN - 2 \in Nat
  BY RingAssumption
<1>2. t \in Nat \ {0} /\ N = 2 * t
  BY <1>1, TwoTo, RingAssumption
<1> HIDE DEF t
<1>3. Pairs = t
  BY <1>2 DEF Pairs
<1>4. PICK k \in Nat \ {0} : N = 8 * k
  <2>1. 1 \in Nat \ {0}
    OBVIOUS
  <2> QED
    BY <2>1, WholeBytes
<1>5. Pairs >= 4
  BY <1>2, <1>3, <1>4
<1> QED
  BY <1>1, <1>2, <1>3, <1>5 DEF t

(* The power of the root for the node k of the transform, and what X^B is  *)
(* at node n: the square of what it is at a node is what it is above.      *)
Exponent(k) == tree[LogN - 1][k]
Zeta(k) == Power(root, Exponent(k))
AtNode(n) == IF n % 2 = 0 THEN Zeta(n \div 2) ELSE -Zeta(n \div 2)

LEMMA ExponentType ==
  ASSUME NEW k \in 0..(Pairs - 1)
  PROVE  Exponent(k) \in 0..(Pairs - 1) /\ Zeta(k) \in Int /\ root \in Int
<1>1. Exponent(k) \in 0..(Pairs - 1)
  BY HalfOfN, TreeRow DEF Exponent
<1> QED
  BY <1>1, RingAssumption, PowerDef DEF Zeta

LEMMA ExponentTwice ==
  ASSUME NEW k \in 0..(Pairs - 1)
  PROVE  /\ k \div 2 \in 0..(Pairs - 1)
         /\ Exponent(k) + Exponent(k) = (k % 2) * Pairs + Exponent(k \div 2)
<1> DEFINE e == LogN - 2  t == two_to[e]
<1>1. e \in Nat /\ e + 1 = LogN - 1
  BY HalfOfN, RingAssumption
<1>2. t \in Nat /\ Pairs = 2 * t /\ Pairs = two_to[e + 1]
  BY <1>1, TwoTo, HalfOfN
<1> HIDE DEF e
<1>3. Exponent(k) = (k % 2) * t + tree[e][k \div 2] /\ k \div 2 \in 0..(t - 1)
  BY <1>1, <1>2, TreeRecursion DEF Exponent
<1>4. Exponent(k \div 2) = 2 * tree[e][k \div 2] /\ tree[e][k \div 2] \in Int
  BY <1>1, <1>3, TreeHalf, TreeRow DEF Exponent
<1> DEFINE b == k % 2  x == tree[e][k \div 2]
<1>5. b \in Int
  BY <1>2
<1> HIDE DEF b, x, t
<1>6. (b * t + x) + (b * t + x) = b * (2 * t) + 2 * x
  BY <1>2, <1>4, <1>5 DEF x
<1>7. k \div 2 \in 0..(Pairs - 1)
  <2> DEFINE y == k \div 2
  <2> HIDE DEF y
  <2> QED
    BY <1>2, <1>3 DEF y
<1> QED
  BY <1>2, <1>3, <1>4, <1>6, <1>7 DEF b, x

(* The root's power Pairs is -1.                                           *)
LEMMA RootHalf == Congruent(Power(root, Pairs), -1, q) /\ Power(root, Pairs) \in Int
<1>1. Pairs \in Nat /\ power[Pairs] = q - 1 /\ q \in Nat \ {0} /\ root \in Int
  BY HalfOfN, RootAssumption, Widths, RingAssumption DEF Pairs
<1> DEFINE w == Power(root, Pairs)  x == q - 1  y == -1  one == 1
<1>2. w \in Int /\ Congruent(x, w, q)
  BY <1>1, PowerTable, PowerDef
<1>3. x \in Int /\ y \in Int /\ one \in Int /\ x = y + q * one
  BY <1>1
<1> HIDE DEF x, y, w, one
<1>4. Congruent(x, y, q)
  BY <1>1, <1>3, CongruentBy
<1>5. Congruent(w, y, q)
  BY <1>2, <1>4, CongruentEquivalence
<1> QED
  BY <1>2, <1>5 DEF w, y

(* The first power is 1.                                                   *)
LEMMA ExponentZero == Exponent(0) = 0 /\ Zeta(0) = 1
<1>1. 0 \in 0..(Pairs - 1) /\ 0 % 2 = 0 /\ 0 \div 2 = 0
  BY HalfOfN
<1>2. Exponent(0) + Exponent(0) = (0 % 2) * Pairs + Exponent(0 \div 2) /\ Exponent(0) \in Int
  BY <1>1, ExponentTwice, ExponentType
<1>3. Exponent(0) = 0
  BY <1>1, <1>2, HalfOfN
<1> QED
  BY <1>3, RingAssumption, PowerDef DEF Zeta

(* What X^B is at a node, squared, is what it is above.                    *)
LEMMA ZetaSquare ==
  ASSUME NEW k \in 1..(Pairs - 1)
  PROVE  Zeta(k) \in Int /\ AtNode(k) \in Int /\ Congruent(Zeta(k) * Zeta(k), AtNode(k), q)
<1> DEFINE e == Exponent(k)  j == k \div 2  f == Exponent(j)  w == Power(root, Pairs)  zj == Zeta(j)
<1>1. k \in 0..(Pairs - 1)
  BY HalfOfN
<1>2. e \in Nat /\ Zeta(k) \in Int /\ root \in Int /\ j \in 0..(Pairs - 1) /\ Pairs \in Nat
  BY <1>1, ExponentType, ExponentTwice, HalfOfN
<1>3. f \in Nat /\ zj \in Int /\ e + e = (k % 2) * Pairs + f
  BY <1>1, <1>2, ExponentType, ExponentTwice
<1>4. Zeta(k) * Zeta(k) = Power(root, e + e)
  BY <1>2, PowerAdd DEF Zeta
<1>5. zj = Power(root, f)
  BY DEF Zeta
<1>6. k % 2 = 0 \/ k % 2 = 1
  BY <1>1
<1>7. CASE k % 2 = 0
  <2>1. e + e = f
    BY <1>2, <1>3, <1>7
  <2>2. AtNode(k) = zj
    BY <1>7 DEF AtNode
  <2> QED
    BY <1>2, <1>3, <1>4, <1>5, <2>1, <2>2, CongruentEquivalence
<1>8. CASE k % 2 = 1
  <2>1. e + e = Pairs + f
    BY <1>2, <1>3, <1>8
  <2>2. AtNode(k) = -zj
    BY <1>8 DEF AtNode
  <2>3. Power(root, Pairs + f) = w * zj
    BY <1>2, <1>3, <1>5, PowerAdd
  <2>4. Congruent(w, -1, q) /\ w \in Int /\ -1 \in Int
    BY RootHalf
  <2> DEFINE y == -1
  <2>5. Congruent(w, y, q) /\ y \in Int
    BY <2>4
  <2>6. y * zj = -zj /\ -zj \in Int
    BY <1>3
  <2> HIDE DEF y, zj, w, f
  <2>7. Congruent(w * zj, y * zj, q)
    BY <1>3, <2>4, <2>5, Widths, CongruentScale
  <2> QED
    BY <1>2, <1>3, <1>4, <2>1, <2>2, <2>3, <2>6, <2>7 DEF zj
<1> QED
  BY <1>6, <1>7, <1>8

(* The tables hold the powers and their inverses, times R.                 *)
LEMMA ZetaTable ==
  ASSUME NEW k \in 0..(Pairs - 1)
  PROVE  zetas[k] \in 0..(q - 1) /\ Congruent(zetas[k], Zeta(k) * R, q)
<1> DEFINE e == Exponent(k)  p == power[e]  z == Zeta(k)  y == p * R
<1>1. e \in Nat /\ z \in Int
  BY ExponentType, HalfOfN
<1>2. p \in Int /\ Congruent(p, z, q)
  BY <1>1, PowerTable, PowerRecursion DEF Zeta
<1>3. zetas[k] = y % q
  BY DEF zetas, Exponent, Pairs
<1>4. y \in Int
  BY <1>2, Widths
<1>5. Congruent(y, z * R, q)
  <2> HIDE DEF p, z
  <2>1. R \in Int /\ q \in Nat \ {0}
    BY Widths
  <2> QED
    BY <1>1, <1>2, <2>1, CongruentScale
<1> HIDE DEF y
<1>6. y % q \in 0..(q - 1) /\ Congruent(y % q, y, q)
  BY <1>4, Widths, CongruentResidue
<1> QED
  BY <1>3, <1>5, <1>6, CongruentEquivalence

(* The entries of zetas_inv are inverses of those of zetas.                *)
LEMMA ZetaInverse ==
  ASSUME NEW k \in 1..(Pairs - 1)
  PROVE  /\ zetas_inv[k] \in 0..(q - 1)
         /\ \E v \in Int : Congruent(zetas_inv[k], v * R, q) /\ Congruent(v * Zeta(k), 1, q)
<1> DEFINE e == Exponent(k)  f == Pairs - e  p == power[f]  w == Power(root, f)  v == -w
           z == Zeta(k)  y == -p * R
<1>0. k \in 0..(Pairs - 1) /\ R \in Int /\ q \in Nat \ {0}
  BY HalfOfN, Widths
<1>1. e \in Nat /\ f \in Nat /\ f + e = Pairs /\ z \in Int /\ root \in Int
  BY <1>0, ExponentType, HalfOfN
<1>a. p \in Int /\ Congruent(p, w, q) /\ w \in Int
  BY <1>1, PowerTable, PowerRecursion, PowerDef
<1>2. p \in Int /\ Congruent(p, w, q) /\ w \in Int /\ v \in Int
  <2> HIDE DEF p, w
  <2> QED
    BY <1>a
<1>3. zetas_inv[k] = y % q
  BY DEF zetas_inv, Exponent, Pairs
<1>4. w * z = Power(root, Pairs)
  BY <1>1, PowerAdd DEF Zeta
<1>5. Congruent(w * z, -1, q)
  BY <1>4, RootHalf
<1>6. Congruent(v * z, 1, q)
  <2> DEFINE x == w * z  o == -1
  <2>1. Congruent(x, o, q)
    BY <1>5
  <2>2. x \in Int /\ o \in Int /\ -o = 1
    <3> HIDE DEF w, z
    <3>1. x \in Int
      BY <1>1, <1>2
    <3>2. o \in Int /\ o + 1 = 0
      OBVIOUS
    <3> HIDE DEF o, x
    <3>3. -o = 1
      BY <3>2
    <3> QED
      BY <3>1, <3>2, <3>3

  <2>3. v * z = -x
    <3> HIDE DEF w, z
    <3> QED
      BY <1>1, <1>2
  <2> HIDE DEF x, o
  <2>4. Congruent(-x, -o, q)
    BY <2>1, <2>2, Widths, CongruentNeg
  <2> QED
    BY <2>2, <2>3, <2>4
<1>7. y \in Int /\ y = (-p) * R /\ -p \in Int
  BY <1>2, Widths
<1>8. Congruent(-p, v, q)
  <2> HIDE DEF p, w
  <2> QED
    BY <1>2, Widths, CongruentNeg
<1>9. Congruent(y, v * R, q)
  <2> DEFINE u == -p
  <2>1. u \in Int /\ Congruent(u, v, q) /\ y = u * R
    BY <1>7, <1>8
  <2> HIDE DEF u, v, y
  <2> QED
    BY <1>0, <1>2, <2>1, CongruentScale
<1> HIDE DEF y
<1>10.
 y % q \in 0..(q - 1) /\ Congruent(y % q, y, q)
  BY <1>7, Widths, CongruentResidue
<1>11. Congruent(zetas_inv[k], v * R, q)
  BY <1>3, <1>9, <1>10, CongruentEquivalence
<1> QED
  BY <1>2, <1>3, <1>6, <1>10, <1>11

(* The last factor of invntt undoes the doublings of its layers.           *)
LEMMA LastInverse ==
  /\ last_inv \in 0..(q - 1)
  /\ \E v \in Int : Congruent(last_inv, v * R, q) /\ Congruent(Pairs * v, R, q)
<1> DEFINE g == (q - 1) \div Pairs  m1 == q - 1  c == R % q  r == m1 * g  x == c * m1 * g  v == R * r
           y == c * (x % q)
<1>1. q \in Nat \ {0} /\ R \in Int /\ Pairs \in Nat \ {0} /\ m1 \in Int
  BY Widths, HalfOfN
<1>2. m1 = Pairs * g /\ g \in Int
  <2>1. m1 = Pairs * (m1 \div Pairs) + (m1 % Pairs) /\ m1 \div Pairs \in Int
    BY <1>1, DivMod
  <2>2. m1 % Pairs = 0
    BY RootAssumption DEF Pairs
  <2> DEFINE u == m1 \div Pairs
  <2> HIDE DEF u
  <2>3. Pairs * u \in Int
    BY <1>1, <2>1 DEF u
  <2>4. m1 = Pairs * u
    BY <2>1, <2>2, <2>3 DEF u
  <2> QED
    BY <2>1, <2>4 DEF u
<1>3. c \in Int /\ Congruent(c, R, q)
  <2> HIDE DEF c
  <2>1. c \in 0..(q - 1) /\ Congruent(c, R, q)
    BY <1>1, CongruentResidue DEF c
  <2> QED
    BY <1>1, <2>1
<1>4. last_inv = y % q
  BY DEF last_inv, Pairs
<1> HIDE DEF c, g
<1>5. r \in Int /\ v \in Int
  BY <1>1, <1>2
<1>6. x = c * r /\ x \in Int
  BY <1>1, <1>2, <1>3
<1> HIDE DEF m1, r
<1>7. Congruent(x, v, q)
  BY <1>1, <1>3, <1>5, <1>6, CongruentScale
<1> HIDE DEF x, v
<1> DEFINE xx == x % q
<1>8. xx \in Int /\ Congruent(xx, x, q)
  <2> HIDE DEF xx
  <2>1. xx \in 0..(q - 1) /\ Congruent(xx, x, q)
    BY <1>1, <1>6, CongruentResidue DEF xx
  <2> QED
    BY <1>1, <2>1
<1>9. y = c * xx
  OBVIOUS
<1> HIDE DEF xx, y
<1>10. Congruent(xx, v, q)
  BY <1>7, <1>8, CongruentEquivalence
<1>11. Congruent(y, R * v, q) /\ y \in Int
  BY <1>1, <1>3, <1>5, <1>8, <1>9, <1>10, CongruentMul
<1>12. y % q \in 0..(q - 1) /\ Congruent(y % q, y, q)
  BY <1>1, <1>11, CongruentResidue
<1>13. Congruent(last_inv, v * R, q)
  <2>1. R * v = v * R
    BY <1>1, <1>5
  <2> QED
    BY <1>4, <1>11, <1>12, <2>1, CongruentEquivalence
<1>14. Congruent(Pairs * v, R, q)
  <2>1. Pairs * r = m1 * m1
    BY <1>1, <1>2 DEF r
  <2>2. Pairs * v = R * (m1 * m1)
    BY <1>1, <1>5, <2>1 DEF v
  <2> DEFINE w == m1 * m1  o == 1
  <2>3. w \in Int /\ o \in Int
    BY <1>1
  <2>4. w = o + q * (q - 2) /\ q - 2 \in Int
    BY <1>1 DEF m1
  <2> HIDE DEF w, o
  <2>5. Congruent(w, o, q)
    BY <1>1, <2>3, <2>4, CongruentBy
  <2>6. Congruent(R * w, R * o, q)
    BY <1>1, <2>3, <2>5, CongruentScale
  <2>7. R * o = R
    BY <1>1 DEF o
  <2> QED
    BY <2>2, <2>6, <2>7 DEF w
<1> QED
  BY <1>4, <1>5, <1>12, <1>13, <1>14

----------------------------------------------------------------------------

(***************************************************************************)
(* Kyber: the transform, layer by layer.                                   *)
(***************************************************************************)

(* The layer of len = 2^e: how many blocks there are before and after it.  *)
LEMMA LayerSizes ==
  ASSUME NEW e \in 1..(LogN - 1)
  PROVE  /\ two_to[e] \in Nat \ {0} /\ 2 * two_to[e] \in Nat \ {0}
         /\ two_to[e + 1] = 2 * two_to[e] /\ 2 * two_to[e] <= N /\ two_to[e] \in 1..N
         /\ \E c \in Nat \ {0} : /\ N = (2 * two_to[e]) * c /\ 2 * c <= Pairs
                                 /\ N \div (2 * two_to[e]) = c /\ N \div two_to[e] = 2 * c
<1> DEFINE f == LogN - (e + 1)  c == two_to[f]  len == two_to[e]  g == e - 1  hlf == two_to[g]
<1>1. e \in Nat /\ f \in Nat /\ LogN = (e + 1) + f /\ g \in Nat /\ LogN - 1 = (g + 1) + f /\ g + 1 = e
  BY RingAssumption
<1>2. len \in Nat \ {0} /\ two_to[e + 1] = 2 * len /\ c \in Nat \ {0} /\ hlf \in Nat \ {0} /\ len = 2 * hlf
  BY <1>1, TwoTo
<1>3. N = two_to[e + 1] * c
  <2>1. two_to[(e + 1) + f] = two_to[e + 1] * two_to[f] /\ N = two_to[LogN]
    BY <1>1, TwoAdd, RingAssumption
  <2> QED
    BY <1>1, <2>1
<1>4. N \in Nat \ {0} /\ N = 2 * Pairs /\ Pairs \in Nat
  BY HalfOfN
<1> HIDE DEF c, f, len, hlf
<1>5. N = (2 * len) * c
  BY <1>2, <1>3
<1>6. 2 * c <= Pairs /\ 2 * len <= N
  <2>1. Pairs = len * c
    BY <1>2, <1>4, <1>5
  <2>2. len >= 2 /\ c >= 1
    BY <1>2
  <2>3. 2 * c <= len * c
    BY <1>2, <2>2
  <2>4. 2 * len <= (2 * len) * c
    BY <1>2, <2>2
  <2> QED
    BY <1>5, <2>1, <2>3, <2>4
<1>7. N \div (2 * len) = c
  <2> DEFINE b == 2 * len  z == 0
  <2>1. b \in Nat \ {0} /\ N = b * c + z /\ z \in 0..(b - 1) /\ N \in Int /\ c \in Int
    BY <1>2, <1>4, <1>5
  <2> HIDE DEF b, z
  <2>2. N \div b = c
    BY <2>1, QuotientUnique
  <2> QED
    BY <2>2 DEF b
<1>8. N \div len = 2 * c
  <2> DEFINE b == 2 * c  z == 0
  <2>1. b \in Int /\ N = len * b + z /\ z \in 0..(len - 1) /\ N \in Int
    BY <1>2, <1>4, <1>5
  <2> HIDE DEF b, z
  <2>2. N \div len = b
    BY <1>2, <2>1, QuotientUnique
  <2> QED
    BY <2>2 DEF b
<1>9. len \in 1..N
  BY <1>2, <1>4, <1>6
<1> QED
  BY <1>2, <1>5, <1>6, <1>7, <1>8, <1>9 DEF len

(* A coefficient's place in its block of 2*len, and in its block of len.   *)
LEMMA Places2 ==
  ASSUME NEW len \in Nat \ {0}, NEW i \in Nat
  PROVE  LET r == i % (2 * len)  u == i \div (2 * len) IN
         /\ i = (2 * len) * u + r /\ r \in 0..(2 * len - 1) /\ u \in Nat /\ r \in Nat
         /\ r < len => i % len = r /\ i \div len = 2 * u
         /\ ~(r < len) => i % len = r - len /\ i \div len = 2 * u + 1
<1> DEFINE b == 2 * len  r == i % b  u == i \div b
<1>1. b \in Nat \ {0} /\ b = 2 * len
  OBVIOUS
<1> HIDE DEF b
<1>2. i = b * u + r /\ r \in 0..(b - 1) /\ u \in Nat
  <2>1. i \in Int
    OBVIOUS
  <2>2. i = b * (i \div b) + (i % b) /\ i % b \in 0..(b - 1)
    BY <1>1, <2>1, DivMod
  <2>3. i \div b \in Nat
    BY <1>1, QuotientNat
  <2> QED
    BY <2>2, <2>3
<1> HIDE DEF r, u
<1>3. b * u = len * (2 * u)
  BY <1>1, <1>2
<1>4. CASE r < len
  <2> DEFINE y == 2 * u
  <2>1. y \in Int /\ i = len * y + r /\ r \in 0..(len - 1) /\ i \in Int
    BY <1>2, <1>3, <1>4
  <2> HIDE DEF y
  <2>2. i \div len = y /\ i % len = r
    BY <2>1, QuotientUnique
  <2> QED
    BY <1>1, <1>2, <1>4, <2>2 DEF y, r, u, b
<1>5. CASE ~(r < len)
  <2> DEFINE y == 2 * u + 1  z == r - len
  <2>1. y \in Int /\ z \in 0..(len - 1) /\ i \in Int
    BY <1>1, <1>2, <1>5
  <2>2. len * y = len * (2 * u) + len
    BY <1>2
  <2>3. i = len * y + z
    <3> DEFINE v == len * (2 * u)  x == len * y
    <3>1. v \in Int /\ x = v + len /\ i = v + r
      BY <1>2, <1>3, <2>2
    <3> HIDE DEF v, x
    <3>2. i = x + z
      BY <1>2, <3>1
    <3> QED
      BY <3>2 DEF x
  <2> HIDE DEF y, z
  <2>4. i \div len = y /\ i % len = z
    BY <2>1, <2>3, QuotientUnique
  <2> QED
    BY <1>1, <1>2, <1>5, <2>4 DEF y, z, r, u, b
<1> QED
  BY <1>4, <1>5

(* The two coefficients of a butterfly, lo and lo + len.                   *)
LEMMA Butterfly ==
  ASSUME NEW e \in 1..(LogN - 1), NEW lo \in Index, Lower(lo, two_to[e])
  PROVE  LET len == two_to[e]  up == lo + len  k == zeta_index(lo, len) IN
         /\ up \in Index
         /\ up - len = lo
         /\ ~Lower(up, len)
         /\ k \in 1..(Pairs - 1)
         /\ zeta_index(up, len) = k
         /\ lo % (2 * len) \in 0..(len - 1)
         /\ up % (2 * len) = (lo % (2 * len)) + len
         /\ up \div (2 * len) = lo \div (2 * len)
         /\ N \div (2 * len) + lo \div (2 * len) = k
         /\ N \div len + lo \div len = 2 * k
         /\ N \div len + up \div len = 2 * k + 1
         /\ lo % len = lo % (2 * len)
         /\ up % len = lo % (2 * len)
<1> DEFINE len == two_to[e]  b == 2 * len  up == lo + len  r == lo % b  u == lo \div b
<1>1. len \in Nat \ {0} /\ b \in Nat \ {0} /\ b = 2 * len
  BY LayerSizes
<1>2. PICK c \in Nat \ {0} : N = b * c /\ 2 * c <= Pairs /\ N \div b = c /\ N \div len = 2 * c
  BY LayerSizes
<1>3. lo \in Nat /\ lo < N /\ N \in Nat
  BY HalfOfN DEF Index
<1> HIDE DEF len
<1>4. lo = b * u + r /\ r \in 0..(b - 1) /\ u \in Nat /\ r < len /\ lo % len = r /\ lo \div len = 2 * u
  <2>1. r < len
    BY DEF Lower, len
  <2> QED
    BY <1>1, <1>3, <2>1, Places2
<1> DEFINE k == zeta_index(lo, len)
<1>5. k = c + u
  BY <1>2 DEF zeta_index
<1> HIDE DEF b, r, u
<1>6. u < c
  <2>1. b * u \in Int /\ b * c \in Int /\ b * u < b * c
    BY <1>1, <1>2, <1>3, <1>4
  <2> QED
    BY <1>1, <1>2, <1>4, <2>1, Smaller
<1>7. up = b * u + (r + len) /\ r + len \in 0..(b - 1) /\ up \in Nat
  <2> DEFINE v == b * u
  <2>1. v \in Int /\ lo = v + r
    BY <1>1, <1>4
  <2> HIDE DEF v
  <2>2. up = v + (r + len) /\ r + len \in 0..(b - 1) /\ up \in Nat
    BY <1>1, <1>3, <1>4, <2>1
  <2> QED
    BY <2>2 DEF v
<1>8. up < N
  <2>1. b * (u + 1) <= b * c /\ b * (u + 1) = b * u + b /\ b * u \in Int
    BY <1>1, <1>2, <1>4, <1>6
  <2> DEFINE v == b * u  y == b * c  x == b * (u + 1)
  <2>2. v \in Int /\ y = N /\ x = v + b /\ x <= y /\ up = v + (r + len)
    BY <1>2, <1>7, <2>1
  <2> HIDE DEF v, y, x, up
  <2> QED
    BY <1>1, <1>3, <1>4, <2>2
<1>9. up \div b = u /\ up % b = r + len
  <2> DEFINE x == r + len
  <2>1. x \in 0..(b - 1) /\ up = b * u + x /\ up \in Int /\ u \in Int
    BY <1>4, <1>7
  <2> HIDE DEF x, up
  <2>2. up \div b = u /\ up % b = x
    BY <1>1, <2>1, QuotientUnique
  <2> QED
    BY <2>2 DEF x
<1>10. up % len = r /\ up \div len = 2 * u + 1
  <2> DEFINE rr == up % (2 * len)  uu == up \div (2 * len)
  <2>1. rr = r + len /\ uu = u
    BY <1>1, <1>9
  <2>2. ~(rr < len)
    BY <1>1, <1>4, <2>1
  <2>3. up % len = rr - len /\ up \div len = 2 * uu + 1
    BY <1>1, <1>7, <2>2, Places2
  <2>4. (r + len) - len = r
    BY <1>1, <1>4
  <2> QED
    BY <2>1, <2>3, <2>4
<1> HIDE DEF k
<1>11. k \in 1..(Pairs - 1)
  BY <1>2, <1>4, <1>5, <1>6, HalfOfN
<1>12. zeta_index(up, len) = k
  BY <1>2, <1>5, <1>9 DEF zeta_index, b
<1>13. up \in Index /\ up - len = lo
  BY <1>1, <1>3, <1>7, <1>8 DEF Index
<1>14. ~Lower(up, len)
  <2>1. ~(r + len < len)
    BY <1>1, <1>4
  <2> QED
    BY <1>9, <2>1 DEF Lower, b
<1>15. 2 * c + 2 * u = 2 * k /\ 2 * c + (2 * u + 1) = 2 * k + 1 /\ c + u = k
  BY <1>2, <1>4, <1>5
<1>16. r \in 0..(len - 1)
  BY <1>1, <1>4
<1> HIDE DEF up
<1>17. up % (2 * len) = (lo % (2 * len)) + len /\ up \div (2 * len) = lo \div (2 * len)
  BY <1>9 DEF b, r, u
<1>18. N \div (2 * len) + lo \div (2 * len) = k
  BY <1>2, <1>15 DEF b, u
<1>19. N \div len + lo \div len = 2 * k /\ N \div len + up \div len = 2 * k + 1
  BY <1>2, <1>4, <1>10, <1>15
<1>20. lo % len = lo % (2 * len) /\ up % len = lo % (2 * len) /\ lo % (2 * len) \in 0..(len - 1)
  BY <1>4, <1>10, <1>16 DEF b, r
<1> HIDE DEF up
<1> QED
  BY <1>11, <1>12, <1>13, <1>14, <1>17, <1>18, <1>19, <1>20, Zenon DEF up, len, k

(* Sums of congruent terms.                                                *)
LEMMA SumCongruent ==
  ASSUME NEW n \in Nat \ {0}, NEW S, IsFiniteSet(S), NEW f, NEW g,
         \A x \in S : f[x] \in Int /\ g[x] \in Int /\ Congruent(f[x], g[x], n)
  PROVE  Sum(f, S) \in Int /\ Sum(g, S) \in Int /\ Congruent(Sum(f, S), Sum(g, S), n)
<1>1. \A x \in S : \E k \in Int : f[x] = g[x] + n * k
  BY CongruentMultiple
<1> DEFINE h == [x \in S |-> CHOOSE k \in Int : f[x] = g[x] + n * k]
<1>2. \A x \in S : h[x] \in Int /\ f[x] = g[x] + n * h[x]
  BY <1>1
<1> HIDE DEF h
<1> DEFINE one == 1
<1>3. one \in Int /\ n \in Int /\ \A x \in S : f[x] = one * g[x] + n * h[x]
  BY <1>2
<1>4. Sum(f, S) \in Int /\ Sum(g, S) \in Int /\ Sum(h, S) \in Int
  BY <1>2, SumStep
<1>5. one * Sum(g, S) = Sum(g, S)
  BY <1>4
<1> HIDE DEF one
<1>6. Sum(f, S) = one * Sum(g, S) + n * Sum(h, S)
  BY <1>2, <1>3, SumLinear
<1> DEFINE sf == Sum(f, S)  sg == Sum(g, S)  sh == Sum(h, S)
<1>7. sf = sg + n * sh /\ sf \in Int /\ sg \in Int /\ sh \in Int
  BY <1>4, <1>5, <1>6
<1> HIDE DEF sf, sg, sh
<1>8. Congruent(sf, sg, n)
  BY <1>7, CongruentBy
<1> QED
  BY <1>4, <1>8 DEF sf, sg

(* The sum of two functions.                                               *)
LEMMA SumPlus ==
  ASSUME NEW S, IsFiniteSet(S), NEW f, NEW g, NEW h,
         \A x \in S : f[x] \in Int /\ g[x] \in Int /\ h[x] = f[x] + g[x]
  PROVE  Sum(f, S) \in Int /\ Sum(g, S) \in Int /\ Sum(h, S) = Sum(f, S) + Sum(g, S)
<1> DEFINE one == 1
<1>1. one \in Int
  OBVIOUS
<1>2. \A x \in S : f[x] \in Int /\ g[x] \in Int /\ h[x] = one * f[x] + one * g[x]
  OBVIOUS
<1>3. Sum(f, S) \in Int /\ Sum(g, S) \in Int
  BY SumStep
<1> HIDE DEF one
<1>4. Sum(h, S) = one * Sum(f, S) + one * Sum(g, S)
  BY <1>1, <1>2, SumLinear
<1> QED
  BY <1>3, <1>4 DEF one

(* The powers of a number whose square is w, and of its negation.          *)
LEMMA SquarePower ==
  ASSUME NEW z \in Int, NEW w \in Int, Congruent(z * z, w, q), NEW v \in Nat
  PROVE  /\ Congruent(Power(z, 2 * v), Power(w, v), q)
         /\ Congruent(Power(z, 2 * v + 1), z * Power(w, v), q)
         /\ Power(z, 2 * v) \in Int /\ Power(z, 2 * v + 1) \in Int /\ Power(w, v) \in Int
<1> DEFINE s2 == z * z  x == Power(z, 2 * v)  y == Power(w, v)
<1>a. s2 \in Int /\ 2 * v \in Nat /\ q \in Nat \ {0}
  BY Widths
<1>b. x \in Int
  BY <1>a, PowerDef
<1>c. y \in Int
  BY PowerDef
<1>1. s2 \in Int /\ 2 * v \in Nat /\ x \in Int /\ y \in Int /\ q \in Nat \ {0}
  BY <1>a, <1>b, <1>c
<1>2. Power(z, 2) = s2
  <2>1. 1 \in Nat /\ 1 + 1 = 2
    OBVIOUS
  <2>2. Power(z, 1 + 1) = z * Power(z, 1)
    BY <2>1, PowerDef
  <2> QED
    BY <2>1, <2>2, PowerOne
<1>3. x = Power(s2, v)
  BY <1>2, PowerPower
<1>4. Congruent(x, y, q)
  <2> HIDE DEF s2
  <2>1. Congruent(s2, w, q)
    BY DEF s2
  <2> QED
    BY <1>1, <1>3, <2>1, CongruentPower
<1>5. Power(z, 2 * v + 1) = z * x
  BY <1>1, PowerDef
<1> HIDE DEF x, y
<1>d. z * x \in Int
  BY <1>1
<1>6. Congruent(z * x, z * y, q) /\ z * x \in Int
  BY <1>1, <1>4, <1>d, CongruentScale

<1> QED
  BY <1>1, <1>4, <1>5, <1>6 DEF x, y

(* The transform as a matrix: what coefficient i of a polynomial           *)
(* contributes to coefficient p when the blocks have b coefficients, each  *)
(* block a polynomial modulo X^b minus the number at its node.             *)
Term(b, p, i) ==
  IF i % b = p % b THEN Power(AtNode(N \div b + p \div b), i \div b) ELSE 0
Terms2(a, b, p) == [i \in Index |-> a[i] * Term(b, p, i)]
Value(a, b, p) == Sum(Terms2(a, b, p), Index)

(* Sums range over finite sets.                                            *)
LEMMA IndexFinite ==
  /\ IsFiniteSet(Index) /\ Index \subseteq Nat /\ IsFiniteSet(Vec) /\ Vec \subseteq Nat
  /\ N \in Nat \ {0} /\ K \in Nat \ {0} /\ 0 \in Vec /\ 0 \in Index
<1>1. N \in Nat \ {0} /\ K \in Nat \ {0}
  BY HalfOfN, RingAssumption
<1>2. IsFiniteSet(0..(N - 1)) /\ IsFiniteSet(0..(K - 1))
  BY <1>1, FS_Interval
<1> QED
  BY <1>1, <1>2 DEF Index, Vec

(* Nodes have integers.                                                    *)
LEMMA AtNodeType ==
  ASSUME NEW n \in 1..(N - 1)
  PROVE  AtNode(n) \in Int /\ n \div 2 \in 0..(Pairs - 1)
<1>1. N = 2 * Pairs /\ Pairs \in Nat
  BY HalfOfN
<1>2. n \in Nat /\ n \div 2 \in 0..(Pairs - 1)
  BY <1>1
<1> DEFINE z == Zeta(n \div 2)
<1>3. z \in Int
  BY <1>2, ExponentType
<1> HIDE DEF z
<1> QED
  BY <1>2, <1>3 DEF AtNode, z

(* What a butterfly makes of the contributions.                            *)
LEMMA TermStep ==
  ASSUME NEW e \in 1..(LogN - 1), NEW lo \in Index, Lower(lo, two_to[e]), NEW i \in Index
  PROVE  LET len == two_to[e]  up == lo + len  z == Zeta(zeta_index(lo, len))
             x == Term(2 * len, lo, i)  y == Term(2 * len, up, i) IN
         /\ x \in Int
         /\ y \in Int
         /\ z \in Int
         /\ Term(len, lo, i) \in Int
         /\ Term(len, up, i) \in Int
         /\ Congruent(Term(len, lo, i), x + z * y, q)
         /\ Congruent(Term(len, up, i), x - z * y, q)
<1> DEFINE len == two_to[e]  b == 2 * len  up == lo + len  k == zeta_index(lo, len)  z == Zeta(k)
           r == i % b  v == i \div b  ro == lo % b  w == AtNode(k)  nz == -z
<1>1. len \in Nat \ {0} /\ i \in Nat
  BY LayerSizes, IndexFinite
<1>2. k \in 1..(Pairs - 1) /\ ro \in 0..(len - 1) /\ up % b = ro + len /\ up \div b = lo \div b
      /\ N \div b + lo \div b = k /\ lo % len = ro /\ up % len = ro
  BY Butterfly
<1>3. N \div len + lo \div len = 2 * k /\ N \div len + up \div len = 2 * k + 1
  BY Butterfly
<1>4. r \in 0..(b - 1) /\ v \in Nat
  BY <1>1, Places2
<1>5. /\ r < len => i % len = r /\ i \div len = 2 * v
      /\ ~(r < len) => i % len = r - len /\ i \div len = 2 * v + 1
  BY <1>1, Places2
<1>6. k \in Int /\ AtNode(2 * k) = z /\ AtNode(2 * k + 1) = nz
  <2>1. k \in Nat
    BY <1>2
  <2> HIDE DEF k
  <2>2. (2 * k) % 2 = 0 /\ (2 * k) \div 2 = k /\ (2 * k + 1) % 2 = 1 /\ (2 * k + 1) \div 2 = k
    BY <2>1
  <2> QED
    BY <2>1, <2>2 DEF AtNode
<1>7. z \in Int /\ w \in Int /\ Congruent(z * z, w, q)
  BY <1>2, ZetaSquare
<1> HIDE DEF z, w
<1>8. nz \in Int /\ nz * nz = z * z
  BY <1>7
<1> HIDE DEF nz
<1> DEFINE pw == Power(w, v)  ev == Power(z, 2 * v)  od == Power(z, 2 * v + 1)
           nev == Power(nz, 2 * v)  nod == Power(nz, 2 * v + 1)
<1>9. /\ Congruent(ev, pw, q) /\ Congruent(od, z * pw, q)
      /\ ev \in Int /\ od \in Int /\ pw \in Int
  BY <1>4, <1>7, SquarePower
<1>10. /\ Congruent(nev, pw, q) /\ Congruent(nod, nz * pw, q)
       /\ nev \in Int /\ nod \in Int
  BY <1>4, <1>7, <1>8, SquarePower
<1>11. nz * pw = -(z * pw)
  <2> HIDE DEF pw
  <2> QED
    BY <1>7, <1>9 DEF nz
<1> DEFINE x == Term(b, lo, i)  y == Term(b, up, i)  tl == Term(len, lo, i)  tu == Term(len, up, i)
<1>12. /\ x = IF r = ro THEN pw ELSE 0
       /\ y = IF r = ro + len THEN pw ELSE 0
  BY <1>2 DEF Term, w
<1>13. /\ tl = IF i % len = ro THEN Power(z, i \div len) ELSE 0
       /\ tu = IF i % len = ro THEN Power(nz, i \div len) ELSE 0
  BY <1>2, <1>3, <1>6 DEF Term
<1> HIDE DEF x, y, tl, tu, pw, ev, od, nev, nod, up, len, k, r, ro, v, b
<1>14. b = 2 * len
  BY DEF b
<1>15. CASE r = ro
  <2>1. r < len /\ r # ro + len
    BY <1>1, <1>2, <1>15
  <2>2. x = pw /\ y = 0 /\ tl = ev /\ tu = nev
    BY <1>5, <1>12, <1>13, <1>15, <2>1 DEF ev, nev
  <2>3. x + z * y = pw /\ x - z * y = pw
    BY <1>7, <1>9, <2>2
  <2> QED
    BY <1>7, <1>9, <1>10, <2>2, <2>3 DEF x, y, tl, tu, up, len, k, b, z
<1>16. CASE r = ro + len
  <2>1. ~(r < len) /\ r # ro /\ r - len = ro
    BY <1>1, <1>2, <1>16
  <2>2. x = 0 /\ y = pw /\ tl = od /\ tu = nod
    BY <1>5, <1>12, <1>13, <1>16, <2>1 DEF od, nod
  <2>3. x + z * y = z * pw /\ x - z * y = -(z * pw)
    BY <1>7, <1>9, <2>2
  <2> QED
    BY <1>7, <1>9, <1>10, <1>11, <2>2, <2>3 DEF x, y, tl, tu, up, len, k, b, z
<1>17. CASE r # ro /\ r # ro + len
  <2>1. i % len # ro
    BY <1>1, <1>2, <1>4, <1>5, <1>17
  <2>2. x = 0 /\ y = 0 /\ tl = 0 /\ tu = 0
    BY <1>12, <1>13, <1>17, <2>1
  <2>3. x + z * y = 0 /\ x - z * y = 0
    BY <1>7, <2>2
  <2>4. Congruent(0, 0, q)
    BY CongruentEquivalence
  <2> QED
    BY <1>7, <2>2, <2>3, <2>4 DEF x, y, tl, tu, up, len, k, b, z
<1> QED
  BY <1>15, <1>16, <1>17

(* Every coefficient is in one butterfly.                                  *)
LEMMA UpperPartner ==
  ASSUME NEW e \in 1..(LogN - 1), NEW p \in Index, ~Lower(p, two_to[e])
  PROVE  /\ p - two_to[e] \in Index
         /\ Lower(p - two_to[e], two_to[e])
         /\ (p - two_to[e]) + two_to[e] = p
<1> DEFINE len == two_to[e]  b == 2 * len  r == p % b  u == p \div b  lo == p - len
<1>1. len \in Nat \ {0} /\ b \in Nat \ {0} /\ b = 2 * len /\ p \in Nat /\ p < N /\ N \in Nat
  BY LayerSizes, IndexFinite DEF Index
<1> HIDE DEF len
<1>2. p = b * u + r /\ r \in 0..(b - 1) /\ u \in Nat
  BY <1>1, Places2
<1>3. ~(r < len)
  BY DEF Lower, len
<1> HIDE DEF r, u, b
<1> DEFINE v == b * u  x == r - len
<1>4. v \in Nat
  BY <1>1, <1>2
<1>5. lo = v + x /\ x \in 0..(b - 1) /\ x < len
  <2> HIDE DEF v
  <2> QED
    BY <1>1, <1>2, <1>3, <1>4 DEF v
<1>6. lo \in Nat /\ lo < N
  BY <1>1, <1>4, <1>5
<1> HIDE DEF x, lo
<1>7. lo \div b = u /\ lo % b = x
  <2>1. b \in Nat \ {0} /\ lo \in Int /\ u \in Int /\ x \in 0..(b - 1) /\ lo = b * u + x
    BY <1>1, <1>2, <1>5, <1>6
  <2> HIDE DEF v
  <2> QED
    BY <2>1, QuotientUnique
<1>8. Lower(lo, len)
  BY <1>5, <1>7 DEF Lower, b
<1>9. lo + len = p
  BY <1>1 DEF lo
<1>10. lo \in Index
  BY <1>1, <1>6 DEF Index
<1> QED
  BY <1>8, <1>9, <1>10 DEF lo, len

(* The sums along a butterfly.                                             *)
LEMMA ValueStep ==
  ASSUME NEW e \in 1..(LogN - 1), NEW lo \in Index, Lower(lo, two_to[e]), NEW a \in [Index -> Int]
  PROVE  LET len == two_to[e]  up == lo + len  z == Zeta(zeta_index(lo, len))
             x == Value(a, 2 * len, lo)  y == Value(a, 2 * len, up) IN
         /\ x \in Int
         /\ y \in Int
         /\ z \in Int
         /\ Value(a, len, lo) \in Int
         /\ Value(a, len, up) \in Int
         /\ Congruent(Value(a, len, lo), x + z * y, q)
         /\ Congruent(Value(a, len, up), x - z * y, q)
<1> DEFINE len == two_to[e]  b == 2 * len  up == lo + len  z == Zeta(zeta_index(lo, len))  nz == -z  one == 1
           x == Terms2(a, b, lo)  y == Terms2(a, b, up)
           tl == Terms2(a, len, lo)  tu == Terms2(a, len, up)
           hl == [i \in Index |-> one * x[i] + z * y[i]]
           hu == [i \in Index |-> one * x[i] + nz * y[i]]
<1>0. IsFiniteSet(Index) /\ q \in Nat \ {0} /\ one \in Int
  BY IndexFinite, Widths
<1>1. \A i \in Index : /\ Term(b, lo, i) \in Int
                       /\ Term(b, up, i) \in Int
                       /\ Term(len, lo, i) \in Int
                       /\ Term(len, up, i) \in Int
                       /\ Congruent(Term(len, lo, i), Term(b, lo, i) + z * Term(b, up, i), q)
                       /\ Congruent(Term(len, up, i), Term(b, lo, i) - z * Term(b, up, i), q)
  BY TermStep
<1>2. z \in Int /\ nz \in Int
  <2>1. z \in Int
    BY Butterfly, ZetaSquare
  <2> HIDE DEF z
  <2> QED
    BY <2>1
<1> HIDE DEF one, len, b, up, z, nz
<1>3. ASSUME NEW i \in Index
      PROVE  /\ x[i] \in Int /\ y[i] \in Int /\ tl[i] \in Int /\ tu[i] \in Int /\ hl[i] \in Int /\ hu[i] \in Int
             /\ Congruent(tl[i], hl[i], q) /\ Congruent(tu[i], hu[i], q)
  <2> DEFINE ai == a[i]  xl == Term(b, lo, i)  yl == Term(b, up, i)  vl == Term(len, lo, i)  vu == Term(len, up, i)
  <2>1. ai \in Int /\ xl \in Int /\ yl \in Int /\ vl \in Int /\ vu \in Int
        /\ Congruent(vl, xl + z * yl, q) /\ Congruent(vu, xl - z * yl, q)
    BY <1>1
  <2>2. x[i] = ai * xl /\ y[i] = ai * yl /\ tl[i] = ai * vl /\ tu[i] = ai * vu
    BY DEF Terms2
  <2> HIDE DEF x, y, tl, tu, ai, xl, yl, vl, vu
  <2>3. hl[i] = one * x[i] + z * y[i] /\ hu[i] = one * x[i] + nz * y[i]
    OBVIOUS
  <2> DEFINE wl == xl + z * yl  wu == xl - z * yl
  <2>4. wl \in Int /\ wu \in Int /\ Congruent(vl, wl, q) /\ Congruent(vu, wu, q)
    BY <1>2, <2>1
  <2>5. hl[i] = ai * wl
    <3>1. one * x[i] = ai * xl
      BY <2>1, <2>2 DEF one
    <3>2. z * y[i] = ai * (z * yl)
      BY <1>2, <2>1, <2>2
    <3>3. ai * wl = ai * xl + ai * (z * yl)
      BY <1>2, <2>1
    <3> QED
      BY <2>3, <3>1, <3>2, <3>3
  <2>6. hu[i] = ai * wu
    <3>1. one * x[i] = ai * xl
      BY <2>1, <2>2 DEF one
    <3>2. nz * y[i] = -(ai * (z * yl))
      BY <1>2, <2>1, <2>2 DEF nz
    <3>3. ai * wu = ai * xl - ai * (z * yl)
      BY <1>2, <2>1
    <3>4. ai * xl \in Int /\ ai * (z * yl) \in Int
      BY <1>2, <2>1
    <3> QED
      BY <2>3, <3>1, <3>2, <3>3, <3>4
  <2> HIDE DEF wl, wu, hl, hu
  <2>7. Congruent(ai * vl, ai * wl, q) /\ Congruent(ai * vu, ai * wu, q)
    BY <1>0, <2>1, <2>4, CongruentScale
  <2>8. ai * xl \in Int /\ ai * yl \in Int /\ ai * vl \in Int /\ ai * vu \in Int /\ ai * wl \in Int /\ ai * wu \in Int
    BY <2>1, <2>4
  <2> QED
    BY <2>2, <2>5, <2>6, <2>7, <2>8
<1>4. \A i \in Index : hl[i] = one * x[i] + z * y[i] /\ hu[i] = one * x[i] + nz * y[i]
  OBVIOUS
<1> HIDE DEF x, y, tl, tu, hl, hu
<1> DEFINE sx == Sum(x, Index)  sy == Sum(y, Index)  sl == Sum(tl, Index)  su == Sum(tu, Index)
<1>5. sx \in Int /\ sy \in Int
  BY <1>0, <1>3, SumStep
<1>6. Sum(hl, Index) = one * sx + z * sy /\ Sum(hu, Index) = one * sx + nz * sy
  <2>1. Sum(hl, Index) = one * sx + z * sy
    BY <1>0, <1>2, <1>3, <1>4, SumLinear
  <2>2. Sum(hu, Index) = one * sx + nz * sy
    BY <1>0, <1>2, <1>3, <1>4, SumLinear
  <2> QED
    BY <2>1, <2>2
<1>7. sl \in Int /\ Congruent(sl, Sum(hl, Index), q)
  BY <1>0, <1>3, SumCongruent
<1>8. su \in Int /\ Congruent(su, Sum(hu, Index), q)
  BY <1>0, <1>3, SumCongruent
<1> HIDE DEF sx, sy, sl, su
<1>9. one * sx + z * sy = sx + z * sy /\ one * sx + nz * sy = sx - z * sy
  <2>1. one * sx = sx /\ nz * sy = -(z * sy) /\ z * sy \in Int
    BY <1>2, <1>5 DEF one, nz
  <2> QED
    BY <1>5, <2>1
<1>10. Congruent(sl, sx + z * sy, q) /\ Congruent(su, sx - z * sy, q)
  BY <1>6, <1>7, <1>8, <1>9
<1> QED
  BY <1>2, <1>5, <1>7, <1>8, <1>10 DEF sx, sy, sl, su, x, y, tl, tu, Value, z, up, b, len

(* Before the first layer the values are the coefficients.                 *)
LEMMA ValueBase ==
  ASSUME NEW a \in [Index -> Int], NEW p \in Index
  PROVE  Value(a, N, p) = a[p]
<1> DEFINE f == Terms2(a, N, p)
<1>1. N \in Nat \ {0} /\ IsFiniteSet(Index) /\ Index \subseteq Nat
  BY IndexFinite
<1>2. ASSUME NEW i \in Index PROVE i % N = i /\ i \div N = 0
  <2>1. i \in 0..(N - 1) /\ 0 \in Int /\ i = N * 0 + i /\ i \in Int
    BY <1>1 DEF Index
  <2> DEFINE z == 0
  <2>2. z \in Int /\ i = N * z + i
    BY <2>1
  <2> HIDE DEF z
  <2>3. i \div N = z /\ i % N = i
    BY <1>1, <2>1, <2>2, QuotientUnique
  <2> QED
    BY <2>3 DEF z
<1>3. N \div N = 1
  <2> DEFINE z == 0  o == 1
  <2>1. z \in 0..(N - 1) /\ o \in Int /\ N = N * o + z /\ N \in Int
    BY <1>1
  <2> HIDE DEF z, o
  <2>2. N \div N = o
    BY <1>1, <2>1, QuotientUnique
  <2> QED
    BY <2>2 DEF o
<1>4. Term(N, p, p) = 1
  <2>1. 1 \in 1..(N - 1) /\ 1 + 0 = 1
    BY HalfOfN
  <2>2. AtNode(1) \in Int
    BY <2>1, AtNodeType
  <2>3. Term(N, p, p) = Power(AtNode(1 + 0), 0)
    BY <1>2, <1>3 DEF Term
  <2> QED
    BY <2>1, <2>2, <2>3, PowerDef
<1>5. f[p] = a[p] /\ a[p] \in Int
  BY <1>4 DEF Terms2
<1>6. \A i \in Index \ {p} : f[i] = 0
  <2> SUFFICES ASSUME NEW i \in Index, i # p PROVE f[i] = 0
    OBVIOUS
  <2>1. Term(N, p, i) = 0
    BY <1>2 DEF Term
  <2>2. f[i] = a[i] * Term(N, p, i) /\ a[i] \in Int
    BY DEF Terms2
  <2> QED
    BY <2>1, <2>2
<1> HIDE DEF f
<1>7. Sum(f, Index) = f[p]
  <2>1. IsFiniteSet(Index)
    BY <1>1
  <2>2. f[p] \in Int
    BY <1>5
  <2> QED
    BY <1>6, <2>1, <2>2, SumSingle
<1> QED
  BY <1>5, <1>7 DEF f, Value

(* Values are integers.                                                    *)
LEMMA ValueType ==
  ASSUME NEW e \in 1..(LogN - 1), NEW a \in [Index -> Int], NEW p \in Index
  PROVE  Value(a, two_to[e], p) \in Int
<1>1. CASE Lower(p, two_to[e])
  BY <1>1, ValueStep
<1>2. CASE ~Lower(p, two_to[e])
  BY <1>2, UpperPartner, ValueStep
<1> QED
  BY <1>1, <1>2

(* The layers of a transform, one after the other.                         *)
IsStages(f, n, x0, lay) == f = [t \in 0..n |-> IF t = 0 THEN x0 ELSE lay[t][f[t - 1]]]

LEMMA StageExists ==
  ASSUME NEW X, NEW x0 \in X, NEW n \in Nat, NEW lay, \A t \in 1..n : \A x \in X : lay[t][x] \in X
  PROVE  \E f : IsStages(f, n, x0, lay)
<1> DEFINE next == [t \in Nat |-> [x \in X |-> IF t + 1 \in 1..n THEN lay[t + 1][x] ELSE x]]
<1>1. next \in [Nat -> [X -> X]]
  OBVIOUS
<1>2. PICK g : IsIteration(g, X, x0, next)
  <2> HIDE DEF next
  <2> QED
    BY <1>1, Iteration
<1>3. g \in [Nat -> X] /\ g[0] = x0 /\ \A t \in Nat : g[t + 1] = next[t][g[t]]
  BY <1>2 DEF IsIteration
<1>4. ASSUME NEW t \in 1..n PROVE g[t] = lay[t][g[t - 1]]
  <2> DEFINE p == t - 1
  <2>1. p \in Nat /\ p + 1 = t /\ t \in 1..n
    OBVIOUS
  <2> HIDE DEF p
  <2>2. g[p + 1] = next[p][g[p]] /\ g[p] \in X
    BY <1>3, <2>1
  <2>3. next[p][g[p]] = lay[p + 1][g[p]]
    BY <2>1, <2>2
  <2> HIDE DEF next
  <2>4. g[t] = lay[t][g[p]]
    BY <2>1, <2>2, <2>3
  <2> QED
    BY <2>4 DEF p
<1> DEFINE f == [t \in 0..n |-> g[t]]
<1>5. f = [t \in 0..n |-> IF t = 0 THEN x0 ELSE lay[t][f[t - 1]]]
  <2> HIDE DEF next
  <2>1. ASSUME NEW t \in 0..n PROVE g[t] = IF t = 0 THEN x0 ELSE lay[t][f[t - 1]]
    <3>1. CASE t = 0
      BY <1>3, <3>1
    <3>2. CASE t # 0
      <4>1. t \in 1..n /\ t - 1 \in 0..n
        BY <3>2
      <4>2. f[t - 1] = g[t - 1]
        BY <4>1
      <4> QED
        BY <1>4, <3>2, <4>1, <4>2
    <3> QED
      BY <3>1, <3>2
  <2> QED
    BY <2>1
<1> HIDE DEF f
<1> QED
  BY <1>5 DEF IsStages

(* Every product and every assignment is a short.                          *)
LEMMA ShortProducts ==
  ASSUME NEW a \in Int, NEW b \in Int
  PROVE  fqmul(a, b) \in int16 /\ short(a) \in int16 /\ fqmul(a, b) \in Int
<1>1. \A x \in Int : short(x) \in int16
  BY Shorts, ShortCuts
<1> DEFINE c == a * b  x == c * QINV  u == short(x)  y == c - u * q  z == y \div R
<1>2. c \in Int
  OBVIOUS
<1> HIDE DEF c
<1>3. x \in Int
  BY <1>2, MontgomeryAssumption, Widths
<1> HIDE DEF x
<1>4. u \in Int
  BY <1>1, <1>3, Shorts
<1> HIDE DEF u
<1>5. y \in Int
  BY <1>2, <1>4, Widths
<1> HIDE DEF y
<1>6. z \in Int
  BY <1>5, Widths, DivMod
<1>7. fqmul(a, b) = short(z)
  BY DEF fqmul, montgomery_reduce, z, y, u, x, c
<1> HIDE DEF z
<1> QED
  BY <1>1, <1>6, <1>7, Shorts

LEMMA PolyIs == Poly = [Index -> (-Half)..(Half - 1)] /\ \A r \in Poly : r \in [Index -> Int]
  BY Shorts DEF Poly

(* A layer of ntt: its values, its butterflies and its growth.             *)
LEMMA LayerValues ==
  ASSUME NEW e \in 1..(LogN - 1), NEW r \in Poly
  PROVE  /\ ntt_layer[two_to[e]][r] \in Poly
         /\ \A lo \in Index : Lower(lo, two_to[e]) =>
              LET len == two_to[e]  up == lo + len  f == fqmul(zetas[zeta_index(lo, len)], r[up]) IN
              /\ ntt_layer[len][r][lo] = short(r[lo] + f)
              /\ ntt_layer[len][r][up] = short(r[lo] - f)
              /\ f \in (1 - q)..(q - 1)
              /\ f \in Int
              /\ Congruent(f, Zeta(zeta_index(lo, len)) * r[up], q)
<1> DEFINE len == two_to[e]
           at0(i) == LET z == zetas[zeta_index(i, len)]
                     IN  IF Lower(i, len) THEN short(r[i] + fqmul(z, r[i + len]))
                         ELSE short(r[i - len] - fqmul(z, r[i]))
<1>1. len \in 1..N /\ len \in Int
  BY LayerSizes
<1>2. ntt_layer[len][r] = [i \in Index |-> at0(i)]
  BY <1>1 DEF ntt_layer
<1> HIDE DEF len
<1>3. \A lo \in Index : Lower(lo, len) =>
        LET up == lo + len  f == fqmul(zetas[zeta_index(lo, len)], r[up]) IN
        /\ at0(lo) = short(r[lo] + f)
        /\ at0(up) = short(r[lo] - f)
        /\ up \in Index
        /\ f \in (1 - q)..(q - 1)
        /\ f \in Int
        /\ Congruent(f, Zeta(zeta_index(lo, len)) * r[up], q)
  <2> SUFFICES ASSUME NEW lo \in Index, Lower(lo, len)
               PROVE  LET up == lo + len  f == fqmul(zetas[zeta_index(lo, len)], r[up]) IN
                      /\ at0(lo) = short(r[lo] + f)
                      /\ at0(up) = short(r[lo] - f)
                      /\ up \in Index
                      /\ f \in (1 - q)..(q - 1)
                      /\ f \in Int
                      /\ Congruent(f, Zeta(zeta_index(lo, len)) * r[up], q)
    OBVIOUS
  <2> DEFINE up == lo + len  k == zeta_index(lo, len)  z == zetas[k]  f == fqmul(z, r[up])  w == Zeta(k)
  <2>1. up \in Index /\ up - len = lo /\ ~Lower(up, len) /\ k \in 1..(Pairs - 1) /\ zeta_index(up, len) = k
    BY Butterfly DEF len
  <2> HIDE DEF up
  <2>2. k \in 0..(Pairs - 1)
    BY <2>1, HalfOfN
  <2> HIDE DEF k
  <2>3. z \in 0..(q - 1) /\ Congruent(z, w * R, q) /\ w \in Int
    BY <2>2, ZetaTable, ExponentType
  <2>4. r[up] \in int16
    BY <2>1 DEF Poly
  <2> HIDE DEF z, w
  <2>5. z \in (1 - q)..q
    BY <2>3, Widths
  <2>6. fqmul(z, r[up]) = fqmul(r[up], z) /\ Congruent(fqmul(r[up], z), w * r[up], q)
    BY <2>3, <2>4, <2>5, FqmulBy
  <2>7. fqmul(r[up], z) \in (1 - q)..(q - 1) /\ fqmul(r[up], z) \in Int
    BY <2>4, <2>5, Fqmul
  <2>8. f \in (1 - q)..(q - 1) /\ f \in Int /\ Congruent(f, w * r[up], q)
    BY <2>6, <2>7
  <2>9. at0(lo) = short(r[lo] + f)
    BY DEF z, k, up
  <2>10. at0(up) = short(r[lo] - f)
    BY <2>1 DEF z
  <2> QED
    BY <2>1, <2>8, <2>9, <2>10 DEF z, k, up, w
<1>4. \A i \in Index : at0(i) \in int16
  <2> SUFFICES ASSUME NEW i \in Index PROVE at0(i) \in int16
    OBVIOUS
  <2>0. \A j \in Index : r[j] \in Int
    BY PolyIs
  <2>1. CASE Lower(i, len)
    <3> DEFINE f == fqmul(zetas[zeta_index(i, len)], r[i + len])
    <3>1. at0(i) = short(r[i] + f) /\ f \in Int
      BY <1>3, <2>1
    <3> HIDE DEF f, at0
    <3>2. r[i] + f \in Int
      BY <2>0, <3>1
    <3> QED
      BY <3>1, <3>2, ShortProducts
  <2>2. CASE ~Lower(i, len)
    <3> DEFINE lo == i - len  f == fqmul(zetas[zeta_index(lo, len)], r[i])
    <3>1. lo \in Index /\ Lower(lo, len) /\ lo + len = i
      BY <2>2, UpperPartner DEF len
    <3> HIDE DEF lo
    <3>2. at0(i) = short(r[lo] - f) /\ f \in Int
      BY <1>3, <3>1
    <3> HIDE DEF f, at0
    <3>3. r[lo] - f \in Int
      BY <2>0, <3>1, <3>2
    <3> QED
      BY <3>2, <3>3, ShortProducts
  <2> QED
    BY <2>1, <2>2
<1>5. \A i \in Index : ntt_layer[len][r][i] = at0(i)
  BY <1>2
<1>6. ntt_layer[len][r] \in Poly
  <2> HIDE DEF at0
  <2> QED
    BY <1>2, <1>4 DEF Poly
<1> HIDE DEF at0
<1> QED
  BY <1>3, <1>5, <1>6 DEF len

Within(r, n) == \A i \in Index : -n <= r[i] /\ r[i] <= n
Holds(r, a, b) == \A i \in Index : Congruent(r[i], Value(a, b, i), q)

(* A layer of ntt takes the values of one block length to the next, and    *)
(* lets the coefficients grow by less than q.                              *)
LEMMA LayerStep ==
  ASSUME NEW e \in 1..(LogN - 1), NEW beta \in Nat, beta + q < Half, NEW r \in Poly, Within(r, beta),
         NEW a \in [Index -> Int], Holds(r, a, 2 * two_to[e])
  PROVE  /\ ntt_layer[two_to[e]][r] \in Poly
         /\ Within(ntt_layer[two_to[e]][r], beta + q)
         /\ Holds(ntt_layer[two_to[e]][r], a, two_to[e])
<1> DEFINE len == two_to[e]  x == ntt_layer[len][r]
           Good(i) == /\ -(beta + q) <= x[i]
                      /\ x[i] <= beta + q
                      /\ Congruent(x[i], Value(a, len, i), q)
<1>1. x \in Poly
  BY LayerValues
<1>2. ASSUME NEW lo \in Index, Lower(lo, len) PROVE Good(lo) /\ Good(lo + len)
  <2> DEFINE up == lo + len  k == zeta_index(lo, len)  z == Zeta(k)  f == fqmul(zetas[k], r[up])
             vx == Value(a, 2 * len, lo)  vy == Value(a, 2 * len, up)  rl == r[lo]  ru == r[up]
  <2>1. up \in Index
    BY <1>2, Butterfly
  <2>2. /\ x[lo] = short(rl + f)
        /\ x[up] = short(rl - f)
        /\ f \in (1 - q)..(q - 1)
        /\ f \in Int
        /\ Congruent(f, z * ru, q)
    BY <1>2, LayerValues
  <2>3. /\ vx \in Int /\ vy \in Int /\ z \in Int
        /\ Congruent(Value(a, len, lo), vx + z * vy, q)
        /\ Congruent(Value(a, len, up), vx - z * vy, q)
    BY <1>2, ValueStep
  <2>4. Congruent(rl, vx, q) /\ Congruent(ru, vy, q)
    BY <2>1 DEF Holds
  <2>5. rl \in Int /\ ru \in Int /\ -beta <= rl /\ rl <= beta /\ q \in Nat \ {0} /\ Half \in Nat
    BY <2>1, PolyIs, Widths DEF Within
  <2> HIDE DEF z, f, vx, vy, rl, ru, x, up, k, len
  <2>6. Congruent(z * ru, z * vy, q) /\ z * ru \in Int /\ z * vy \in Int
    <3>1. z * ru \in Int /\ z * vy \in Int
      BY <2>3, <2>5
    <3> QED
      BY <2>3, <2>4, <2>5, <3>1, CongruentScale
  <2> DEFINE y == z * vy
  <2>7. Congruent(f, y, q) /\ y \in Int
    BY <2>2, <2>6, CongruentEquivalence
  <2> HIDE DEF y
  <2>8. Congruent(rl + f, vx + y, q) /\ Congruent(rl - f, vx - y, q)
    BY <2>2, <2>3, <2>4, <2>5, <2>7, CongruentAdd, CongruentSub
  <2>9. /\ rl + f \in Int /\ -(beta + q) <= rl + f /\ rl + f <= beta + q
        /\ rl - f \in Int /\ -(beta + q) <= rl - f /\ rl - f <= beta + q
    BY <2>2, <2>5
  <2>10. short(rl + f) = rl + f /\ short(rl - f) = rl - f
    <3>1. rl + f \in (-Half)..(Half - 1) /\ rl - f \in (-Half)..(Half - 1)
      BY <2>5, <2>9
    <3> QED
      BY <3>1, ShortKeeps
  <2>11. Good(lo)
    BY <2>2, <2>3, <2>8, <2>9, <2>10, CongruentEquivalence DEF y
  <2>12. Good(up)
    BY <2>2, <2>3, <2>8, <2>9, <2>10, CongruentEquivalence DEF y
  <2> QED
    BY <2>11, <2>12 DEF up
<1>3. ASSUME NEW i \in Index PROVE Good(i)
  <2>1. CASE Lower(i, len)
    BY <1>2, <2>1
  <2>2. CASE ~Lower(i, len)
    <3> DEFINE lo == i - len
    <3>1. lo \in Index /\ Lower(lo, len) /\ lo + len = i
      BY <2>2, UpperPartner
    <3> HIDE DEF lo
    <3> QED
      BY <1>2, <3>1
  <2> QED
    BY <2>1, <2>2
<1> QED
  BY <1>1, <1>3 DEF Within, Holds

(* What the whole transform computes.                                      *)
LEMMA NttIs ==
  ASSUME NEW r \in [Index -> Int], Within(r, q)
  PROVE  r \in Poly /\ ntt[r] \in Poly /\ Holds(ntt[r], r, 2)
<1> DEFINE n == LogN - 1
           lay == [t \in 1..n |-> ntt_layer[two_to[LogN - t]]]
           body(f) == [t \in 0..n |-> IF t = 0 THEN r ELSE ntt_layer[two_to[LogN - t]][f[t - 1]]]
<1>1. n \in Nat /\ n >= 2 /\ q \in Nat \ {0} /\ Half \in Nat /\ LogN = n + 1 /\ LogN \in Nat
  BY RingAssumption, Widths
<1>2. r \in Poly
  <2>1. \A i \in Index : r[i] \in (-Half)..(Half - 1)
    BY <1>1, Widths DEF Within
  <2> QED
    BY <2>1, PolyIs
<1>3. \A t \in 1..n : LogN - t \in 1..(LogN - 1) /\ two_to[(LogN - t) + 1] = 2 * two_to[LogN - t]
                       /\ (LogN - t) + 1 = LogN - (t - 1)
  <2> SUFFICES ASSUME NEW t \in 1..n
               PROVE  LogN - t \in 1..(LogN - 1) /\ two_to[(LogN - t) + 1] = 2 * two_to[LogN - t]
                       /\ (LogN - t) + 1 = LogN - (t - 1)
    OBVIOUS
  <2>1. LogN - t \in 1..(LogN - 1) /\ (LogN - t) + 1 = LogN - (t - 1)
    BY <1>1
  <2> QED
    BY <2>1, LayerSizes
<1>4. PICK f : f = body(f)
  <2>1. \A t \in 1..n : \A x \in Poly : lay[t][x] \in Poly
    BY <1>3, LayerValues
  <2>2. PICK f : IsStages(f, n, r, lay)
    <3> HIDE DEF lay, n
    <3> QED
      BY <1>1, <1>2, <2>1, StageExists
  <2>3. f = [t \in 0..n |-> IF t = 0 THEN r ELSE lay[t][f[t - 1]]]
    BY <2>2 DEF IsStages
  <2>4. \A t \in 0..n : t = 0 \/ lay[t] = ntt_layer[two_to[LogN - t]]
    BY <1>1
  <2>5. f = body(f)
    <3> HIDE DEF lay, n
    <3> QED
      BY <2>3, <2>4
  <2> QED
    BY <2>5
<1> DEFINE g == CHOOSE h : h = body(h)
<1>5. g = body(g)
  <2> HIDE DEF body
  <2> QED
    BY <1>4
<1>6. ntt[r] = g[n]
  BY <1>2 DEF ntt
<1> HIDE DEF g
<1>7. g[0] = r /\ \A t \in 1..n : g[t] = ntt_layer[two_to[LogN - t]][g[t - 1]]
  <2> HIDE DEF n
  <2>1. 0 \in 0..n /\ \A t \in 1..n : t \in 0..n /\ t # 0
    BY <1>1
  <2> QED
    BY <1>5, <2>1
<1> DEFINE S == {t \in Nat : t <= n => /\ g[t] \in Poly /\ Within(g[t], (t + 1) * q)
                                       /\ Holds(g[t], r, two_to[LogN - t])}
<1>8. 0 \in S
  <2>1. Within(g[0], (0 + 1) * q)
    BY <1>1, <1>7
  <2>2. Holds(g[0], r, two_to[LogN - 0])
    <3>1. LogN - 0 = LogN /\ two_to[LogN] = N
      BY RingAssumption
    <3>2. Holds(r, r, N)
      <4>1. \A i \in Index : Congruent(r[i], r[i], q)
        BY CongruentEquivalence
      <4> QED
        BY <4>1, ValueBase DEF Holds
    <3> QED
      BY <1>7, <3>1, <3>2
  <2> QED
    BY <1>2, <1>7, <2>1, <2>2
<1>9. ASSUME NEW t \in Nat, t \in S PROVE t + 1 \in S
  <2> SUFFICES ASSUME t + 1 <= n
               PROVE  /\ g[t + 1] \in Poly /\ Within(g[t + 1], ((t + 1) + 1) * q)
                      /\ Holds(g[t + 1], r, two_to[LogN - (t + 1)])
    OBVIOUS
  <2> DEFINE e == LogN - (t + 1)  beta == (t + 1) * q  x == g[t]
  <2>1. t + 1 \in 1..n /\ (t + 1) - 1 = t /\ t <= n
    BY <1>1
  <2>2. e \in 1..(LogN - 1) /\ two_to[LogN - t] = 2 * two_to[e]
    BY <1>3, <2>1
  <2>3. g[t + 1] = ntt_layer[two_to[e]][x]
    BY <1>7, <2>1
  <2>4. x \in Poly /\ Within(x, beta) /\ Holds(x, r, 2 * two_to[e])
    BY <1>9, <2>1, <2>2
  <2>5. beta \in Nat /\ beta + q = ((t + 1) + 1) * q
    BY <1>1
  <2>6. beta + q < Half
    <3>1. ((t + 1) + 1) * q <= LogN * q
      BY <1>1
    <3>2. 2 * (LogN * q) < 2 * Half
      <4>1. 2 * LogN * q < R /\ R = 2 * Half
        BY HeadroomAssumption, Widths
      <4>2. 2 * LogN * q = 2 * (LogN * q)
        BY <1>1
      <4> QED
        BY <4>1, <4>2
    <3> DEFINE u == LogN * q  v == ((t + 1) + 1) * q
    <3>3. u \in Int /\ v \in Int
      BY <1>1
    <3> HIDE DEF u, v, beta
    <3> QED
      BY <1>1, <2>5, <3>1, <3>2, <3>3 DEF u, v
  <2> HIDE DEF e, beta, x
  <2>7. ntt_layer[two_to[e]][x] \in Poly /\ Within(ntt_layer[two_to[e]][x], beta + q)
         /\ Holds(ntt_layer[two_to[e]][x], r, two_to[e])
    BY <2>2, <2>4, <2>5, <2>6, LayerStep
  <2> QED
    BY <2>3, <2>5, <2>7 DEF e
<1>10. Nat \subseteq S
  <2>1. \A t \in Nat : t \in S => t + 1 \in S
    BY <1>9
  <2> HIDE DEF S
  <2> QED
    BY <1>8, <2>1, Induction
<1>11. g[n] \in Poly /\ Holds(g[n], r, two_to[LogN - n])
  BY <1>1, <1>10
<1>12. two_to[LogN - n] = 2
  <2>1. LogN - n = 0 + 1
    BY <1>1
  <2>2. two_to[0 + 1] = 2 * two_to[0] /\ two_to[0] = 1
    BY TwoTo
  <2> QED
    BY <2>1, <2>2
<1> QED
  BY <1>2, <1>6, <1>11, <1>12

----------------------------------------------------------------------------

(***************************************************************************)
(* Kyber: products of pairs.                                               *)
(***************************************************************************)

Reduceds == [Index -> 0..q]

(* Reduced coefficients are shorts.                                        *)
LEMMA ReducedType ==
  ASSUME NEW r \in Reduceds
  PROVE  /\ r \in Poly /\ r \in [Index -> Int] /\ Within(r, q)
         /\ \A i \in Index : r[i] \in (1 - q)..q /\ r[i] \in int16
<1>1. q \in Nat \ {0} /\ Half \in Nat /\ q < Half
  BY Widths
<1>2. \A i \in Index : r[i] \in 0..q
  BY DEF Reduceds
<1>3. \A i \in Index : /\ r[i] \in (-Half)..(Half - 1) /\ r[i] \in Int /\ r[i] \in (1 - q)..q
                       /\ -q <= r[i] /\ r[i] <= q
  BY <1>1, <1>2
<1>4. r \in [Index -> (-Half)..(Half - 1)] /\ r \in [Index -> Int]
  BY <1>3 DEF Reduceds
<1> QED
  BY <1>3, <1>4, PolyIs, Shorts DEF Within

(* poly_reduce returns congruent coefficients in 0..q.                     *)
LEMMA PolyReduce ==
  ASSUME NEW r \in Poly
  PROVE  /\ poly_reduce[r] \in Reduceds
         /\ \A i \in Index : Congruent(poly_reduce[r][i], r[i], q)
<1>1. \A i \in Index : barrett_reduce(r[i]) \in 0..q /\ Congruent(barrett_reduce(r[i]), r[i], q)
  BY BarrettReduces DEF Poly, Congruent
<1>2. poly_reduce[r] = [i \in Index |-> barrett_reduce(r[i])]
  BY DEF poly_reduce
<1> QED
  BY <1>1, <1>2 DEF Reduceds

(* poly_ntt transforms and reduces.                                        *)
LEMMA PolyNtt ==
  ASSUME NEW r \in [Index -> Int], Within(r, q)
  PROVE  poly_ntt[r] \in Reduceds /\ Holds(poly_ntt[r], r, 2)
<1>1. r \in Poly /\ ntt[r] \in Poly /\ Holds(ntt[r], r, 2)
  BY NttIs
<1>2. poly_ntt[r] = poly_reduce[ntt[r]]
  BY <1>1 DEF poly_ntt
<1>3. poly_reduce[ntt[r]] \in Reduceds /\ \A i \in Index : Congruent(poly_reduce[ntt[r]][i], ntt[r][i], q)
  BY <1>1, PolyReduce
<1>4. \A i \in Index : Congruent(poly_ntt[r][i], Value(r, 2, i), q)
  BY <1>1, <1>2, <1>3, CongruentEquivalence DEF Holds
<1> QED
  BY <1>2, <1>3, <1>4 DEF Holds

(* The two coefficients of a pair.                                         *)
LEMMA PairPlaces ==
  ASSUME NEW i \in Index
  PROVE  /\ i \in Nat
         /\ i % 2 = 0 => i + 1 \in Index /\ (i + 1) % 2 = 1 /\ (i + 1) \div 2 = i \div 2
         /\ i % 2 # 0 => i - 1 \in Index /\ (i - 1) % 2 = 0 /\ (i - 1) \div 2 = i \div 2 /\ (i - 1) + 1 = i
         /\ i % 2 \in {0, 1}
<1>1. N = 2 * Pairs /\ Pairs \in Nat /\ i \in Nat /\ i < N
  BY HalfOfN DEF Index
<1>2. i % 2 \in {0, 1} /\ i = 2 * (i \div 2) + (i % 2)
  BY <1>1
<1>3. i % 2 = 0 => i + 1 < N /\ (i + 1) % 2 = 1 /\ (i + 1) \div 2 = i \div 2
  BY <1>1, <1>2
<1>4. i % 2 # 0 => i - 1 \in Nat /\ i - 1 < N /\ (i - 1) % 2 = 0 /\ (i - 1) \div 2 = i \div 2
  BY <1>1, <1>2
<1> QED
  BY <1>1, <1>2, <1>3, <1>4 DEF Index

(* The number whose square root the pair of coefficient p is a polynomial  *)
(* in, and the product of pairs.                                           *)
PairNode(p) == AtNode(N \div 2 + p \div 2)
PairProduct(x, y, p) ==
  IF p % 2 = 0 THEN x[p] * y[p] + PairNode(p) * (x[p + 1] * y[p + 1])
  ELSE x[p - 1] * y[p] + x[p] * y[p - 1]

LEMMA PairZeta ==
  ASSUME NEW i \in Index
  PROVE  LET z == zetas[N \div 4 + i \div 4]
             zeta == IF i % 4 < 2 THEN z ELSE -z
         IN  /\ zeta \in (1 - q)..(q - 1)
             /\ zeta \in Int
             /\ PairNode(i) \in Int
             /\ Congruent(zeta, PairNode(i) * R, q)
<1> DEFINE a == N \div 4  k == a + i \div 4  z == zetas[k]  zeta == IF i % 4 < 2 THEN z ELSE -z
           w == Zeta(k)  n == N \div 2 + i \div 2
<1>1. PICK c \in Nat \ {0} : N = 8 * c
  <2>1. 1 \in Nat \ {0}
    OBVIOUS
  <2> QED
    BY <2>1, WholeBytes
<1>2. i \in Nat /\ i < N /\ N = 2 * Pairs /\ Pairs \in Nat
  BY HalfOfN DEF Index
<1>3. a = 2 * c /\ N \div 2 = 4 * c /\ Pairs = 4 * c /\ i \div 4 \in Nat /\ i \div 4 < 2 * c
  BY <1>1, <1>2
<1>4. k \in 0..(Pairs - 1)
  BY <1>1, <1>3
<1>5. n = 2 * k + (IF i % 4 < 2 THEN 0 ELSE 1) /\ k \in Nat
  <2> DEFINE g == i \div 4  r == i % 4  x == i \div 2
  <2>1. i = 4 * g + r /\ r \in 0..3 /\ g \in Nat /\ i = 2 * x + (i % 2) /\ i % 2 \in {0, 1} /\ x \in Nat
    BY <1>2
  <2>2. n = 4 * c + x /\ k = 2 * c + g
    BY <1>3
  <2> HIDE DEF g, r, x, k, n
  <2>3. r < 2 => x = 2 * g
    BY <2>1
  <2>4. ~(r < 2) => x = 2 * g + 1
    BY <2>1
  <2>5. k \in Nat
    BY <2>1, <2>2
  <2>6. r < 2 => n = 2 * k + 0
    BY <2>1, <2>2, <2>3
  <2>7. ~(r < 2) => n = 2 * k + 1
    BY <2>1, <2>2, <2>4
  <2> QED
    BY <2>5, <2>6, <2>7 DEF r
<1>6. n % 2 = (IF i % 4 < 2 THEN 0 ELSE 1) /\ n \div 2 = k
  <2> DEFINE b == IF i % 4 < 2 THEN 0 ELSE 1
  <2>1. b \in {0, 1} /\ n = 2 * k + b /\ k \in Nat
    BY <1>5
  <2> HIDE DEF b, n, k
  <2>2. n % 2 = b /\ n \div 2 = k
    BY <2>1
  <2> QED
    BY <2>2 DEF b
<1>7. z \in 0..(q - 1) /\ Congruent(z, w * R, q) /\ w \in Int
  BY <1>4, ZetaTable, ExponentType
<1> HIDE DEF z, w, k
<1>8. PairNode(i) = IF i % 4 < 2 THEN w ELSE -w
  BY <1>6 DEF PairNode, AtNode, w
<1>9. R \in Int /\ q \in Nat \ {0} /\ z \in Int
  BY <1>7, Widths
<1>10. CASE i % 4 < 2
  <2>1. zeta = z /\ PairNode(i) = w
    BY <1>8, <1>10
  <2>2. zeta \in (1 - q)..(q - 1)
    BY <1>7, <1>9, <2>1
  <2> QED
    BY <1>7, <1>9, <2>1, <2>2 DEF z, k
<1>11. CASE ~(i % 4 < 2)
  <2>1. zeta = -z /\ PairNode(i) = -w
    BY <1>8, <1>11
  <2>2. zeta \in (1 - q)..(q - 1) /\ zeta \in Int
    BY <1>7, <1>9, <2>1
  <2> DEFINE y == w * R
  <2>3. y \in Int /\ Congruent(z, y, q)
    BY <1>7, <1>9
  <2>4. (-w) * R = -y
    BY <1>7, <1>9
  <2> HIDE DEF y
  <2>5. Congruent(-z, -y, q)
    BY <1>9, <2>3, CongruentNeg
  <2>6. -w \in Int
    BY <1>7
  <2> QED
    BY <2>1, <2>2, <2>4, <2>5, <2>6 DEF z, k
<1> QED
  BY <1>10, <1>11

(* basemul divides the products of the pairs by R.                         *)
LEMMA Basemul ==
  ASSUME NEW a \in Poly, NEW b \in Reduceds
  PROVE  /\ poly_basemul[a][b] \in Poly
         /\ Within(poly_basemul[a][b], 2 * q)
         /\ \A p \in Index : Congruent(R * poly_basemul[a][b][p], PairProduct(a, b, p), q)
<1> DEFINE c == poly_basemul[a][b]
           at0(i) == LET z == zetas[N \div 4 + i \div 4]
                         zeta == IF i % 4 < 2 THEN z ELSE -z
                     IN  IF i % 2 = 0
                         THEN short(fqmul(fqmul(a[i + 1], b[i + 1]), zeta) + fqmul(a[i], b[i]))
                         ELSE short(fqmul(a[i - 1], b[i]) + fqmul(a[i], b[i - 1]))
<1>0. b \in Poly
  BY ReducedType
<1>1. c = [i \in Index |-> at0(i)]
  BY <1>0 DEF poly_basemul
<1>2. q \in Nat \ {0} /\ Half \in Nat /\ R \in Int /\ 4 * q < Half
  BY Widths
<1>3. \A i, j \in Index : /\ fqmul(a[i], b[j]) \in (1 - q)..(q - 1)
                          /\ fqmul(a[i], b[j]) \in Int
                          /\ a[i] \in Int /\ b[j] \in Int
                          /\ a[i] * b[j] \in Int
                          /\ Congruent(R * fqmul(a[i], b[j]), a[i] * b[j], q)
  <2> SUFFICES ASSUME NEW i \in Index, NEW j \in Index
               PROVE  /\ fqmul(a[i], b[j]) \in (1 - q)..(q - 1)
                      /\ fqmul(a[i], b[j]) \in Int
                      /\ a[i] \in Int /\ b[j] \in Int
                      /\ a[i] * b[j] \in Int
                      /\ Congruent(R * fqmul(a[i], b[j]), a[i] * b[j], q)
    OBVIOUS
  <2> DEFINE x == a[i]  y == b[j]
  <2>1. x \in int16 /\ y \in (1 - q)..q /\ x \in Int /\ y \in Int
    BY ReducedType, PolyIs, <1>2 DEF Poly
  <2> HIDE DEF x, y
  <2>2. x * y \in Int
    BY <2>1
  <2> QED
    BY <2>1, <2>2, Fqmul DEF x, y
(* The sum of two small numbers that are quotients by R.                   *)
<1>4. ASSUME NEW f \in Int, NEW g \in Int, NEW x \in Int, NEW y \in Int,
             f \in (1 - q)..(q - 1), g \in (1 - q)..(q - 1),
             Congruent(R * f, x, q), Congruent(R * g, y, q)
      PROVE  /\ short(f + g) \in int16
             /\ -(2 * q) <= short(f + g)
             /\ short(f + g) <= 2 * q
             /\ Congruent(R * short(f + g), x + y, q)
  <2>1. f + g \in (-Half)..(Half - 1) /\ f + g \in Int
    BY <1>2, <1>4
  <2>2. short(f + g) = f + g
    BY <2>1, ShortKeeps
  <2>3. R * (f + g) = R * f + R * g /\ R * f \in Int /\ R * g \in Int
    BY <1>2, <1>4
  <2>4. Congruent(R * f + R * g, x + y, q)
    BY <1>2, <1>4, <2>3, CongruentAdd
  <2>5. -(2 * q) <= f + g /\ f + g <= 2 * q
    BY <1>2, <1>4
  <2> QED
    BY <2>1, <2>2, <2>3, <2>4, <2>5, Shorts
<1>5. ASSUME NEW p \in Index
      PROVE  /\ at0(p) \in int16
             /\ -(2 * q) <= at0(p)
             /\ at0(p) <= 2 * q
             /\ Congruent(R * at0(p), PairProduct(a, b, p), q)
  <2>1. CASE p % 2 = 0
    <3> DEFINE z == zetas[N \div 4 + p \div 4]
               zeta == IF p % 4 < 2 THEN z ELSE -z
               w == PairNode(p)
               h == fqmul(a[p + 1], b[p + 1])  x == a[p + 1] * b[p + 1]  g == fqmul(a[p], b[p])  y == a[p] * b[p]
               f == fqmul(h, zeta)
    <3>1. p + 1 \in Index
      BY <2>1, PairPlaces
    <3>2. /\ zeta \in (1 - q)..(q - 1) /\ zeta \in Int /\ w \in Int
          /\ Congruent(zeta, w * R, q)
      BY PairZeta
    <3>3. /\ h \in (1 - q)..(q - 1) /\ h \in Int /\ x \in Int
          /\ Congruent(R * h, x, q)
      BY <1>3, <3>1
    <3>4. /\ g \in (1 - q)..(q - 1) /\ g \in Int /\ y \in Int
          /\ Congruent(R * g, y, q)
      BY <1>3
    <3>5. at0(p) = short(f + g) /\ PairProduct(a, b, p) = y + w * x
      BY <2>1 DEF PairProduct
    <3> HIDE DEF at0, z, zeta, w, h, x, g, y
    <3>6. h \in int16 /\ zeta \in (1 - q)..q
      BY <1>2, <3>2, <3>3, Shorts
    <3>7. f \in (1 - q)..(q - 1) /\ f \in Int
      BY <3>6, Fqmul
    <3>8. Congruent(f, w * h, q)
      BY <3>2, <3>6, FqmulBy
    <3> HIDE DEF f
    <3>9. Congruent(R * f, w * x, q) /\ w * x \in Int
      <4>1. w * h \in Int /\ R * f \in Int /\ w * x \in Int /\ R * h \in Int
        BY <1>2, <3>2, <3>3, <3>7
      <4>2. Congruent(R * f, R * (w * h), q)
        BY <1>2, <3>7, <3>8, <4>1, CongruentScale
      <4>3. Congruent(w * (R * h), w * x, q)
        BY <1>2, <3>2, <3>3, <4>1, CongruentScale
      <4>4. R * (w * h) = w * (R * h)
        BY <1>2, <3>2, <3>3
      <4> QED
        BY <4>1, <4>2, <4>3, <4>4, CongruentEquivalence
    <3> DEFINE wx == w * x
    <3>10. Congruent(R * f, wx, q) /\ wx \in Int
      BY <3>9
    <3> HIDE DEF wx
    <3>11. /\ short(f + g) \in int16
           /\ -(2 * q) <= short(f + g)
           /\ short(f + g) <= 2 * q
           /\ Congruent(R * short(f + g), wx + y, q)
      BY <1>4, <3>4, <3>7, <3>10
    <3>12. wx + y = y + w * x
      BY <3>4, <3>10 DEF wx
    <3> QED
      BY <3>5, <3>11, <3>12
  <2>2. CASE p % 2 # 0
    <3> DEFINE f == fqmul(a[p - 1], b[p])  x == a[p - 1] * b[p]  g == fqmul(a[p], b[p - 1])  y == a[p] * b[p - 1]
    <3>1. p - 1 \in Index
      BY <2>2, PairPlaces
    <3>2. /\ f \in (1 - q)..(q - 1) /\ f \in Int /\ x \in Int
          /\ Congruent(R * f, x, q)
      BY <1>3, <3>1
    <3>3. /\ g \in (1 - q)..(q - 1) /\ g \in Int /\ y \in Int
          /\ Congruent(R * g, y, q)
      BY <1>3, <3>1
    <3>4. at0(p) = short(f + g) /\ PairProduct(a, b, p) = x + y
      BY <2>2 DEF PairProduct
    <3> HIDE DEF at0, f, x, g, y
    <3>5. /\ short(f + g) \in int16
          /\ -(2 * q) <= short(f + g)
          /\ short(f + g) <= 2 * q
          /\ Congruent(R * short(f + g), x + y, q)
      BY <1>4, <3>2, <3>3
    <3> QED
      BY <3>4, <3>5
  <2> QED
    BY <2>1, <2>2
<1>6. \A p \in Index : c[p] = at0(p)
  BY <1>1
<1> HIDE DEF at0
<1>7. c \in Poly
  BY <1>1, <1>5 DEF Poly
<1> QED
  BY <1>5, <1>6, <1>7 DEF Within

----------------------------------------------------------------------------

(***************************************************************************)
(* Kyber: products of polynomials under the transform.                     *)
(***************************************************************************)

(* Multiplying by X^N changes the sign in every block.                     *)
LEMMA NodePower ==
  \A t \in 0..(LogN - 1) : \A p \in Index :
    LET b == two_to[LogN - t]  w == AtNode(N \div b + p \div b)
    IN  w \in Int /\ N \div b \in Nat /\ Congruent(Power(w, N \div b), -1, q)
<1> DEFINE Good(b, p) == /\ AtNode(N \div b + p \div b) \in Int
                         /\ N \div b \in Nat
                         /\ Congruent(Power(AtNode(N \div b + p \div b), N \div b), -1, q)
           S == {t \in Nat : t <= LogN - 1 => \A p \in Index : Good(two_to[LogN - t], p)}
<1>0. LogN \in Nat /\ N \in Nat \ {0} /\ two_to[LogN - 0] = N
  <2>1. LogN \in Nat /\ N = two_to[LogN] /\ N \in Nat \ {0}
    BY RingAssumption, HalfOfN
  <2>2. LogN - 0 = LogN
    BY <2>1
  <2> QED
    BY <2>1, <2>2
<1>1. 0 \in S
  <2> SUFFICES ASSUME NEW p \in Index PROVE Good(N, p)
    BY <1>0
  <2>1. N \div N = 1 /\ p \div N = 0
    <3> DEFINE z == 0  o == 1
    <3>1. z \in 0..(N - 1) /\ z \in Int /\ o \in Int /\ N = N * o + z /\ N \in Int /\ p = N * z + p
          /\ p \in 0..(N - 1) /\ p \in Int
      BY <1>0 DEF Index
    <3> HIDE DEF z, o
    <3>2. N \div N = o
      BY <1>0, <3>1, QuotientUnique
    <3>3. p \div N = z
      BY <1>0, <3>1, QuotientUnique
    <3> QED
      BY <3>2, <3>3 DEF o, z
  <2>2. 1 \in 1..(N - 1) /\ 1 + 0 = 1 /\ 1 % 2 = 1 /\ 1 \div 2 = 0
    BY HalfOfN
  <2>3. AtNode(1) = -1
    BY <2>2, ExponentZero DEF AtNode
  <2>4. -1 \in Int /\ 1 \in Nat
    OBVIOUS
  <2>5. Power(-1, 1) = -1
    BY <2>4, PowerOne
  <2>6. Congruent(-1, -1, q)
    BY CongruentEquivalence
  <2>7. AtNode(N \div N + p \div N) = -1 /\ N \div N = 1
    BY <2>1, <2>2, <2>3
  <2> QED
    BY <2>4, <2>5, <2>6, <2>7
<1>2. ASSUME NEW t \in Nat, t \in S PROVE t + 1 \in S
  <2> SUFFICES ASSUME t + 1 <= LogN - 1, NEW p \in Index PROVE Good(two_to[LogN - (t + 1)], p)
    OBVIOUS
  <2> DEFINE e == LogN - (t + 1)  len == two_to[e]  b == 2 * len
  <2>1. e \in 1..(LogN - 1) /\ e + 1 = LogN - t
    BY <1>0
  <2>2. two_to[LogN - t] = b
    BY <2>1, LayerSizes
  <2>3. PICK c \in Nat \ {0} : N \div b = c /\ N \div len = 2 * c
    BY <2>1, LayerSizes
  <2>4. PICK lo \in Index : Lower(lo, len) /\ (p = lo \/ p = lo + len)
    <3>1. CASE Lower(p, len)
      BY <3>1
    <3>2. CASE ~Lower(p, len)
      BY <2>1, <3>2, UpperPartner
    <3> QED
      BY <3>1, <3>2
  <2> DEFINE k == zeta_index(lo, len)  z == Zeta(k)  w == AtNode(k)  v == AtNode(N \div len + p \div len)
  <2>5. k \in 1..(Pairs - 1) /\ N \div b + lo \div b = k /\ N \div len + lo \div len = 2 * k
        /\ N \div len + (lo + len) \div len = 2 * k + 1
    BY <2>1, <2>4, Butterfly
  <2>6. z \in Int /\ w \in Int /\ Congruent(z * z, w, q)
    BY <2>5, ZetaSquare
  <2>7. Good(b, lo)
    <3>1. t <= LogN - 1
      BY <1>0, <1>2
    <3> HIDE DEF Good, b
    <3>2. \A i \in Index : Good(two_to[LogN - t], i)
      BY <1>2, <3>1
    <3> QED
      BY <2>2, <2>4, <3>2
  <2>8. Congruent(Power(w, c), -1, q)
    BY <2>3, <2>5, <2>7
  <2>9. v = z \/ v = -z
    <3>1. AtNode(2 * k) = z /\ AtNode(2 * k + 1) = -z
      <4>1. k \in Nat
        BY <2>5
      <4> HIDE DEF k
      <4>2. (2 * k) % 2 = 0 /\ (2 * k) \div 2 = k /\ (2 * k + 1) % 2 = 1 /\ (2 * k + 1) \div 2 = k
        BY <4>1
      <4> QED
        BY <4>1, <4>2 DEF AtNode
    <3> QED
      BY <2>4, <2>5, <3>1
  <2> HIDE DEF z, w, v
  <2>10. v \in Int /\ v * v = z * z
    BY <2>6, <2>9
  <2>11. Congruent(Power(v, 2 * c), Power(w, c), q)
    BY <2>3, <2>6, <2>10, SquarePower
  <2>12. Congruent(Power(v, 2 * c), -1, q)
    BY <2>8, <2>11, CongruentEquivalence
  <2>13. 2 * c \in Nat
    BY <2>3
  <2> QED
    BY <2>3, <2>10, <2>12, <2>13 DEF v
<1>3. Nat \subseteq S
  <2>1. \A t \in Nat : t \in S => t + 1 \in S
    BY <1>2
  <2> HIDE DEF S
  <2> QED
    BY <1>1, <2>1, Induction
<1> QED
  <2> SUFFICES ASSUME NEW t \in 0..(LogN - 1), NEW p \in Index
               PROVE  Good(two_to[LogN - t], p)
    OBVIOUS
  <2>1. t \in S /\ t <= LogN - 1
    BY <1>0, <1>3
  <2> HIDE DEF Good
  <2> QED
    BY <2>1

(* The contributions after the last layer, also of exponents above N.      *)
Monomial(p, j) == IF j % 2 = p % 2 THEN Power(PairNode(p), j \div 2) ELSE 0

LEMMA LastTerm ==
  ASSUME NEW p \in Index, NEW i \in Index
  PROVE  Term(2, p, i) = Monomial(p, i)
  BY DEF Term, Monomial, PairNode

LEMMA PairPower ==
  ASSUME NEW p \in Index
  PROVE  PairNode(p) \in Int /\ Congruent(Power(PairNode(p), Pairs), -1, q)
<1> DEFINE t == LogN - 1
<1>1. t \in 0..(LogN - 1) /\ LogN - t = 0 + 1
  BY RingAssumption
<1>2. two_to[LogN - t] = 2
  BY <1>1, TwoTo
<1>3. AtNode(N \div 2 + p \div 2) \in Int /\ Congruent(Power(AtNode(N \div 2 + p \div 2), N \div 2), -1, q)
  BY <1>1, <1>2, NodePower
<1> QED
  BY <1>3 DEF PairNode, Pairs

(* The remainders of X^j.                                                  *)
LEMMA MonomialType ==
  ASSUME NEW p \in Index, NEW j \in Nat
  PROVE  Monomial(p, j) \in Int
<1>1. j \div 2 \in Nat /\ PairNode(p) \in Int
  BY PairPower
<1>2. Power(PairNode(p), j \div 2) \in Int
  BY <1>1, PowerDef
<1> QED
  BY <1>2 DEF Monomial

(* Above N the sign changes.                                               *)
LEMMA MonomialAround ==
  ASSUME NEW p \in Index, NEW j \in Nat
  PROVE  Congruent(Monomial(p, j + N), -Monomial(p, j), q)
<1> DEFINE w == PairNode(p)  v == j \div 2  y == Power(w, v)  x == Power(w, Pairs)  o == -1
<1>1. N = 2 * Pairs /\ Pairs \in Nat /\ v \in Nat /\ w \in Int /\ q \in Nat \ {0}
  BY HalfOfN, PairPower, Widths
<1>2. (j + N) % 2 = j % 2 /\ (j + N) \div 2 = v + Pairs
  BY <1>1
<1>3. y \in Int /\ x \in Int /\ Power(w, v + Pairs) = y * x /\ Congruent(x, o, q) /\ o \in Int
  <2>1. Congruent(x, o, q) /\ o \in Int
    BY PairPower
  <2> HIDE DEF w, v, o
  <2>2. y \in Int /\ x \in Int
    BY <1>1, PowerDef
  <2>3. Power(w, v + Pairs) = y * x
    BY <1>1, PowerAdd
  <2> QED
    BY <2>1, <2>2, <2>3
<1> HIDE DEF w, v, y, x, o
<1>4. Congruent(y * x, y * o, q)
  BY <1>1, <1>3, CongruentScale
<1>5. y * o = -y
  BY <1>3 DEF o
<1>6. CASE j % 2 = p % 2
  <2>1. Monomial(p, j + N) = y * x /\ Monomial(p, j) = y
    BY <1>2, <1>3, <1>6 DEF Monomial, w, v, y
  <2> QED
    BY <1>4, <1>5, <2>1
<1>7. CASE j % 2 # p % 2
  <2>1. Monomial(p, j + N) = 0 /\ Monomial(p, j) = 0
    BY <1>2, <1>7 DEF Monomial
  <2>2. ASSUME NEW z \in Int, z = 0
        PROVE  -z = z
    <3>1. -z = 0 - z
      OBVIOUS
    <3>2. 0 - z = z
      BY <2>2
    <3> QED
      BY <3>1, <3>2
  <2>3. ASSUME NEW z \in Int, z = 0
        PROVE  Congruent(z, -z, q)
    BY <1>1, <2>2, <2>3, CongruentEquivalence
  <2>4. Monomial(p, j) \in Int
    BY MonomialType
  <2> QED
    BY <2>1, <2>3, <2>4
<1> QED
  BY <1>6, <1>7

(* They multiply as pairs do.                                              *)
LEMMA MonomialProduct ==
  ASSUME NEW p \in Index, NEW j \in Nat, NEW k \in Nat
  PROVE  /\ p % 2 = 0 => Monomial(p, j + k) = Monomial(p, j) * Monomial(p, k)
                                     + PairNode(p) * (Monomial(p + 1, j) * Monomial(p + 1, k))
         /\ p % 2 # 0 => Monomial(p, j + k) = Monomial(p - 1, j) * Monomial(p, k)
                                     + Monomial(p, j) * Monomial(p - 1, k)
<1> DEFINE w == PairNode(p)  a == j \div 2  b == k \div 2  x == Power(w, a)  y == Power(w, b)
<1>1. a \in Nat /\ b \in Nat /\ w \in Int /\ x \in Int /\ y \in Int
  <2>1. a \in Nat /\ b \in Nat /\ w \in Int
    BY PairPower
  <2> QED
    BY <2>1, PowerDef
<1>2. Power(w, a + b) = x * y /\ Power(w, (a + b) + 1) = w * (x * y) /\ x * y \in Int /\ w * (x * y) \in Int
  <2>1. Power(w, a + b) = x * y /\ a + b \in Nat
    BY <1>1, PowerAdd
  <2>2. Power(w, (a + b) + 1) = w * Power(w, a + b)
    BY <1>1, <2>1, PowerDef
  <2>3. x * y \in Int /\ w * (x * y) \in Int
    BY <1>1
  <2> QED
    BY <2>1, <2>2, <2>3
<1>3. /\ j % 2 \in {0, 1} /\ k % 2 \in {0, 1} /\ p % 2 \in {0, 1}
      /\ j % 2 = 0 /\ k % 2 = 0 => (j + k) % 2 = 0 /\ (j + k) \div 2 = a + b
      /\ j % 2 # k % 2 => (j + k) % 2 = 1 /\ (j + k) \div 2 = a + b
      /\ j % 2 = 1 /\ k % 2 = 1 => (j + k) % 2 = 0 /\ (j + k) \div 2 = (a + b) + 1
  <2>1. j % 2 \in {0, 1} /\ k % 2 \in {0, 1} /\ p % 2 \in {0, 1}
    <3>1. p % 2 \in {0, 1}
      BY PairPlaces
    <3>2. j % 2 \in {0, 1}
      OBVIOUS
    <3>3. k % 2 \in {0, 1}
      OBVIOUS
    <3> QED
      BY <3>1, <3>2, <3>3
  <2>2. ASSUME NEW c \in {0, 1}, NEW d \in {0, 1}, j = 2 * a + c, k = 2 * b + d
        PROVE  /\ c = 0 /\ d = 0 => (j + k) % 2 = 0 /\ (j + k) \div 2 = a + b
               /\ c # d => (j + k) % 2 = 1 /\ (j + k) \div 2 = a + b
               /\ c = 1 /\ d = 1 => (j + k) % 2 = 0 /\ (j + k) \div 2 = (a + b) + 1
    <3> HIDE DEF a, b
    <3>1. j + k = 2 * (a + b) + (c + d)
      BY <1>1, <2>2
    <3>2. CASE c = 0 /\ d = 0
      BY <1>1, <3>1, <3>2
    <3>3. CASE c # d
      BY <1>1, <3>1, <3>3
    <3>4. CASE c = 1 /\ d = 1
      BY <1>1, <3>1, <3>4
    <3> QED
      BY <3>2, <3>3, <3>4
  <2>3. j = 2 * a + (j % 2) /\ k = 2 * b + (k % 2)
    OBVIOUS
  <2> HIDE DEF a, b
  <2> QED
    BY <2>1, <2>2, <2>3
<1>4. ASSUME NEW r \in Index, r \div 2 = p \div 2
      PROVE  /\ Monomial(r, j) = IF j % 2 = r % 2 THEN x ELSE 0
             /\ Monomial(r, k) = IF k % 2 = r % 2 THEN y ELSE 0
  <2>1. PairNode(r) = w
    BY <1>4 DEF PairNode
  <2> QED
    BY <2>1 DEF Monomial
<1>5. Monomial(p, j + k) = IF (j + k) % 2 = p % 2 THEN Power(w, (j + k) \div 2) ELSE 0
  BY DEF Monomial
<1> HIDE DEF w, a, b, x, y
<1>6. CASE p % 2 = 0
  <2> DEFINE r == p + 1
  <2>1. r \in Index /\ r % 2 = 1 /\ r \div 2 = p \div 2
    BY <1>6, PairPlaces
  <2> HIDE DEF r
  <2>2. /\ Monomial(p, j) = IF j % 2 = 0 THEN x ELSE 0
        /\ Monomial(p, k) = IF k % 2 = 0 THEN y ELSE 0
    BY <1>4, <1>6
  <2>3. /\ Monomial(r, j) = IF j % 2 = 1 THEN x ELSE 0
        /\ Monomial(r, k) = IF k % 2 = 1 THEN y ELSE 0
    BY <1>4, <2>1
  <2>4. Monomial(p, j + k) = Monomial(p, j) * Monomial(p, k) + w * (Monomial(r, j) * Monomial(r, k))
    <3>1. CASE j % 2 = 0 /\ k % 2 = 0
      <4>1. Monomial(p, j + k) = x * y
        BY <1>2, <1>3, <1>5, <1>6, <3>1
      <4>2. Monomial(p, j) = x /\ Monomial(p, k) = y /\ Monomial(r, j) = 0 /\ Monomial(r, k) = 0
        BY <2>2, <2>3, <3>1
      <4> QED
        BY <1>1, <1>2, <4>1, <4>2
    <3>2. CASE j % 2 = 1 /\ k % 2 = 1
      <4>1. Monomial(p, j + k) = w * (x * y)
        BY <1>2, <1>3, <1>5, <1>6, <3>2
      <4>2. Monomial(p, j) = 0 /\ Monomial(p, k) = 0 /\ Monomial(r, j) = x /\ Monomial(r, k) = y
        BY <2>2, <2>3, <3>2
      <4> QED
        BY <1>1, <1>2, <4>1, <4>2
    <3>3. CASE j % 2 # k % 2
      <4>1. Monomial(p, j + k) = 0
        BY <1>2, <1>3, <1>5, <1>6, <3>3
      <4>2. (Monomial(p, j) = 0 /\ Monomial(p, k) = y /\ Monomial(r, j) = x /\ Monomial(r, k) = 0)
            \/ (Monomial(p, j) = x /\ Monomial(p, k) = 0 /\ Monomial(r, j) = 0 /\ Monomial(r, k) = y)
        BY <1>3, <2>2, <2>3, <3>3
      <4> QED
        BY <1>1, <4>1, <4>2
    <3> QED
      BY <1>3, <3>1, <3>2, <3>3
  <2> QED
    BY <1>6, <2>4 DEF r, w
<1>7. CASE p % 2 # 0
  <2> DEFINE r == p - 1
  <2>1. r \in Index /\ r % 2 = 0 /\ r \div 2 = p \div 2 /\ p % 2 = 1
    BY <1>3, <1>7, PairPlaces
  <2> HIDE DEF r
  <2>2. /\ Monomial(p, j) = IF j % 2 = 1 THEN x ELSE 0
        /\ Monomial(p, k) = IF k % 2 = 1 THEN y ELSE 0
    BY <1>4, <2>1
  <2>3. /\ Monomial(r, j) = IF j % 2 = 0 THEN x ELSE 0
        /\ Monomial(r, k) = IF k % 2 = 0 THEN y ELSE 0
    BY <1>4, <2>1
  <2>4. Monomial(p, j + k) = Monomial(r, j) * Monomial(p, k) + Monomial(p, j) * Monomial(r, k)
    <3>1. CASE j % 2 = k % 2
      <4>1. Monomial(p, j + k) = 0
        BY <1>3, <1>5, <2>1, <3>1
      <4>2. (Monomial(p, j) = 0 /\ Monomial(p, k) = 0)
            \/ (Monomial(r, j) = 0 /\ Monomial(r, k) = 0)
        BY <1>3, <2>2, <2>3, <3>1
      <4>3. /\ Monomial(p, j) \in Int /\ Monomial(p, k) \in Int
            /\ Monomial(r, j) \in Int /\ Monomial(r, k) \in Int
        BY <1>1, <2>2, <2>3
      <4> QED
        BY <4>1, <4>2, <4>3
    <3>2. CASE j % 2 = 0 /\ k % 2 = 1
      <4>1. Monomial(p, j + k) = x * y
        BY <1>2, <1>3, <1>5, <2>1, <3>2
      <4>2. Monomial(p, j) = 0 /\ Monomial(p, k) = y /\ Monomial(r, j) = x /\ Monomial(r, k) = 0
        BY <2>2, <2>3, <3>2
      <4> QED
        BY <1>1, <1>2, <4>1, <4>2
    <3>3. CASE j % 2 = 1 /\ k % 2 = 0
      <4>1. Monomial(p, j + k) = x * y
        BY <1>2, <1>3, <1>5, <2>1, <3>3
      <4>2. Monomial(p, j) = x /\ Monomial(p, k) = 0 /\ Monomial(r, j) = 0 /\ Monomial(r, k) = y
        BY <2>2, <2>3, <3>3
      <4> QED
        BY <1>1, <1>2, <4>1, <4>2
    <3> QED
      BY <1>3, <3>1, <3>2, <3>3
  <2> QED
    BY <1>7, <2>4 DEF r
<1> QED
  BY <1>6, <1>7

(* What the transform computes, as integers: the remainders of a           *)
(* polynomial by the X^2 - w of the pairs.                                 *)
Image(a) == [p \in Index |-> Value(a, 2, p)]

LEMMA ImageType ==
  ASSUME NEW a \in [Index -> Int]
  PROVE  /\ Image(a) \in [Index -> Int]
         /\ \A p \in Index : /\ Image(a)[p] = Sum([i \in Index |-> a[i] * Monomial(p, i)], Index)
                             /\ \A i \in Index : a[i] * Monomial(p, i) \in Int
<1> DEFINE e == 1
<1>1. e \in 1..(LogN - 1) /\ two_to[e] = 2
  BY RingAssumption, TwoTo
<1>2. \A p \in Index : Value(a, 2, p) \in Int
  <2> HIDE DEF e
  <2> QED
    BY <1>1, ValueType
<1>3. ASSUME NEW p \in Index
      PROVE  Terms2(a, 2, p) = [i \in Index |-> a[i] * Monomial(p, i)]
  BY LastTerm DEF Terms2
<1>4. ASSUME NEW p \in Index, NEW i \in Index
      PROVE  a[i] * Monomial(p, i) \in Int
  <2>1. i \in Nat /\ a[i] \in Int
    BY IndexFinite
  <2>2. Monomial(p, i) \in Int
    BY <2>1, MonomialType
  <2> QED
    BY <2>1, <2>2
<1> QED
  BY <1>2, <1>3, <1>4 DEF Image, Value

LEMMA ImageBy ==
  ASSUME NEW a \in [Index -> Int], NEW b \in [Index -> Int], \A i \in Index : Congruent(a[i], b[i], q)
  PROVE  \A p \in Index : Congruent(Image(a)[p], Image(b)[p], q)
<1> SUFFICES ASSUME NEW p \in Index PROVE Congruent(Image(a)[p], Image(b)[p], q)
  OBVIOUS
<1> DEFINE f == [i \in Index |-> a[i] * Monomial(p, i)]  g == [i \in Index |-> b[i] * Monomial(p, i)]
<1>1. IsFiniteSet(Index) /\ q \in Nat \ {0}
  BY IndexFinite, Widths
<1>2. ASSUME NEW i \in Index
      PROVE  f[i] \in Int /\ g[i] \in Int /\ Congruent(f[i], g[i], q)
  <2> DEFINE u == Monomial(p, i)
  <2>1. i \in Nat
    BY IndexFinite
  <2>2. u \in Int
    BY <2>1, MonomialType
  <2>3. f[i] = a[i] * u /\ g[i] = b[i] * u /\ a[i] \in Int /\ b[i] \in Int
    OBVIOUS
  <2> HIDE DEF u, f, g
  <2>4. Congruent(a[i] * u, b[i] * u, q)
    BY <1>1, <2>2, <2>3, CongruentScale
  <2> QED
    BY <2>2, <2>3, <2>4
<1>3. Image(a)[p] = Sum(f, Index) /\ Image(b)[p] = Sum(g, Index)
  BY ImageType
<1> HIDE DEF f, g
<1>4. Congruent(Sum(f, Index), Sum(g, Index), q)
  BY <1>1, <1>2, SumCongruent
<1> QED
  BY <1>3, <1>4

(* A coefficient of a product: the ones that wrap around change sign.      *)
Wrapped(a, b, i, j) == IF j <= i THEN a[j] * b[i - j] ELSE -(a[j] * b[N + i - j])

LEMMA ProductIs ==
  ASSUME NEW a \in [Index -> Int], NEW b \in [Index -> Int]
  PROVE  /\ product(a, b) \in [Index -> Int]
         /\ \A i \in Index : \A j \in Index : Wrapped(a, b, i, j) \in Int
         /\ \A i \in Index : product(a, b)[i] = Sum([j \in Index |-> Wrapped(a, b, i, j)], Index)
<1>1. ASSUME NEW i \in Index, NEW j \in Index
      PROVE  Wrapped(a, b, i, j) \in Int
  <2>1. N \in Nat /\ i \in Nat /\ j \in Nat /\ i < N /\ j < N /\ a[j] \in Int
    BY IndexFinite DEF Index
  <2>2. CASE j <= i
    <3>1. i - j \in Index
      BY <2>1, <2>2 DEF Index
    <3> QED
      BY <2>1, <2>2, <3>1 DEF Wrapped
  <2>3. CASE ~(j <= i)
    <3>1. (N + i) - j \in Index
      BY <2>1, <2>3 DEF Index
    <3> QED
      BY <2>1, <2>3, <3>1 DEF Wrapped
  <2> QED
    BY <2>2, <2>3
<1>2. ASSUME NEW i \in Index
      PROVE  /\ product(a, b)[i] = Sum([j \in Index |-> Wrapped(a, b, i, j)], Index)
             /\ product(a, b)[i] \in Int
  <2> DEFINE f == [j \in Index |-> Wrapped(a, b, i, j)]
  <2>1. f = [j \in Index |-> IF j <= i THEN a[j] * b[i - j] ELSE -(a[j] * b[N + i - j])]
    BY DEF Wrapped
  <2>2. product(a, b)[i] = SumFunction(f)
    BY <2>1 DEF product
  <2>3. DOMAIN f = Index /\ \A j \in Index : f[j] \in Int
    BY <1>1
  <2> HIDE DEF f
  <2>4. SumFunction(f) = Sum(f, Index)
    BY <2>3, SumOver
  <2>5. Sum(f, Index) \in Int
    BY <2>3, IndexFinite, SumStep
  <2> QED
    BY <2>2, <2>4, <2>5 DEF f
<1>3. product(a, b) \in [Index -> Int]
  <2> DEFINE g == product(a, b)
  <2>1. g = [i \in Index |-> g[i]]
    BY DEF product
  <2>2. \A i \in Index : g[i] \in Int
    BY <1>2
  <2> HIDE DEF g
  <2>3. g \in [Index -> Int]
    BY <2>1, <2>2
  <2> QED
    BY <2>3 DEF g
<1> QED
  BY <1>1, <1>2, <1>3

LEMMA WrappedTerm ==
  ASSUME NEW a \in [Index -> Int], NEW b \in [Index -> Int], NEW p \in Index, NEW i \in Index, NEW j \in Index
  PROVE  LET k == Left(i, j, N) IN
         /\ k \in Index
         /\ Wrapped(a, b, i, j) * Monomial(p, i) \in Int
         /\ a[j] * (b[k] * Monomial(p, j + k)) \in Int
         /\ Congruent(Wrapped(a, b, i, j) * Monomial(p, i), a[j] * (b[k] * Monomial(p, j + k)), q)
<1> DEFINE k == Left(i, j, N)  x == Monomial(p, i)  y == Monomial(p, j + k)
<1>1. N \in Nat \ {0} /\ i \in Nat /\ j \in Nat /\ i < N /\ j < N /\ a[j] \in Int /\ q \in Nat \ {0}
      /\ i \in Int /\ j \in Int /\ Places(N) = Index
  BY IndexFinite, Widths DEF Index, Places
<1>2. k \in Index
  BY <1>1, LeftPlace
<1>3. k \in Nat /\ j + k \in Nat /\ b[k] \in Int /\ k \in Places(N)
  <2> HIDE DEF k
  <2>1. k \in Nat
    BY <1>2, IndexFinite
  <2>2. j + k \in Nat
    BY <1>1, <2>1
  <2>3. b[k] \in Int /\ k \in Places(N)
    BY <1>1, <1>2
  <2> QED
    BY <2>1, <2>2, <2>3
<1>4. x \in Int /\ y \in Int
  BY <1>1, <1>3, MonomialType
<1>5. CASE j <= i
  <2>1. i - j \in Places(N) /\ i - j = i - j
    BY <1>1, <1>5 DEF Places
  <2>2. k = i - j
    BY <1>1, <2>1, LeftWraps
  <2>3. j + k = i
    BY <1>1, <2>2
  <2>4. Wrapped(a, b, i, j) = a[j] * b[k] /\ x = y
    BY <1>5, <2>2, <2>3 DEF Wrapped
  <2> HIDE DEF k, x, y
  <2>5. Wrapped(a, b, i, j) * x = a[j] * (b[k] * y) /\ a[j] * (b[k] * y) \in Int
    BY <1>1, <1>3, <1>4, <2>4
  <2>6. Congruent(Wrapped(a, b, i, j) * x, a[j] * (b[k] * y), q)
    BY <2>5, CongruentEquivalence
  <2> QED
    BY <1>2, <2>5, <2>6 DEF k, x, y
<1>6. CASE ~(j <= i)
  <2> DEFINE n == (i - j) + N
  <2>1. n \in Places(N) /\ (N + i) - j = n
    BY <1>1, <1>6 DEF Places
  <2>2. k = n
    <3> HIDE DEF n
    <3>1. (i - j) + N = n
      BY DEF n
    <3> QED
      BY <1>1, <2>1, <3>1, LeftWraps
  <2>3. j + k = i + N /\ (N + i) - j = k
    BY <1>1, <2>1, <2>2
  <2>4. Wrapped(a, b, i, j) = -(a[j] * b[k])
    <3>1. Wrapped(a, b, i, j) = -(a[j] * b[N + (i - j)])
      BY <1>6 DEF Wrapped
    <3> HIDE DEF k
    <3>2. N + (i - j) = k
      BY <1>1, <2>3
    <3> QED
      BY <3>1, <3>2
  <2>5. Congruent(y, -x, q)
    BY <1>1, <2>3, MonomialAround
  <2> DEFINE c == a[j] * b[k]
  <2> HIDE DEF k, x, y
  <2>6. c \in Int /\ a[j] * (b[k] * y) = c * y
    BY <1>1, <1>3, <1>4
  <2> HIDE DEF c
  <2>7. Wrapped(a, b, i, j) * x = c * (-x) /\ -x \in Int /\ c * y \in Int /\ c * (-x) \in Int
    BY <1>4, <2>4, <2>6 DEF c
  <2>8. Congruent(c * y, c * (-x), q)
    BY <1>1, <1>4, <2>5, <2>6, <2>7, CongruentScale
  <2>9. Congruent(Wrapped(a, b, i, j) * x, a[j] * (b[k] * y), q)
    BY <2>6, <2>7, <2>8, CongruentEquivalence
  <2> QED
    BY <1>2, <2>6, <2>7, <2>9 DEF k, x, y
<1> QED
  BY <1>5, <1>6

(* The contributions of a[j] to the remainder of a product.                *)
LEMMA WrappedRow ==
  ASSUME NEW a \in [Index -> Int], NEW b \in [Index -> Int], NEW p \in Index, NEW j \in Index
  PROVE  LET g == [i \in Index |-> Wrapped(a, b, i, j) * Monomial(p, i)]
             h == [k \in Index |-> a[j] * (b[k] * Monomial(p, j + k))]
         IN  /\ \A i \in Index : g[i] \in Int
             /\ \A i \in Index : h[i] \in Int
             /\ Sum(g, Index) \in Int
             /\ Sum(h, Index) \in Int
             /\ Congruent(Sum(g, Index), Sum(h, Index), q)
<1> DEFINE g == [i \in Index |-> Wrapped(a, b, i, j) * Monomial(p, i)]
           h == [k \in Index |-> a[j] * (b[k] * Monomial(p, j + k))]
           to == [i \in Index |-> Left(i, j, N)]
           l == [i \in Index |-> h[to[i]]]
<1>1. N \in Nat \ {0} /\ q \in Nat \ {0} /\ IsFiniteSet(Index) /\ Index = Places(N) /\ Index \subseteq Nat
      /\ Index \subseteq Int /\ j \in Int
  BY IndexFinite, Widths DEF Index, Places
<1>2. \A i \in Index : to[i] \in Index /\ g[i] \in Int /\ l[i] \in Int /\ Congruent(g[i], l[i], q)
  BY WrappedTerm
<1>3. \A k \in Index : h[k] \in Int
  <2> SUFFICES ASSUME NEW k \in Index PROVE h[k] \in Int
    OBVIOUS
  <2>1. j + k \in Nat
    BY <1>1
  <2>2. Monomial(p, j + k) \in Int /\ a[j] \in Int /\ b[k] \in Int
    BY <2>1, MonomialType
  <2> QED
    BY <2>2
<1>4. to \in [Index -> Index]
  BY <1>2
<1>5. ASSUME NEW x \in Index, NEW y \in Index, to[x] = to[y]
      PROVE  x = y
  <2>1. Left(Left(x, j, N), -j, N) = x /\ Left(Left(y, j, N), -j, N) = y
    BY <1>1, LeftRound
  <2> QED
    BY <1>5, <2>1
<1>6. ASSUME NEW y \in Index
      PROVE  \E x \in Index : to[x] = y
  <2>1. Left(Left(y, -j, N), j, N) = y
    BY <1>1, LeftRound
  <2>2. -j \in Int
    BY <1>1
  <2>3. Left(y, -j, N) \in Index
    BY <1>1, <2>2, LeftPlace
  <2> QED
    BY <2>1, <2>3
<1> HIDE DEF g, h, to
<1>7. Sum(l, Index) = Sum(h, Index)
  <2>1. IsFiniteSet(Index)
    BY <1>1
  <2>2. /\ \A x, y \in Index : to[x] = to[y] => x = y
        /\ \A y \in Index : \E x \in Index : to[x] = y
    BY <1>5, <1>6
  <2> QED
    BY <1>3, <1>4, <2>1, <2>2, SumReindex
<1> HIDE DEF l
<1>8. Sum(g, Index) \in Int /\ Sum(l, Index) \in Int /\ Congruent(Sum(g, Index), Sum(l, Index), q)
  BY <1>1, <1>2, SumCongruent
<1>9. /\ \A i \in Index : g[i] \in Int
      /\ \A i \in Index : h[i] \in Int
      /\ Sum(g, Index) \in Int
      /\ Sum(h, Index) \in Int
      /\ Congruent(Sum(g, Index), Sum(h, Index), q)
  BY <1>2, <1>3, <1>7, <1>8
<1> QED
  BY <1>9 DEF g, h

Contribution(a, p) == [i \in Index |-> a[i] * Monomial(p, i)]

LEMMA ImageIs ==
  ASSUME NEW a \in [Index -> Int], NEW p \in Index
  PROVE  /\ Image(a)[p] = Sum(Contribution(a, p), Index) /\ Image(a)[p] \in Int
         /\ \A i \in Index : Contribution(a, p)[i] = a[i] * Monomial(p, i) /\ Contribution(a, p)[i] \in Int
  BY ImageType DEF Contribution

(* The sum of the contributions of a[j] to the remainder of a product.     *)
RowSum(a, b, p, j) == Sum([k \in Index |-> a[j] * (b[k] * Monomial(p, j + k))], Index)

LEMMA ProductRows ==
  ASSUME NEW a \in [Index -> Int], NEW b \in [Index -> Int], NEW p \in Index
  PROVE  LET l == [j \in Index |-> RowSum(a, b, p, j)] IN
         /\ \A j \in Index : l[j] \in Int
         /\ Congruent(Image(product(a, b))[p], Sum(l, Index), q)
<1> DEFINE c == product(a, b)
           F == [i \in Index |-> [j \in Index |-> Wrapped(a, b, i, j) * Monomial(p, i)]]
           G(j) == [i \in Index |-> Wrapped(a, b, i, j) * Monomial(p, i)]
           r == [j \in Index |-> Sum(G(j), Index)]
           l == [j \in Index |-> RowSum(a, b, p, j)]
           t == [i \in Index |-> Sum(F[i], Index)]
<1>1. IsFiniteSet(Index) /\ q \in Nat \ {0} /\ Index \subseteq Nat
  BY IndexFinite, Widths
<1>2. c \in [Index -> Int] /\ \A i, j \in Index : Wrapped(a, b, i, j) \in Int
  BY ProductIs
<1>3. \A j \in Index : /\ \A i \in Index : G(j)[i] \in Int
                       /\ r[j] \in Int /\ l[j] \in Int /\ Congruent(r[j], l[j], q)
  BY WrappedRow DEF RowSum
<1>4. F \in [Index -> [Index -> Int]]
  <2>1. \A i, j \in Index : Wrapped(a, b, i, j) * Monomial(p, i) \in Int
    BY <1>3
  <2> QED
    BY <2>1
<1>5. ASSUME NEW i \in Index
      PROVE  t[i] = Contribution(c, p)[i] /\ t[i] \in Int
  <2> DEFINE f == [j \in Index |-> Wrapped(a, b, i, j)]  u == Monomial(p, i)
  <2>1. u \in Int
    BY <1>1, MonomialType
  <2>2. \A j \in Index : f[j] \in Int /\ F[i][j] = f[j] * u
    BY <1>2
  <2>3. c[i] = Sum(f, Index) /\ c[i] \in Int
    BY <1>2, ProductIs
  <2>4. Contribution(c, p)[i] = c[i] * u /\ t[i] = Sum(F[i], Index)
    BY DEF Contribution
  <2> HIDE DEF f, u, F, c, t
  <2>5. \A j \in Index : F[i][j] = u * f[j]
    BY <2>1, <2>2
  <2> DEFINE v == F[i]
  <2>6. \A j \in Index : f[j] \in Int /\ v[j] = u * f[j]
    BY <2>2, <2>5
  <2> HIDE DEF v
  <2>8. IsFiniteSet(Index)
    BY <1>1
  <2>7. Sum(v, Index) = u * Sum(f, Index)
    BY <2>8, <2>1, <2>6, SumScaled
  <2> QED
    BY <2>1, <2>3, <2>4, <2>7 DEF v
<1>6. Contribution(c, p) = t
  BY <1>5 DEF Contribution
<1>7. Image(c)[p] = Sum(t, Index)
  BY <1>2, <1>6, ImageIs
<1>8. Sum(t, Index) = Sum(r, Index)
  <2>1. \A j \in Index : [i \in Index |-> F[i][j]] = G(j)
    OBVIOUS
  <2>2. r = [j \in Index |-> Sum([i \in Index |-> F[i][j]], Index)]
    BY <2>1
  <2> HIDE DEF F, r
  <2> QED
    BY <1>1, <1>4, <2>2, SumExchange
<1> HIDE DEF r, l, t, c
<1>9. Congruent(Sum(r, Index), Sum(l, Index), q)
  BY <1>1, <1>3, SumCongruent
<1>10. Congruent(Image(c)[p], Sum(l, Index), q)
  BY <1>7, <1>8, <1>9
<1> QED
  BY <1>3, <1>10 DEF c, l

(* What holds of monomials holds of polynomials.                           *)
LEMMA Bilinear ==
  ASSUME NEW a \in [Index -> Int], NEW b \in [Index -> Int], NEW p \in Index,
         NEW s1 \in Index, NEW t1 \in Index, NEW s2 \in Index, NEW t2 \in Index, NEW w \in Int,
         \A j \in Index : \A k \in Index :
           Monomial(p, j + k) = Monomial(s1, j) * Monomial(t1, k) + w * (Monomial(s2, j) * Monomial(t2, k))
  PROVE  Congruent(Image(product(a, b))[p],
                   Image(a)[s1] * Image(b)[t1] + w * (Image(a)[s2] * Image(b)[t2]), q)
<1> DEFINE A1 == Image(a)[s1]  A2 == Image(a)[s2]  B1 == Image(b)[t1]  B2 == Image(b)[t2]
           l == [j \in Index |-> RowSum(a, b, p, j)]
           f1 == Contribution(a, s1)  f2 == Contribution(a, s2)
           g1 == Contribution(b, t1)  g2 == Contribution(b, t2)
<1>1. IsFiniteSet(Index) /\ Index \subseteq Nat
  BY IndexFinite
<1>2. /\ A1 = Sum(f1, Index) /\ A2 = Sum(f2, Index) /\ B1 = Sum(g1, Index) /\ B2 = Sum(g2, Index)
      /\ A1 \in Int /\ A2 \in Int /\ B1 \in Int /\ B2 \in Int
      /\ \A j \in Index : /\ f1[j] = a[j] * Monomial(s1, j) /\ f1[j] \in Int
                          /\ f2[j] = a[j] * Monomial(s2, j) /\ f2[j] \in Int
                          /\ g1[j] = b[j] * Monomial(t1, j) /\ g1[j] \in Int
                          /\ g2[j] = b[j] * Monomial(t2, j) /\ g2[j] \in Int
  BY ImageIs
<1>3. \A x \in Index : \A i \in Index : Monomial(x, i) \in Int
  BY <1>1, MonomialType
<1> HIDE DEF A1, A2, B1, B2, f1, f2, g1, g2
<1> DEFINE c == w * B2
<1>4. c \in Int
  BY <1>2
<1>5. ASSUME NEW j \in Index
      PROVE  l[j] = B1 * f1[j] + c * f2[j]
  <2> DEFINE h == [k \in Index |-> a[j] * (b[k] * Monomial(p, j + k))]
             d == w * f2[j]
  <2>1. d \in Int
    BY <1>2
  <2>2. ASSUME NEW k \in Index
        PROVE  h[k] = f1[j] * g1[k] + d * g2[k]
    <3> DEFINE x == a[j]  y == b[k]  m1 == Monomial(s1, j)  m2 == Monomial(s2, j)
               n1 == Monomial(t1, k)  n2 == Monomial(t2, k)
    <3>1. x \in Int /\ y \in Int /\ m1 \in Int /\ m2 \in Int /\ n1 \in Int /\ n2 \in Int
      BY <1>3
    <3>2. h[k] = x * (y * (m1 * n1 + w * (m2 * n2)))
      OBVIOUS
    <3>3. f1[j] = x * m1 /\ f2[j] = x * m2 /\ g1[k] = y * n1 /\ g2[k] = y * n2
      BY <1>2
    <3> HIDE DEF x, y, m1, m2, n1, n2, h
    <3>4. x * (y * (m1 * n1 + w * (m2 * n2))) = (x * m1) * (y * n1) + (w * (x * m2)) * (y * n2)
      BY <3>1
    <3> QED
      BY <3>2, <3>3, <3>4
  <2>3. l[j] = Sum(h, Index)
    BY DEF RowSum
  <2> HIDE DEF h, d, l
  <2>4. f1[j] \in Int /\ \A k \in Index : g1[k] \in Int /\ g2[k] \in Int
    BY <1>2
  <2> DEFINE u == f1[j]
  <2>9. u \in Int /\ \A k \in Index : g1[k] \in Int /\ g2[k] \in Int /\ h[k] = u * g1[k] + d * g2[k]
    BY <2>2, <2>4
  <2> HIDE DEF u
  <2>11. IsFiniteSet(Index)
    BY <1>1
  <2>10. Sum(h, Index) = u * Sum(g1, Index) + d * Sum(g2, Index)
    BY <2>1, <2>9, <2>11, SumLinear
  <2>5. Sum(h, Index) = f1[j] * Sum(g1, Index) + d * Sum(g2, Index)
    BY <2>10 DEF u
  <2>6. Sum(h, Index) = f1[j] * B1 + d * B2
    BY <1>2, <2>5
  <2>7. f2[j] \in Int
    BY <1>2
  <2>8. d * B2 = c * f2[j] /\ f1[j] * B1 = B1 * f1[j]
    BY <1>2, <2>4, <2>7 DEF d
  <2> QED
    BY <2>3, <2>6, <2>8
<1>6. Congruent(Image(product(a, b))[p], Sum(l, Index), q)
  BY ProductRows
<1> HIDE DEF c, l
<1>7. Sum(l, Index) = B1 * Sum(f1, Index) + c * Sum(f2, Index)
  <2>1. \A j \in Index : f1[j] \in Int /\ f2[j] \in Int /\ l[j] = B1 * f1[j] + c * f2[j]
    BY <1>2, <1>5
  <2>2. IsFiniteSet(Index) /\ B1 \in Int
    BY <1>1, <1>2
  <2> QED
    BY <1>4, <2>1, <2>2, SumLinear
<1>8. Sum(l, Index) = B1 * A1 + c * A2
  BY <1>2, <1>7
<1>9. B1 * A1 = A1 * B1 /\ c * A2 = w * (A2 * B2)
  BY <1>2 DEF c
<1>10. Congruent(Image(product(a, b))[p], A1 * B1 + w * (A2 * B2), q)
  BY <1>6, <1>8, <1>9
<1> QED
  BY <1>10 DEF A1, A2, B1, B2

(* The transform makes products into products of pairs.                    *)
LEMMA ProductImage ==
  ASSUME NEW a \in [Index -> Int], NEW b \in [Index -> Int], NEW p \in Index
  PROVE  Congruent(Image(product(a, b))[p], PairProduct(Image(a), Image(b), p), q)
<1>1. Index \subseteq Nat
  BY IndexFinite
<1>2. CASE p % 2 = 0
  <2> DEFINE r == p + 1  w == PairNode(p)
  <2>1. r \in Index /\ w \in Int
    BY <1>2, PairPlaces, PairPower
  <2>2. \A j \in Index : \A k \in Index :
          Monomial(p, j + k) = Monomial(p, j) * Monomial(p, k) + w * (Monomial(r, j) * Monomial(r, k))
    BY <1>1, <1>2, MonomialProduct
  <2>3. PairProduct(Image(a), Image(b), p) = Image(a)[p] * Image(b)[p] + w * (Image(a)[r] * Image(b)[r])
    BY <1>2 DEF PairProduct
  <2> HIDE DEF r, w
  <2>4. Congruent(Image(product(a, b))[p], Image(a)[p] * Image(b)[p] + w * (Image(a)[r] * Image(b)[r]), q)
    BY <2>1, <2>2, Bilinear
  <2> QED
    BY <2>3, <2>4
<1>3. CASE p % 2 # 0
  <2> DEFINE r == p - 1
  <2>1. r \in Index
    BY <1>3, PairPlaces
  <2>2. \A j \in Index : \A k \in Index :
          Monomial(p, j + k) = Monomial(r, j) * Monomial(p, k) + Monomial(p, j) * Monomial(r, k)
    BY <1>1, <1>3, MonomialProduct
  <2>3. PairProduct(Image(a), Image(b), p) = Image(a)[r] * Image(b)[p] + Image(a)[p] * Image(b)[r]
    BY <1>3 DEF PairProduct
  <2> HIDE DEF r
  <2>4. \A j \in Index : \A k \in Index :
          Monomial(p, j + k) = Monomial(r, j) * Monomial(p, k) + 1 * (Monomial(p, j) * Monomial(r, k))
    <3> SUFFICES ASSUME NEW j \in Index, NEW k \in Index
                 PROVE  Monomial(p, j + k) = Monomial(r, j) * Monomial(p, k) + 1 * (Monomial(p, j) * Monomial(r, k))
      OBVIOUS
    <3> DEFINE x == Monomial(p, j) * Monomial(r, k)
    <3>1. x \in Int
      <4>1. Monomial(p, j) \in Int /\ Monomial(r, k) \in Int
        BY <1>1, <2>1, MonomialType
      <4> QED
        BY <4>1
    <3>2. Monomial(p, j + k) = Monomial(r, j) * Monomial(p, k) + x
      BY <2>2
    <3> HIDE DEF x
    <3>3. 1 * x = x
      BY <3>1
    <3> QED
      BY <3>2, <3>3 DEF x
  <2> DEFINE o == 1
  <2>5. o \in Int
    OBVIOUS
  <2>6. \A j \in Index : \A k \in Index :
          Monomial(p, j + k) = Monomial(r, j) * Monomial(p, k) + o * (Monomial(p, j) * Monomial(r, k))
    BY <2>4
  <2> HIDE DEF o
  <2>7. Congruent(Image(product(a, b))[p], Image(a)[r] * Image(b)[p] + o * (Image(a)[p] * Image(b)[r]), q)
    BY <2>1, <2>5, <2>6, Bilinear
  <2> DEFINE x == Image(a)[p] * Image(b)[r]
  <2>8. x \in Int
    <3>1. Image(a)[p] \in Int /\ Image(b)[r] \in Int
      BY <2>1, ImageIs
    <3> QED
      BY <3>1
  <2> HIDE DEF x
  <2>9. o * x = x
    BY <2>8 DEF o
  <2> QED
    BY <2>3, <2>7, <2>9 DEF x
<1> QED
  BY <1>2, <1>3

----------------------------------------------------------------------------

(***************************************************************************)
(* Kyber: vectors of polynomials.                                          *)
(***************************************************************************)

(* Congruent polynomials.                                                  *)
Alike(x, y) == \A i \in Index : Congruent(x[i], y[i], q)

LEMMA PairProductType ==
  ASSUME NEW x \in [Index -> Int], NEW y \in [Index -> Int], NEW p \in Index
  PROVE  PairProduct(x, y, p) \in Int
<1>1. PairNode(p) \in Int
  BY PairPower
<1>2. CASE p % 2 = 0
  <2>1. p + 1 \in Index
    BY <1>2, PairPlaces
  <2>2. x[p] \in Int /\ y[p] \in Int /\ x[p + 1] \in Int /\ y[p + 1] \in Int
    BY <2>1
  <2>3. PairProduct(x, y, p) = x[p] * y[p] + PairNode(p) * (x[p + 1] * y[p + 1])
    BY <1>2 DEF PairProduct
  <2> QED
    BY <1>1, <2>2, <2>3
<1>3. CASE p % 2 # 0
  <2>1. p - 1 \in Index
    BY <1>3, PairPlaces
  <2>2. x[p] \in Int /\ y[p] \in Int /\ x[p - 1] \in Int /\ y[p - 1] \in Int
    BY <2>1
  <2>3. PairProduct(x, y, p) = x[p - 1] * y[p] + x[p] * y[p - 1]
    BY <1>3 DEF PairProduct
  <2> QED
    BY <2>2, <2>3
<1> QED
  BY <1>2, <1>3

LEMMA TwoProducts ==
  ASSUME NEW w \in Int, NEW a \in Int, NEW b \in Int, NEW c \in Int, NEW d \in Int,
         NEW e \in Int, NEW f \in Int, NEW g \in Int, NEW h \in Int,
         Congruent(a, e, q), Congruent(b, f, q), Congruent(c, g, q), Congruent(d, h, q)
  PROVE  Congruent(a * b + w * (c * d), e * f + w * (g * h), q)
<1>1. q \in Nat \ {0} /\ a * b \in Int /\ c * d \in Int /\ e * f \in Int /\ g * h \in Int
  BY Widths
<1>2. Congruent(a * b, e * f, q) /\ Congruent(c * d, g * h, q)
  BY <1>1, CongruentMul
<1> DEFINE u == a * b  v == c * d  x == e * f  y == g * h
<1> HIDE DEF u, v, x, y
<1>3. u \in Int /\ v \in Int /\ x \in Int /\ y \in Int /\ Congruent(u, x, q) /\ Congruent(v, y, q)
  BY <1>1, <1>2 DEF u, v, x, y
<1>4. Congruent(w * v, w * y, q) /\ w * v \in Int /\ w * y \in Int
  <2>1. Congruent(w * v, w * y, q)
    BY <1>1, <1>3, CongruentScale
  <2>2. w * v \in Int /\ w * y \in Int
    BY <1>3
  <2> QED
    BY <2>1, <2>2
<1>5. Congruent(u + w * v, x + w * y, q)
  BY <1>1, <1>3, <1>4, CongruentAdd
<1> QED
  BY <1>5 DEF u, v, x, y

LEMMA PairProductBy ==
  ASSUME NEW x \in [Index -> Int], NEW y \in [Index -> Int], NEW u \in [Index -> Int], NEW v \in [Index -> Int],
         Alike(x, u), Alike(y, v), NEW p \in Index
  PROVE  Congruent(PairProduct(x, y, p), PairProduct(u, v, p), q)
<1> DEFINE w == PairNode(p)  o == 1
<1>1. w \in Int /\ o \in Int
  BY PairPower
<1>2. CASE p % 2 = 0
  <2> DEFINE r == p + 1
  <2>1. r \in Index
    BY <1>2, PairPlaces
  <2>2. PairProduct(x, y, p) = x[p] * y[p] + w * (x[r] * y[r]) /\ PairProduct(u, v, p) = u[p] * v[p] + w * (u[r] * v[r])
    BY <1>2 DEF PairProduct
  <2> HIDE DEF r, w
  <2>3. /\ x[p] \in Int /\ y[p] \in Int /\ x[r] \in Int /\ y[r] \in Int
        /\ u[p] \in Int /\ v[p] \in Int /\ u[r] \in Int /\ v[r] \in Int
        /\ Congruent(x[p], u[p], q) /\ Congruent(y[p], v[p], q) /\ Congruent(x[r], u[r], q) /\ Congruent(y[r], v[r], q)
    BY <2>1 DEF Alike
  <2>4. Congruent(x[p] * y[p] + w * (x[r] * y[r]), u[p] * v[p] + w * (u[r] * v[r]), q)
    BY <1>1, <2>3, TwoProducts
  <2> QED
    BY <2>2, <2>4
<1>3. CASE p % 2 # 0
  <2> DEFINE r == p - 1
  <2>1. r \in Index
    BY <1>3, PairPlaces
  <2>2. PairProduct(x, y, p) = x[r] * y[p] + x[p] * y[r] /\ PairProduct(u, v, p) = u[r] * v[p] + u[p] * v[r]
    BY <1>3 DEF PairProduct
  <2> HIDE DEF r, o
  <2>3. /\ x[p] \in Int /\ y[p] \in Int /\ x[r] \in Int /\ y[r] \in Int
        /\ u[p] \in Int /\ v[p] \in Int /\ u[r] \in Int /\ v[r] \in Int
        /\ Congruent(x[p], u[p], q) /\ Congruent(y[p], v[p], q) /\ Congruent(x[r], u[r], q) /\ Congruent(y[r], v[r], q)
    BY <2>1 DEF Alike
  <2>4. Congruent(x[r] * y[p] + o * (x[p] * y[r]), u[r] * v[p] + o * (u[p] * v[r]), q)
    BY <1>1, <2>3, TwoProducts
  <2>5. x[p] * y[r] \in Int /\ u[p] * v[r] \in Int
    BY <2>3
  <2>6. o * (x[p] * y[r]) = x[p] * y[r] /\ o * (u[p] * v[r]) = u[p] * v[r]
    BY <2>5 DEF o
  <2> QED
    BY <2>2, <2>4, <2>6
<1> QED
  BY <1>2, <1>3

(* Products of vectors.                                                    *)
LEMMA InnerIs ==
  ASSUME NEW a \in [Vec -> [Index -> Int]], NEW b \in [Vec -> [Index -> Int]]
  PROVE  /\ inner(a, b) \in [Index -> Int]
         /\ \A k \in Vec : product(a[k], b[k]) \in [Index -> Int]
         /\ \A i \in Index : inner(a, b)[i] = Sum([k \in Vec |-> product(a[k], b[k])[i]], Vec)
<1>1. \A k \in Vec : product(a[k], b[k]) \in [Index -> Int]
  BY ProductIs
<1>2. ASSUME NEW i \in Index
      PROVE  inner(a, b)[i] = Sum([k \in Vec |-> product(a[k], b[k])[i]], Vec) /\ inner(a, b)[i] \in Int
  <2> DEFINE f == [k \in Vec |-> product(a[k], b[k])[i]]
  <2>1. inner(a, b)[i] = SumFunction(f)
    BY DEF inner
  <2>2. DOMAIN f = Vec /\ \A k \in Vec : f[k] \in Int
    BY <1>1
  <2> HIDE DEF f
  <2>3. IsFiniteSet(Vec)
    BY IndexFinite
  <2>4. SumFunction(f) = Sum(f, Vec)
    BY <2>2, SumOver
  <2>5. Sum(f, Vec) \in Int
    BY <2>2, <2>3, SumStep
  <2> QED
    BY <2>1, <2>4, <2>5 DEF f
<1>3. inner(a, b) \in [Index -> Int]
  <2> DEFINE g == inner(a, b)
  <2>1. g = [i \in Index |-> g[i]]
    BY DEF inner
  <2>2. \A i \in Index : g[i] \in Int
    BY <1>2
  <2> HIDE DEF g
  <2>3. g \in [Index -> Int]
    BY <2>1, <2>2
  <2> QED
    BY <2>3 DEF g
<1> QED
  BY <1>1, <1>2, <1>3

(* The image of a sum of polynomials.                                      *)
Column(c, i, S) == [k \in S |-> c[k][i]]
Images(c, p, S) == [k \in S |-> Image(c[k])[p]]

LEMMA ImageOfSum ==
  ASSUME NEW S, IsFiniteSet(S), NEW c \in [S -> [Index -> Int]], NEW d \in [Index -> Int],
         \A i \in Index : d[i] = Sum(Column(c, i, S), S), NEW p \in Index
  PROVE  Image(d)[p] = Sum(Images(c, p, S), S)
<1> DEFINE F == [i \in Index |-> [k \in S |-> c[k][i] * Monomial(p, i)]]
           t == [i \in Index |-> Sum(F[i], S)]
           r == [k \in S |-> Sum([i \in Index |-> F[i][k]], Index)]
<1>1. IsFiniteSet(Index)
  BY IndexFinite
<1>2. \A i \in Index : Monomial(p, i) \in Int
  BY IndexFinite, MonomialType
<1>3. F \in [Index -> [S -> Int]]
  <2>1. \A i \in Index : \A k \in S : c[k][i] * Monomial(p, i) \in Int
    BY <1>2
  <2> QED
    BY <2>1
<1>4. ASSUME NEW i \in Index
      PROVE  t[i] = Contribution(d, p)[i]
  <2> DEFINE u == Monomial(p, i)  f == [k \in S |-> c[k][i]]  v == F[i]
  <2>1. u \in Int
    BY <1>2
  <2>2. \A k \in S : f[k] \in Int /\ v[k] = f[k] * u
    OBVIOUS
  <2>3. Contribution(d, p)[i] = d[i] * u /\ d[i] = Sum(f, S) /\ t[i] = Sum(v, S) /\ d[i] \in Int
    BY DEF Contribution, Column
  <2> HIDE DEF u, f, v, t
  <2>4. \A k \in S : f[k] \in Int /\ v[k] = u * f[k]
    BY <2>1, <2>2
  <2>5. Sum(v, S) = u * Sum(f, S)
    BY <2>1, <2>4, SumScaled
  <2> QED
    BY <2>1, <2>3, <2>5
<1>5. Contribution(d, p) = t
  BY <1>4 DEF Contribution
<1>6. Image(d)[p] = Sum(t, Index)
  BY <1>5, ImageIs
<1>7. Sum(t, Index) = Sum(r, S)
  <2> HIDE DEF F
  <2> QED
    BY <1>1, <1>3, SumExchange
<1>8. ASSUME NEW k \in S
      PROVE  r[k] = Image(c[k])[p]
  <2>1. [i \in Index |-> F[i][k]] = Contribution(c[k], p)
    BY DEF Contribution
  <2>2. c[k] \in [Index -> Int]
    OBVIOUS
  <2>3. r[k] = Sum(Contribution(c[k], p), Index)
    BY <2>1
  <2> HIDE DEF r
  <2> QED
    BY <2>2, <2>3, ImageIs
<1>9. r = Images(c, p, S)
  BY <1>8 DEF Images
<1> QED
  BY <1>6, <1>7, <1>9

PairTerms(a, b, p) == [k \in Vec |-> PairProduct(a[k], b[k], p)]

(* The image of an inner product is the sum of the products of pairs.      *)
LEMMA InnerImage ==
  ASSUME NEW a \in [Vec -> [Index -> Int]], NEW b \in [Vec -> [Index -> Int]],
         NEW x \in [Vec -> [Index -> Int]], NEW y \in [Vec -> [Index -> Int]],
         \A k \in Vec : Alike(x[k], Image(a[k])) /\ Alike(y[k], Image(b[k])), NEW p \in Index
  PROVE  /\ \A k \in Vec : PairTerms(x, y, p)[k] \in Int
         /\ Sum(PairTerms(x, y, p), Vec) \in Int
         /\ Congruent(Sum(PairTerms(x, y, p), Vec), Image(inner(a, b))[p], q)
<1> DEFINE c == [k \in Vec |-> product(a[k], b[k])]  d == inner(a, b)
           f == PairTerms(x, y, p)  g == [k \in Vec |-> Image(c[k])[p]]
<1>1. IsFiniteSet(Vec) /\ q \in Nat \ {0}
  BY IndexFinite, Widths
<1>2. c \in [Vec -> [Index -> Int]] /\ d \in [Index -> Int]
  BY InnerIs
<1>3. \A i \in Index : d[i] = Sum(Column(c, i, Vec), Vec)
  <2> SUFFICES ASSUME NEW i \in Index PROVE d[i] = Sum(Column(c, i, Vec), Vec)
    OBVIOUS
  <2>1. Column(c, i, Vec) = [k \in Vec |-> product(a[k], b[k])[i]]
    BY DEF Column
  <2> QED
    BY <2>1, InnerIs
<1>4. Image(d)[p] = Sum(g, Vec)
  <2>1. IsFiniteSet(Vec)
    BY <1>1
  <2> HIDE DEF c, d
  <2>2. Image(d)[p] = Sum(Images(c, p, Vec), Vec)
    BY <1>2, <1>3, <2>1, ImageOfSum
  <2> QED
    BY <2>2 DEF Images
<1>5. ASSUME NEW k \in Vec
      PROVE  f[k] \in Int /\ g[k] \in Int /\ Congruent(f[k], g[k], q)
  <2> DEFINE ak == a[k]  bk == b[k]  xk == x[k]  yk == y[k]  u == Image(ak)  v == Image(bk)
  <2>1. ak \in [Index -> Int] /\ bk \in [Index -> Int] /\ xk \in [Index -> Int] /\ yk \in [Index -> Int]
        /\ Alike(xk, u) /\ Alike(yk, v)
    OBVIOUS
  <2>2. f[k] = PairProduct(xk, yk, p) /\ g[k] = Image(product(ak, bk))[p]
    BY DEF PairTerms
  <2> HIDE DEF ak, bk, xk, yk, f, g
  <2>3. u \in [Index -> Int] /\ v \in [Index -> Int]
    BY <2>1, ImageType
  <2>4. product(ak, bk) \in [Index -> Int]
    BY <2>1, ProductIs
  <2>5. Congruent(Image(product(ak, bk))[p], PairProduct(u, v, p), q)
    BY <2>1, ProductImage
  <2> HIDE DEF u, v
  <2>6. Congruent(PairProduct(xk, yk, p), PairProduct(u, v, p), q)
    BY <2>1, <2>3, PairProductBy
  <2>7. PairProduct(xk, yk, p) \in Int
    BY <2>1, PairProductType
  <2>8. Image(product(ak, bk))[p] \in Int
    BY <2>4, ImageIs
  <2>9. Congruent(PairProduct(xk, yk, p), Image(product(ak, bk))[p], q)
    BY <2>5, <2>6, CongruentEquivalence
  <2> QED
    BY <2>2, <2>7, <2>8, <2>9
<1> HIDE DEF f, g
<1>6. Sum(f, Vec) \in Int /\ Congruent(Sum(f, Vec), Sum(g, Vec), q)
  BY <1>1, <1>5, SumCongruent
<1> QED
  BY <1>4, <1>5, <1>6 DEF f, d

(* poly_add and poly_sub, and when they do not overflow.                   *)
LEMMA PolyAdd ==
  ASSUME NEW r \in Poly, NEW u \in Poly
  PROVE  /\ poly_add[r][u] \in Poly /\ poly_sub[r][u] \in Poly
         /\ \A i \in Index : /\ poly_add[r][u][i] = short(r[i] + u[i])
                             /\ poly_sub[r][u][i] = short(r[i] - u[i])
         /\ \A m1, m2 \in Nat : Within(r, m1) /\ Within(u, m2) /\ m1 + m2 < Half =>
              \A i \in Index : poly_add[r][u][i] = r[i] + u[i] /\ poly_sub[r][u][i] = r[i] - u[i]
<1>1. /\ poly_add[r][u] = [i \in Index |-> short(r[i] + u[i])]
      /\ poly_sub[r][u] = [i \in Index |-> short(r[i] - u[i])]
  BY DEF poly_add, poly_sub
<1>2. \A i \in Index : r[i] \in Int /\ u[i] \in Int
  BY PolyIs
<1>3. \A i \in Index : /\ short(r[i] + u[i]) \in (-Half)..(Half - 1)
                       /\ short(r[i] - u[i]) \in (-Half)..(Half - 1)
  <2> SUFFICES ASSUME NEW i \in Index
               PROVE  /\ short(r[i] + u[i]) \in (-Half)..(Half - 1)
                      /\ short(r[i] - u[i]) \in (-Half)..(Half - 1)
    OBVIOUS
  <2>1. r[i] + u[i] \in Int /\ r[i] - u[i] \in Int
    BY <1>2
  <2> QED
    BY <2>1, ShortCuts
<1>4. ASSUME NEW m1 \in Nat, NEW m2 \in Nat, Within(r, m1), Within(u, m2), m1 + m2 < Half, NEW i \in Index
      PROVE  short(r[i] + u[i]) = r[i] + u[i] /\ short(r[i] - u[i]) = r[i] - u[i]
  <2>1. -m1 <= r[i] /\ r[i] <= m1 /\ -m2 <= u[i] /\ u[i] <= m2 /\ Half \in Nat
    BY <1>4, Widths DEF Within
  <2>2. r[i] + u[i] \in (-Half)..(Half - 1) /\ r[i] - u[i] \in (-Half)..(Half - 1)
    BY <1>2, <1>4, <2>1
  <2> QED
    BY <2>2, ShortKeeps
<1> QED
  BY <1>1, <1>3, <1>4, PolyIs

LEMMA PlacesOfVec ==
  /\ Places(K) = Vec /\ Places(0 + 1) = {0} /\ K - 1 \in Nat /\ (K - 1) + 1 = K /\ K \in Nat \ {0}
  /\ \A t \in Nat : t <= K - 1 => t \in Vec /\ Places(t + 1) \subseteq Vec
  BY RingAssumption DEF Places, Vec

(* The accumulated products, before the reduction.                         *)
LEMMA Accumulation ==
  ASSUME NEW a \in Polyvec, NEW b \in [Vec -> Reduceds]
  PROVE  \E x \in Poly : /\ polyvec_pointwise_acc[a][b] = poly_reduce[x]
                         /\ \A p \in Index : Congruent(R * x[p], Sum(PairTerms(a, b, p), Vec), q)
<1> DEFINE n == K - 1
           prod(k) == poly_basemul[a[k]][b[k]]
           lay == [k \in 1..n |-> [r \in Poly |-> poly_add[r][prod(k)]]]
           body(f) == [k \in Vec |-> IF k = 0 THEN poly_basemul[a[0]][b[0]] ELSE poly_add[f[k - 1]][prod(k)]]
<1>1. n \in Nat /\ n + 1 = K /\ K \in Nat \ {0} /\ Vec = 0..n /\ 0 \in Vec /\ q \in Nat \ {0} /\ Half \in Nat
      /\ 1..n \subseteq Vec
  BY PlacesOfVec, Widths DEF Vec
<1>2. b \in Polyvec
  BY ReducedType DEF Polyvec
<1>3. \A k \in Vec : /\ a[k] \in Poly /\ b[k] \in Reduceds
                     /\ prod(k) \in Poly /\ Within(prod(k), 2 * q)
                     /\ \A p \in Index : Congruent(R * prod(k)[p], PairProduct(a[k], b[k], p), q)
  BY Basemul DEF Polyvec
<1> HIDE DEF prod
<1>4. PICK f : f = body(f)
  <2>1. \A t \in 1..n : \A x \in Poly : lay[t][x] \in Poly
    BY <1>1, <1>3, PolyAdd
  <2>2. PICK f : IsStages(f, n, prod(0), lay)
    <3>1. prod(0) \in Poly
      BY <1>1, <1>3
    <3> HIDE DEF lay, n
    <3> QED
      BY <1>1, <2>1, <3>1, StageExists
  <2>3. f = [t \in 0..n |-> IF t = 0 THEN prod(0) ELSE lay[t][f[t - 1]]]
    BY <2>2 DEF IsStages
  <2>4. ASSUME NEW t \in Nat
        PROVE  t <= n => f[t] \in Poly
    <3> DEFINE S == {u \in Nat : u <= n => f[u] \in Poly}
    <3>1. 0 \in S
      BY <1>1, <1>3, <2>3
    <3>2. ASSUME NEW u \in Nat, u \in S PROVE u + 1 \in S
      <4> SUFFICES ASSUME u + 1 <= n PROVE f[u + 1] \in Poly
        OBVIOUS
      <4>1. u + 1 \in 1..n /\ u + 1 \in 0..n /\ u + 1 # 0 /\ (u + 1) - 1 = u /\ u <= n
        BY <1>1
      <4> HIDE DEF lay, n
      <4>2. f[u + 1] = lay[u + 1][f[u]]
        BY <2>3, <4>1
      <4>3. f[u] \in Poly
        BY <3>2, <4>1
      <4> QED
        BY <2>1, <4>1, <4>2, <4>3
    <3> HIDE DEF S
    <3>3. Nat \subseteq S
      BY <3>1, <3>2, Induction
    <3> QED
      BY <3>3 DEF S
  <2>5. \A t \in 0..n : t = 0 \/ (t \in 1..n /\ f[t - 1] \in Poly)
    <3> SUFFICES ASSUME NEW t \in 0..n, t # 0 PROVE t \in 1..n /\ f[t - 1] \in Poly
      OBVIOUS
    <3>1. t \in 1..n /\ t - 1 \in Nat /\ t - 1 <= n
      BY <1>1
    <3> QED
      BY <2>4, <3>1
  <2>6. f = body(f)
    <3>1. \A t \in 0..n : t = 0 \/ lay[t][f[t - 1]] = poly_add[f[t - 1]][prod(t)]
      BY <2>5
    <3>2. poly_basemul[a[0]][b[0]] = prod(0)
      BY DEF prod
    <3> HIDE DEF lay, n
    <3> QED
      BY <1>1, <2>3, <3>1, <3>2
  <2> QED
    BY <2>6
<1> DEFINE g == CHOOSE h : h = body(h)
<1>5. g = body(g)
  <2> HIDE DEF body
  <2> QED
    BY <1>4
<1>6. polyvec_pointwise_acc[a][b] = poly_reduce[g[K - 1]]
  BY <1>2 DEF polyvec_pointwise_acc, prod
<1> HIDE DEF g
<1>7. g[0] = prod(0) /\ \A t \in 1..n : g[t] = poly_add[g[t - 1]][prod(t)]
  <2>1. poly_basemul[a[0]][b[0]] = prod(0)
    BY DEF prod
  <2>2. \A t \in 1..n : t \in Vec /\ t # 0
    BY <1>1
  <2> QED
    BY <1>1, <1>5, <2>1, <2>2
<1> DEFINE beta == 2 * q
           Total(t) == \A p \in Index : Congruent(R * g[t][p], Sum(PairTerms(a, b, p), Places(t + 1)), q)
           S == {t \in Nat : t <= n => g[t] \in Poly /\ Within(g[t], (t + 1) * beta) /\ Total(t)}
<1>8. beta \in Nat /\ \A t \in Nat : t <= n => (t + 1) * beta \in Nat /\ (t + 1) * beta < Half
  <2>1. beta \in Nat
    BY <1>1
  <2>2. K * beta < Half
    <3>1. 4 * K * q < 2 * Half
      BY HeadroomAssumption, Widths
    <3>2. 4 * K * q = 2 * (K * beta)
      BY <1>1
    <3>3. K * beta \in Nat
      BY <1>1
    <3> HIDE DEF beta
    <3> QED
      BY <1>1, <3>1, <3>2, <3>3
  <2> SUFFICES ASSUME NEW t \in Nat, t <= n PROVE (t + 1) * beta \in Nat /\ (t + 1) * beta < Half
    BY <2>1
  <2> HIDE DEF beta
  <2>3. t + 1 <= K /\ (t + 1) * beta <= K * beta
    <3>1. t + 1 <= K
      BY <1>1
    <3> QED
      BY <1>1, <2>1, <3>1
  <2>4. (t + 1) * beta \in Nat /\ K * beta \in Nat
    BY <1>1, <2>1
  <2> QED
    BY <1>1, <2>2, <2>3, <2>4
<1>9. \A p \in Index : \A k \in Vec : PairTerms(a, b, p)[k] = PairProduct(a[k], b[k], p) /\ PairTerms(a, b, p)[k] \in Int
  <2>1. \A k \in Vec : a[k] \in [Index -> Int] /\ b[k] \in [Index -> Int]
    BY <1>3, PolyIs, ReducedType
  <2> QED
    BY <2>1, PairProductType DEF PairTerms
<1> HIDE DEF beta
<1>10. 0 \in S
  <2>1. g[0] \in Poly /\ Within(g[0], 2 * q) /\ (0 + 1) * beta = 2 * q
    BY <1>1, <1>3, <1>7 DEF beta
  <2>2. Total(0)
    <3> SUFFICES ASSUME NEW p \in Index
                 PROVE  Congruent(R * g[0][p], Sum(PairTerms(a, b, p), Places(0 + 1)), q)
      OBVIOUS
    <3> DEFINE pt == PairTerms(a, b, p)  z == 0
    <3>1. pt[z] = PairProduct(a[0], b[0], p) /\ pt[z] \in Int
      BY <1>1, <1>9
    <3>2. Congruent(R * g[0][p], PairProduct(a[0], b[0], p), q)
      BY <1>1, <1>3, <1>7
    <3>3. Places(0 + 1) = {z} /\ IsFiniteSet({z})
      <4>1. Places(0 + 1) = {0}
        BY PlacesOfVec
      <4> QED
        BY <4>1, FS_Singleton
    <3>4. \A x \in {z} \ {z} : pt[x] = 0
      OBVIOUS
    <3>5. z \in {z}
      OBVIOUS
    <3> HIDE DEF pt, z
    <3>6. Sum(pt, {z}) = pt[z]
      BY <3>1, <3>3, <3>4, <3>5, SumSingle
    <3> QED
      BY <3>1, <3>2, <3>3, <3>6 DEF pt
  <2> QED
    BY <2>1, <2>2
<1>11. ASSUME NEW t \in Nat, t \in S PROVE t + 1 \in S
  <2> SUFFICES ASSUME t + 1 <= n
               PROVE  g[t + 1] \in Poly /\ Within(g[t + 1], ((t + 1) + 1) * beta) /\ Total(t + 1)
    OBVIOUS
  <2> DEFINE u == t + 1  m1 == (t + 1) * beta
  <2>1. u \in Nat /\ u \in 1..n /\ u - 1 = t /\ t <= n /\ u \in Vec
    BY <1>1
  <2>2. g[t] \in Poly /\ Within(g[t], m1) /\ Total(t)
    BY <1>11, <2>1
  <2>3. g[u] = poly_add[g[t]][prod(u)]
    BY <1>7, <2>1
  <2>4. prod(u) \in Poly /\ Within(prod(u), beta) /\ \A p \in Index : Congruent(R * prod(u)[p], PairProduct(a[u], b[u], p), q)
    BY <1>3, <2>1 DEF beta
  <2>5. m1 \in Nat /\ m1 + beta = (u + 1) * beta /\ m1 + beta < Half
    <3>1. (u + 1) * beta < Half /\ m1 \in Nat
      BY <1>8, <2>1
    <3>2. m1 + beta = (u + 1) * beta
      BY <1>8
    <3> QED
      BY <3>1, <3>2
  <2> HIDE DEF m1, n
  <2>6. g[u] \in Poly /\ \A i \in Index : g[u][i] = g[t][i] + prod(u)[i]
    BY <1>8, <2>2, <2>3, <2>4, <2>5, PolyAdd
  <2>7. Within(g[u], m1 + beta)
    <3> SUFFICES ASSUME NEW i \in Index PROVE -(m1 + beta) <= g[u][i] /\ g[u][i] <= m1 + beta
      BY DEF Within
    <3>1. -m1 <= g[t][i] /\ g[t][i] <= m1 /\ -beta <= prod(u)[i] /\ prod(u)[i] <= beta
      BY <2>2, <2>4 DEF Within
    <3>2. g[t][i] \in Int /\ prod(u)[i] \in Int
      BY <2>2, <2>4, PolyIs
    <3> QED
      BY <1>8, <2>5, <2>6, <3>1, <3>2
  <2>8. Total(u)
    <3> SUFFICES ASSUME NEW p \in Index
                 PROVE  Congruent(R * g[u][p], Sum(PairTerms(a, b, p), Places(u + 1)), q)
      OBVIOUS
    <3> DEFINE pt == PairTerms(a, b, p)  T == Places(u)  s1 == Sum(pt, T)  x == g[t][p]  y == prod(u)[p]
    <3>1. x \in Int /\ y \in Int /\ R \in Int
      BY <2>2, <2>4, PolyIs, Widths
    <3>2. Places(u + 1) = T \cup {u} /\ u \notin T /\ IsFiniteSet(T)
      BY <2>1, PlacesGrow
    <3>3. T \subseteq Vec
      BY <2>1, PlacesOfVec, <1>1
    <3>4. \A k \in T \cup {u} : pt[k] \in Int
      BY <1>9, <2>1, <3>3
    <3>5. pt[u] = PairProduct(a[u], b[u], p)
      BY <1>9, <2>1
    <3>6. Congruent(R * x, s1, q)
      BY <2>2
    <3>7. Congruent(R * y, pt[u], q)
      BY <2>4, <3>5
    <3> HIDE DEF pt, T, x, y, u
    <3>8. Sum(pt, T \cup {u}) = pt[u] + Sum(pt, T) /\ Sum(pt, T) \in Int
      BY <3>2, <3>4, SumAdd, SumStep
    <3> HIDE DEF s1
    <3>9. R * x \in Int /\ R * y \in Int /\ s1 \in Int /\ pt[u] \in Int
      BY <3>1, <3>4, <3>8 DEF s1
    <3>10. Congruent(R * x + R * y, s1 + pt[u], q)
      BY <1>1, <3>6, <3>7, <3>9, CongruentAdd
    <3>11. R * (x + y) = R * x + R * y
      BY <3>1
    <3>12. s1 + pt[u] = Sum(pt, T \cup {u})
      BY <3>8, <3>9 DEF s1
    <3>13. g[u][p] = x + y
      BY <2>6 DEF x, y
    <3> QED
      BY <3>2, <3>10, <3>11, <3>12, <3>13 DEF pt
  <2> QED
    BY <2>5, <2>6, <2>7, <2>8
<1>12. n \in S
  <2> HIDE DEF S
  <2>1. \A t \in Nat : t \in S => t + 1 \in S
    BY <1>11
  <2>2. Nat \subseteq S
    BY <1>10, <2>1, Induction
  <2> QED
    BY <1>1, <2>2
<1>13. g[n] \in Poly /\ Total(n) /\ Places(n + 1) = Vec
  <2>1. n <= n
    BY <1>1
  <2> QED
    BY <1>1, <1>12, <2>1, PlacesOfVec
<1> QED
  BY <1>6, <1>13

(* polyvec_pointwise_acc returns the sum of the products of pairs, divided *)
(* by R and reduced.                                                       *)
LEMMA PointwiseAcc ==
  ASSUME NEW a \in Polyvec, NEW b \in [Vec -> Reduceds]
  PROVE  /\ polyvec_pointwise_acc[a][b] \in Reduceds
         /\ \A p \in Index : Congruent(R * polyvec_pointwise_acc[a][b][p], Sum(PairTerms(a, b, p), Vec), q)
<1>1. PICK x \in Poly : /\ polyvec_pointwise_acc[a][b] = poly_reduce[x]
                        /\ \A p \in Index : Congruent(R * x[p], Sum(PairTerms(a, b, p), Vec), q)
  BY Accumulation
<1> DEFINE y == polyvec_pointwise_acc[a][b]
<1>2. y \in Reduceds /\ \A p \in Index : Congruent(y[p], x[p], q)
  BY <1>1, PolyReduce
<1> HIDE DEF y
<1>3. ASSUME NEW p \in Index
      PROVE  Congruent(R * y[p], Sum(PairTerms(a, b, p), Vec), q)
  <2>1. y[p] \in Int /\ x[p] \in Int /\ R \in Int /\ q \in Nat \ {0}
    BY <1>2, PolyIs, ReducedType, Widths
  <2>2. Congruent(R * y[p], R * x[p], q)
    BY <1>2, <2>1, CongruentScale
  <2> QED
    BY <1>1, <2>2, CongruentEquivalence
<1> QED
  BY <1>2, <1>3 DEF y

----------------------------------------------------------------------------

(***************************************************************************)
(* Kyber: the inverse transform, layer by layer.                           *)
(***************************************************************************)

(* A butterfly of an inverse layer.                                        *)
LEMMA InverseValues ==
  ASSUME NEW e \in 1..(LogN - 1), NEW r \in Poly, Within(r, q)
  PROVE  /\ invntt_layer[two_to[e]][r] \in Poly
         /\ Within(invntt_layer[two_to[e]][r], q)
         /\ \A lo \in Index : Lower(lo, two_to[e]) =>
              LET len == two_to[e]  up == lo + len  x == invntt_layer[len][r] IN
              /\ Congruent(x[lo], r[lo] + r[up], q)
              /\ \E v \in Int : /\ Congruent(v * Zeta(zeta_index(lo, len)), 1, q)
                                /\ Congruent(x[up], v * (r[lo] - r[up]), q)
<1> DEFINE len == two_to[e]  out1 == invntt_layer[len][r]
           at0(i) == IF Lower(i, len) THEN barrett_reduce(short(r[i] + r[i + len]))
                     ELSE fqmul(zetas_inv[zeta_index(i, len)], short(r[i - len] - r[i]))
<1>1. len \in 1..N /\ len \in Int
  BY LayerSizes
<1>2. out1 = [i \in Index |-> at0(i)]
  BY <1>1 DEF invntt_layer
<1> HIDE DEF len, out1
<1>3. \A lo \in Index : Lower(lo, len) =>
        LET up == lo + len IN
        /\ up \in Index
        /\ at0(lo) \in 0..q
        /\ at0(up) \in (1 - q)..(q - 1)
        /\ Congruent(at0(lo), r[lo] + r[up], q)
        /\ \E v \in Int : /\ Congruent(v * Zeta(zeta_index(lo, len)), 1, q)
                          /\ Congruent(at0(up), v * (r[lo] - r[up]), q)
  <2> SUFFICES ASSUME NEW lo \in Index, Lower(lo, len)
               PROVE  LET up == lo + len IN
                      /\ up \in Index
                      /\ at0(lo) \in 0..q
                      /\ at0(up) \in (1 - q)..(q - 1)
                      /\ Congruent(at0(lo), r[lo] + r[up], q)
                      /\ \E v \in Int : /\ Congruent(v * Zeta(zeta_index(lo, len)), 1, q)
                                        /\ Congruent(at0(up), v * (r[lo] - r[up]), q)
    OBVIOUS
  <2> DEFINE up == lo + len  k == zeta_index(lo, len)  z == zetas_inv[k]  a == r[lo] + r[up]  b == r[lo] - r[up]
  <2>1. up \in Index /\ up - len = lo /\ ~Lower(up, len) /\ k \in 1..(Pairs - 1) /\ zeta_index(up, len) = k
    BY Butterfly DEF len
  <2>2. at0(lo) = barrett_reduce(short(a))
    OBVIOUS
  <2>3. at0(up) = fqmul(z, short(b))
    BY <2>1
  <2> HIDE DEF up, k, at0
  <2>4. a \in int16 /\ a \in (-Half)..(Half - 1) /\ b \in int16 /\ b \in (-Half)..(Half - 1)
    <3> DEFINE x == r[lo]  y == r[up]
    <3>1. x \in Int /\ y \in Int /\ -q <= x /\ x <= q /\ -q <= y /\ y <= q
      BY <2>1, PolyIs DEF Within
    <3>2. 4 * q < Half /\ q \in Nat /\ Half \in Nat
      BY Widths
    <3> HIDE DEF x, y
    <3>3. x + y \in (-Half)..(Half - 1) /\ x - y \in (-Half)..(Half - 1)
      BY <3>1, <3>2
    <3> QED
      BY <3>3, Shorts DEF x, y
  <2> HIDE DEF a, b
  <2>5. short(a) = a /\ short(b) = b
    BY <2>4, ShortKeeps
  <2>6. barrett_reduce(a) \in 0..q /\ Congruent(barrett_reduce(a), a, q)
    BY <2>4, BarrettReduces DEF Congruent
  <2>7. PICK v \in Int : Congruent(z, v * R, q) /\ Congruent(v * Zeta(k), 1, q) /\ z \in 0..(q - 1)
    BY <2>1, ZetaInverse
  <2> HIDE DEF z
  <2>8. z \in (1 - q)..q
    BY <2>7, Widths
  <2>9. fqmul(z, b) = fqmul(b, z) /\ Congruent(fqmul(b, z), v * b, q)
    BY <2>4, <2>7, <2>8, FqmulBy
  <2>10. fqmul(b, z) \in (1 - q)..(q - 1)
    BY <2>4, <2>8, Fqmul
  <2>11. at0(lo) \in 0..q /\ Congruent(at0(lo), a, q)
    BY <2>2, <2>5, <2>6
  <2>12. at0(up) \in (1 - q)..(q - 1) /\ Congruent(at0(up), v * b, q)
    BY <2>3, <2>5, <2>9, <2>10
  <2>13. /\ up \in Index
         /\ at0(lo) \in 0..q
         /\ at0(up) \in (1 - q)..(q - 1)
         /\ Congruent(at0(lo), r[lo] + r[up], q)
         /\ \E vv \in Int : /\ Congruent(vv * Zeta(k), 1, q)
                            /\ Congruent(at0(up), vv * (r[lo] - r[up]), q)
    BY <2>1, <2>7, <2>11, <2>12 DEF a, b
  <2> QED
    BY <2>13 DEF up, k
<1>4. \A i \in Index : at0(i) \in (-q)..q
  <2> SUFFICES ASSUME NEW i \in Index PROVE at0(i) \in (-q)..q
    OBVIOUS
  <2>0. q \in Nat
    BY Widths
  <2>1. CASE Lower(i, len)
    <3>1. at0(i) \in 0..q
      BY <1>3, <2>1
    <3> HIDE DEF at0
    <3> QED
      BY <2>0, <3>1
  <2>2. CASE ~Lower(i, len)
    <3> DEFINE lo == i - len
    <3>1. lo \in Index /\ Lower(lo, len) /\ lo + len = i
      BY <2>2, UpperPartner DEF len
    <3> HIDE DEF lo
    <3>2. at0(lo + len) \in (1 - q)..(q - 1)
      BY <1>3, <3>1
    <3>3. at0(i) \in (1 - q)..(q - 1)
      BY <3>1, <3>2
    <3> HIDE DEF at0
    <3> QED
      BY <2>0, <3>3
  <2> QED
    BY <2>1, <2>2
<1> HIDE DEF at0
<1>5. \A i \in Index : at0(i) \in (-Half)..(Half - 1) /\ -q <= at0(i) /\ at0(i) <= q
  <2>1. 4 * q < Half /\ q \in Nat /\ Half \in Nat
    BY Widths
  <2> QED
    BY <1>4, <2>1
<1>6. out1 \in Poly /\ Within(out1, q)
  BY <1>2, <1>5, PolyIs DEF Within
<1>7. \A i \in Index : out1[i] = at0(i)
  BY <1>2
<1>8. ASSUME NEW lo \in Index, Lower(lo, len)
      PROVE  /\ Congruent(out1[lo], r[lo] + r[lo + len], q)
             /\ \E v \in Int : /\ Congruent(v * Zeta(zeta_index(lo, len)), 1, q)
                               /\ Congruent(out1[lo + len], v * (r[lo] - r[lo + len]), q)
  <2> DEFINE up == lo + len
  <2>1. /\ up \in Index
        /\ Congruent(at0(lo), r[lo] + r[up], q)
        /\ \E v \in Int : /\ Congruent(v * Zeta(zeta_index(lo, len)), 1, q)
                          /\ Congruent(at0(up), v * (r[lo] - r[up]), q)
    BY <1>3, <1>8
  <2> HIDE DEF up
  <2>2. out1[up] = at0(up) /\ out1[lo] = at0(lo)
    BY <1>7, <2>1
  <2>3. /\ Congruent(out1[lo], r[lo] + r[up], q)
        /\ \E v \in Int : /\ Congruent(v * Zeta(zeta_index(lo, len)), 1, q)
                          /\ Congruent(out1[up], v * (r[lo] - r[up]), q)
    BY <2>1, <2>2
  <2> QED
    BY <2>3 DEF up
<1> QED
  BY <1>6, <1>8 DEF len, out1

(* What an inverse layer computes: each layer doubles.                     *)
Scaled(y, c, b, n) == \A i \in Index : Congruent(R * y[i], n * Value(c, b, i), q)

LEMMA ScaledSum ==
  ASSUME NEW x \in Int, NEW y \in Int, NEW z \in Int, NEW u \in Int, NEW v \in Int,
         NEW n \in Int, NEW a \in Int, NEW b \in Int,
         Congruent(R * x, n * u, q), Congruent(R * y, n * v, q),
         Congruent(u, a + z * b, q), Congruent(v, a - z * b, q)
  PROVE  /\ Congruent(R * (x + y), (2 * n) * a, q)
         /\ Congruent(R * (x - y), (2 * n) * (z * b), q)
<1>1. q \in Nat \ {0} /\ R \in Int
  BY Widths
<1> DEFINE zb == z * b
<1>2. zb \in Int
  OBVIOUS
<1> HIDE DEF zb
<1> DEFINE s1 == a + zb  s2 == a - zb
<1>3. s1 \in Int /\ s2 \in Int /\ Congruent(u, s1, q) /\ Congruent(v, s2, q)
  BY <1>2 DEF zb
<1> HIDE DEF s1, s2
<1>4. Congruent(n * u, n * s1, q) /\ Congruent(n * v, n * s2, q)
  BY <1>1, <1>3, CongruentScale
<1>5. Congruent(R * x, n * s1, q) /\ Congruent(R * y, n * s2, q)
  BY <1>4, CongruentEquivalence
<1> DEFINE X == R * x  Y == R * y  U == n * s1  W == n * s2
<1>6. X \in Int /\ Y \in Int /\ U \in Int /\ W \in Int
  BY <1>1, <1>3
<1>7. R * (x + y) = X + Y /\ R * (x - y) = X - Y
  BY <1>1
<1>8. U + W = (2 * n) * a /\ U - W = (2 * n) * zb
  BY <1>2 DEF s1, s2
<1>9. Congruent(X, U, q) /\ Congruent(Y, W, q)
  BY <1>5
<1> HIDE DEF X, Y, U, W
<1>10. Congruent(X + Y, U + W, q) /\ Congruent(X - Y, U - W, q)
  BY <1>1, <1>6, <1>9, CongruentAdd, CongruentSub
<1> QED
  BY <1>7, <1>8, <1>10 DEF zb

(* An inverse layer takes the values back, doubled, and keeps the bound.   *)
LEMMA InverseStep ==
  ASSUME NEW e \in 1..(LogN - 1), NEW r \in Poly, Within(r, q), NEW c \in [Index -> Int],
         NEW n \in Int, Scaled(r, c, two_to[e], n)
  PROVE  Scaled(invntt_layer[two_to[e]][r], c, 2 * two_to[e], 2 * n)
<1> DEFINE len == two_to[e]  b == 2 * len  x == invntt_layer[len][r]  n2 == 2 * n
<1>0. q \in Nat \ {0} /\ R \in Int /\ n2 \in Int
  BY Widths
<1>1. x \in Poly /\ \A i \in Index : x[i] \in Int /\ r[i] \in Int
  BY InverseValues, PolyIs
<1>2. ASSUME NEW lo \in Index, Lower(lo, len)
      PROVE  /\ Congruent(R * x[lo], n2 * Value(c, b, lo), q)
             /\ Congruent(R * x[lo + len], n2 * Value(c, b, lo + len), q)
  <2> DEFINE up == lo + len  z == Zeta(zeta_index(lo, len))  X == Value(c, b, lo)  Y == Value(c, b, up)
             L == Value(c, len, lo)  U == Value(c, len, up)
  <2>1. up \in Index
    BY <1>2, Butterfly
  <2>2. /\ X \in Int /\ Y \in Int /\ z \in Int /\ L \in Int /\ U \in Int
        /\ Congruent(L, X + z * Y, q) /\ Congruent(U, X - z * Y, q)
    BY <1>2, ValueStep
  <2>3. Congruent(R * r[lo], n * L, q) /\ Congruent(R * r[up], n * U, q)
    BY <2>1 DEF Scaled
  <2>4. /\ Congruent(x[lo], r[lo] + r[up], q)
        /\ \E v \in Int : Congruent(v * z, 1, q) /\ Congruent(x[up], v * (r[lo] - r[up]), q)
    BY <1>2, InverseValues
  <2> HIDE DEF up, z, X, Y, L, U, x, len, b
  <2>5. PICK v \in Int : Congruent(v * z, 1, q) /\ Congruent(x[up], v * (r[lo] - r[up]), q)
    BY <2>4
  <2> DEFINE rl == r[lo]  ru == r[up]  xl == x[lo]  xu == x[up]
  <2>6. rl \in Int /\ ru \in Int /\ xl \in Int /\ xu \in Int
    BY <1>1, <2>1
  <2> HIDE DEF rl, ru, xl, xu
  <2>7. Congruent(R * (rl + ru), n2 * X, q) /\ Congruent(R * (rl - ru), n2 * (z * Y), q)
    BY <2>2, <2>3, <2>6, ScaledSum DEF rl, ru
  <2> HIDE DEF n2
  <2>8. Congruent(R * xl, n2 * X, q)
    <3>1. rl + ru \in Int /\ Congruent(xl, rl + ru, q)
      BY <2>4, <2>6 DEF rl, ru, xl
    <3>2. Congruent(R * xl, R * (rl + ru), q)
      BY <1>0, <2>6, <3>1, CongruentScale
    <3> QED
      BY <2>7, <3>2, CongruentEquivalence
  <2>9. Congruent(R * xu, n2 * Y, q)
    <3> DEFINE d == rl - ru  vd == v * d  Rd == R * d  t == n2 * (z * Y)  vz == v * z  nY == n2 * Y
    <3>1. d \in Int /\ Congruent(xu, v * d, q)
      BY <2>5, <2>6 DEF rl, ru, xu
    <3> HIDE DEF d
    <3>2. vd \in Int /\ Rd \in Int /\ t \in Int /\ vz \in Int /\ nY \in Int /\ v * Rd \in Int /\ v * t \in Int
      BY <1>0, <2>2, <3>1
    <3>3. R * vd = v * Rd
      BY <1>0, <3>1
    <3>4. v * t = vz * nY
      BY <1>0, <2>2
    <3>5. Congruent(Rd, t, q)
      BY <2>7 DEF d
    <3>6. Congruent(vz, 1, q) /\ Congruent(xu, vd, q)
      BY <2>5, <3>1
    <3> HIDE DEF vd, Rd, t, vz, nY
    <3>7. Congruent(R * xu, R * vd, q)
      BY <1>0, <2>6, <3>2, <3>6, CongruentScale
    <3>8. Congruent(v * Rd, v * t, q)
      BY <1>0, <3>2, <3>5, CongruentScale
    <3> DEFINE o == 1
    <3>9. o \in Int /\ Congruent(vz, o, q)
      BY <3>6
    <3> HIDE DEF o
    <3>10. Congruent(vz * nY, o * nY, q)
      BY <1>0, <3>2, <3>9, CongruentScale
    <3>11. o * nY = nY
      BY <3>2 DEF o
    <3>12. Congruent(R * xu, nY, q)
      BY <3>3, <3>4, <3>7, <3>8, <3>10, <3>11, CongruentEquivalence
    <3> QED
      BY <3>12 DEF nY
  <2> QED
    BY <2>8, <2>9 DEF xl, xu, X, Y, up
<1>3. \A i \in Index : Congruent(R * x[i], n2 * Value(c, b, i), q)
  <2> SUFFICES ASSUME NEW i \in Index PROVE Congruent(R * x[i], n2 * Value(c, b, i), q)
    OBVIOUS
  <2>1. CASE Lower(i, len)
    BY <1>2, <2>1
  <2>2. CASE ~Lower(i, len)
    <3> DEFINE lo == i - len
    <3>1. lo \in Index /\ Lower(lo, len) /\ lo + len = i
      BY <2>2, UpperPartner
    <3> HIDE DEF lo, x, b, len, n2
    <3>2. Congruent(R * x[lo + len], n2 * Value(c, b, lo + len), q)
      BY <1>2, <3>1
    <3> QED
      BY <3>1, <3>2
  <2> QED
    BY <2>1, <2>2
<1> QED
  BY <1>3 DEF Scaled

(* invntt returns the polynomial of which it is given the image, divided by*)
LEMMA InverseIs ==
  ASSUME NEW y \in Reduceds, NEW c \in [Index -> Int],
         \A p \in Index : Congruent(R * y[p], Image(c)[p], q)
  PROVE  invntt[y] \in Poly /\ Within(invntt[y], q) /\ Alike(invntt[y], c)
<1> DEFINE n == LogN - 1
           lay == [t \in 1..n |-> [r \in Poly |-> IF Within(r, q) THEN invntt_layer[two_to[t]][r] ELSE r]]
           X == {r \in Poly : Within(r, q)}
           body(f) == [t \in 0..n |-> IF t = 0 THEN y ELSE invntt_layer[two_to[t]][f[t - 1]]]
<1>1. n \in Nat /\ n >= 2 /\ q \in Nat \ {0} /\ R \in Int /\ LogN = n + 1 /\ LogN \in Nat
  BY RingAssumption, Widths
<1>2. y \in X
  BY ReducedType
<1>3. \A t \in 1..n : t \in 1..(LogN - 1)
  BY <1>1
<1>4. \A t \in 1..n : \A r \in X : invntt_layer[two_to[t]][r] \in X
  BY <1>3, InverseValues
<1>5. PICK f : f = body(f)
  <2>1. \A t \in 1..n : \A x \in X : lay[t][x] \in X
    BY <1>4
  <2>2. PICK f : IsStages(f, n, y, lay)
    <3> HIDE DEF lay, n, X
    <3> QED
      BY <1>1, <1>2, <2>1, StageExists
  <2>3. f = [t \in 0..n |-> IF t = 0 THEN y ELSE lay[t][f[t - 1]]]
    BY <2>2 DEF IsStages
  <2> DEFINE S == {u \in Nat : u <= n => f[u] \in X}
  <2>4. 0 \in S
    BY <1>1, <1>2, <2>3
  <2>5. ASSUME NEW u \in Nat, u \in S PROVE u + 1 \in S
    <3> SUFFICES ASSUME u + 1 <= n PROVE f[u + 1] \in X
      OBVIOUS
    <3>1. u + 1 \in 1..n /\ u + 1 \in 0..n /\ u + 1 # 0 /\ (u + 1) - 1 = u /\ u <= n
      BY <1>1
    <3>2. f[u] \in X
      BY <2>5, <3>1
    <3> HIDE DEF lay, n, X
    <3>3. f[u + 1] = lay[u + 1][f[u]]
      BY <2>3, <3>1
    <3> QED
      BY <2>1, <3>1, <3>2, <3>3
  <2>6. Nat \subseteq S
    <3>1. \A u \in Nat : u \in S => u + 1 \in S
      BY <2>5
    <3> HIDE DEF S
    <3> QED
      BY <2>4, <3>1, Induction
  <2>7. \A t \in 0..n : t = 0 \/ (t \in 1..n /\ f[t - 1] \in X)
    <3> SUFFICES ASSUME NEW t \in 0..n, t # 0 PROVE t \in 1..n /\ f[t - 1] \in X
      OBVIOUS
    <3>1. t \in 1..n /\ t - 1 \in Nat /\ t - 1 <= n
      BY <1>1
    <3>2. t - 1 \in S
      BY <2>6, <3>1
    <3> QED
      BY <3>1, <3>2
  <2>8. f = body(f)
    <3>1. \A t \in 0..n : t = 0 \/ lay[t][f[t - 1]] = invntt_layer[two_to[t]][f[t - 1]]
      BY <2>7
    <3> HIDE DEF lay, n, X
    <3> QED
      BY <2>3, <3>1
  <2> QED
    BY <2>8
<1> DEFINE g == CHOOSE h : h = body(h)
<1>6. g = body(g)
  <2> HIDE DEF body
  <2> QED
    BY <1>5
<1>7. invntt[y] = [i \in Index |-> fqmul(g[n][i], last_inv)]
  BY <1>2 DEF invntt
<1> HIDE DEF g
<1>8. g[0] = y /\ \A t \in 1..n : g[t] = invntt_layer[two_to[t]][g[t - 1]]
  <2> HIDE DEF n
  <2>1. 0 \in 0..n /\ \A t \in 1..n : t \in 0..n /\ t # 0
    BY <1>1
  <2> QED
    BY <1>6, <2>1
<1> DEFINE S == {t \in Nat : t <= n => g[t] \in X /\ Scaled(g[t], c, two_to[t + 1], two_to[t])}
<1>9. 0 \in S
  <2>1. two_to[0] = 1 /\ two_to[0 + 1] = 2
    BY TwoTo
  <2>2. Scaled(y, c, 2, 1)
    <3> SUFFICES ASSUME NEW i \in Index PROVE Congruent(R * y[i], 1 * Value(c, 2, i), q)
      BY DEF Scaled
    <3> DEFINE u == Value(c, 2, i)
    <3>1. u = Image(c)[i]
      BY DEF Image
    <3> HIDE DEF u
    <3>2. u \in Int
      BY <3>1, ImageIs
    <3>3. 1 * u = u
      BY <3>2
    <3> QED
      BY <3>1, <3>3 DEF u
  <2> QED
    BY <1>2, <1>8, <2>1, <2>2
<1>10. ASSUME NEW t \in Nat, t \in S PROVE t + 1 \in S
  <2> SUFFICES ASSUME t + 1 <= n
               PROVE  g[t + 1] \in X /\ Scaled(g[t + 1], c, two_to[(t + 1) + 1], two_to[t + 1])
    OBVIOUS
  <2> DEFINE e == t + 1  r == g[t]
  <2>1. e \in 1..n /\ e - 1 = t /\ t <= n /\ e \in 1..(LogN - 1) /\ e \in Nat
    BY <1>1
  <2>2. r \in X /\ Scaled(r, c, two_to[e], two_to[t])
    BY <1>10, <2>1
  <2>3. g[e] = invntt_layer[two_to[e]][r]
    BY <1>8, <2>1
  <2>4. two_to[t] \in Int /\ two_to[e] = 2 * two_to[t] /\ two_to[e + 1] = 2 * two_to[e]
    BY <2>1, TwoTo, TwoType
  <2>5. g[e] \in X
    BY <1>4, <2>1, <2>2, <2>3
  <2>6. r \in Poly /\ Within(r, q)
    BY <2>2
  <2> HIDE DEF e, r, X
  <2>7. Scaled(invntt_layer[two_to[e]][r], c, 2 * two_to[e], 2 * two_to[t])
    BY <2>1, <2>2, <2>4, <2>6, InverseStep
  <2>8. g[e] \in X /\ Scaled(g[e], c, two_to[e + 1], two_to[e])
    BY <2>3, <2>4, <2>5, <2>7
  <2> QED
    BY <2>8 DEF e
<1>11. n \in S
  <2> HIDE DEF S
  <2>1. \A t \in Nat : t \in S => t + 1 \in S
    BY <1>10
  <2>2. Nat \subseteq S
    BY <1>9, <2>1, Induction
  <2> QED
    BY <1>1, <2>2
<1>12. g[n] \in Poly /\ Scaled(g[n], c, N, Pairs)
  <2>1. n <= n
    BY <1>1
  <2>2. two_to[n] = Pairs /\ two_to[n + 1] = N
    BY <1>1, HalfOfN, RingAssumption
  <2>3. g[n] \in Poly /\ Scaled(g[n], c, two_to[n + 1], two_to[n])
    BY <1>11, <2>1
  <2> QED
    BY <2>2, <2>3
<1> DEFINE top == g[n]
<1> HIDE DEF n, S
<1>13. PICK v \in Int : Congruent(last_inv, v * R, q) /\ Congruent(Pairs * v, R, q) /\ last_inv \in 0..(q - 1)
  BY LastInverse
<1>14. ASSUME NEW i \in Index
       PROVE  /\ fqmul(top[i], last_inv) \in (1 - q)..(q - 1)
              /\ Congruent(fqmul(top[i], last_inv), c[i], q)
  <2> DEFINE a == top[i]  b == last_inv  vp == Pairs * v  x == c[i]
  <2>1. a \in int16 /\ a \in Int /\ x \in Int
    BY <1>12, PolyIs DEF Poly
  <2>2. b \in (1 - q)..q /\ Congruent(b, v * R, q) /\ Pairs \in Int /\ vp \in Int /\ Congruent(vp, R, q)
    BY <1>1, <1>13, HalfOfN
  <2>3. Congruent(R * a, Pairs * x, q)
    BY <1>12, ValueBase DEF Scaled
  <2> HIDE DEF a, b, vp, top, x
  <2>4. Congruent(fqmul(a, b), v * a, q)
    BY <2>1, <2>2, FqmulBy
  <2>5. fqmul(a, b) \in (1 - q)..(q - 1)
    BY <2>1, <2>2, Fqmul
  <2> DEFINE va == v * a  Ra == R * a  Px == Pairs * x
  <2>6. va \in Int /\ Ra \in Int /\ Px \in Int /\ v * Ra \in Int /\ v * Px \in Int
    BY <1>1, <2>1, <2>2
  <2>7. R * va = v * Ra
    BY <1>1, <2>1
  <2>8. v * Px = vp * x
    BY <2>1, <2>2 DEF vp
  <2>9. Congruent(Ra, Px, q)
    BY <2>3
  <2> HIDE DEF va, Ra, Px
  <2>10. Congruent(v * Ra, v * Px, q)
    BY <1>1, <2>6, <2>9, CongruentScale
  <2>11. Congruent(vp * x, R * x, q)
    BY <1>1, <2>1, <2>2, CongruentScale
  <2>12. Congruent(R * va, R * x, q)
    BY <2>7, <2>8, <2>10, <2>11, CongruentEquivalence
  <2>13. Congruent(va, x, q)
    BY <2>1, <2>6, <2>12, RadixCancels
  <2>14. Congruent(fqmul(a, b), x, q)
    BY <2>4, <2>13, CongruentEquivalence DEF va
  <2> QED
    BY <2>5, <2>14 DEF a, b, x
<1>15. \A i \in Index : invntt[y][i] = fqmul(top[i], last_inv)
  BY <1>7
<1>16. invntt[y] = [i \in Index |-> fqmul(top[i], last_inv)]
  BY <1>7
<1> HIDE DEF top
<1>17. \A i \in Index : /\ fqmul(top[i], last_inv) \in (-Half)..(Half - 1)
                        /\ -q <= fqmul(top[i], last_inv) /\ fqmul(top[i], last_inv) <= q
  <2>1. 4 * q < Half /\ q \in Nat /\ Half \in Nat
    BY Widths
  <2> QED
    BY <1>14, <2>1
<1>18. invntt[y] \in Poly
  BY <1>16, <1>17, PolyIs
<1> QED
  BY <1>14, <1>15, <1>17, <1>18 DEF Within, Alike

----------------------------------------------------------------------------

(***************************************************************************)
(* Kyber: products through the transforms, and bounds of products.         *)
(***************************************************************************)

(* Products that went through the transforms.                              *)
LEMMA InnerBack ==
  ASSUME NEW x \in Polyvec, NEW y \in [Vec -> Reduceds],
         NEW a \in [Vec -> [Index -> Int]], NEW b \in [Vec -> [Index -> Int]],
         \A k \in Vec : Alike(x[k], Image(a[k])) /\ Alike(y[k], Image(b[k]))
  PROVE  LET z == invntt[polyvec_pointwise_acc[x][y]]
         IN  z \in Poly /\ Within(z, q) /\ Alike(z, inner(a, b))
<1> DEFINE acc == polyvec_pointwise_acc[x][y]
<1>1. acc \in Reduceds /\ \A p \in Index : Congruent(R * acc[p], Sum(PairTerms(x, y, p), Vec), q)
  BY PointwiseAcc
<1>2. x \in [Vec -> [Index -> Int]] /\ y \in [Vec -> [Index -> Int]]
  BY PolyIs, ReducedType DEF Polyvec
<1>3. \A p \in Index : Congruent(Sum(PairTerms(x, y, p), Vec), Image(inner(a, b))[p], q)
  BY <1>2, InnerImage
<1>4. inner(a, b) \in [Index -> Int]
  BY InnerIs
<1> HIDE DEF acc
<1>5. \A p \in Index : Congruent(R * acc[p], Image(inner(a, b))[p], q)
  BY <1>1, <1>3, CongruentEquivalence
<1> DEFINE c == inner(a, b)
<1> HIDE DEF c
<1>6. invntt[acc] \in Poly /\ Within(invntt[acc], q) /\ Alike(invntt[acc], c)
  BY <1>1, <1>4, <1>5, InverseIs DEF c
<1> QED
  BY <1>6 DEF acc, c

(* The product of two polynomials, computed through the transforms.        *)
LEMMA ProductBack ==
  ASSUME NEW x \in Poly, NEW y \in Reduceds, NEW a \in [Index -> Int], NEW b \in [Index -> Int],
         Alike(x, Image(a)), Alike(y, Image(b))
  PROVE  LET z == invntt[poly_reduce[poly_basemul[x][y]]]
         IN  z \in Poly /\ Within(z, q) /\ Alike(z, product(a, b))
<1> DEFINE m1 == poly_basemul[x][y]  m2 == poly_reduce[m1]  c == product(a, b)
<1>1. m1 \in Poly /\ \A p \in Index : Congruent(R * m1[p], PairProduct(x, y, p), q)
  BY Basemul
<1>2. x \in [Index -> Int] /\ y \in [Index -> Int] /\ Image(a) \in [Index -> Int] /\ Image(b) \in [Index -> Int]
  BY PolyIs, ReducedType, ImageType
<1>3. m2 \in Reduceds /\ \A p \in Index : Congruent(m2[p], m1[p], q)
  BY <1>1, PolyReduce
<1>4. c \in [Index -> Int]
  BY ProductIs
<1>5. ASSUME NEW p \in Index
      PROVE  Congruent(R * m2[p], Image(c)[p], q)
  <2>1. Congruent(Image(c)[p], PairProduct(Image(a), Image(b), p), q)
    BY ProductImage
  <2>2. Congruent(PairProduct(x, y, p), PairProduct(Image(a), Image(b), p), q)
    BY <1>2, PairProductBy
  <2> HIDE DEF m1, m2, c
  <2>3. m1[p] \in Int /\ m2[p] \in Int /\ R \in Int /\ q \in Nat \ {0}
    BY <1>1, <1>3, PolyIs, ReducedType, Widths
  <2>4. Congruent(R * m2[p], R * m1[p], q)
    BY <1>3, <2>3, CongruentScale
  <2>5. Congruent(R * m1[p], PairProduct(x, y, p), q)
    BY <1>1
  <2> QED
    BY <2>1, <2>2, <2>4, <2>5, CongruentEquivalence
<1> HIDE DEF m1, m2, c
<1>6. invntt[m2] \in Poly /\ Within(invntt[m2], q) /\ Alike(invntt[m2], c)
  BY <1>3, <1>4, <1>5, InverseIs
<1> QED
  BY <1>6 DEF m1, m2, c

(* What polynomials are transformed to.                                    *)
LEMMA NttImage ==
  ASSUME NEW r \in [Index -> Int], Within(r, q)
  PROVE  poly_ntt[r] \in Reduceds /\ Alike(poly_ntt[r], Image(r)) /\ r \in Poly
  BY PolyNtt, NttIs DEF Alike, Holds, Image

(* A sum is bounded by the sum of the bounds.                              *)
LEMMA SumBound ==
  ASSUME NEW S, IsFiniteSet(S), NEW f, NEW g,
         \A x \in S : f[x] \in Int /\ g[x] \in Int /\ -g[x] <= f[x] /\ f[x] <= g[x]
  PROVE  -Sum(g, S) <= Sum(f, S) /\ Sum(f, S) <= Sum(g, S) /\ Sum(f, S) \in Int /\ Sum(g, S) \in Int
<1> DEFINE Good(T) == -Sum(g, T) <= Sum(f, T) /\ Sum(f, T) <= Sum(g, T)
           X == {T \in SUBSET S : Good(T)}
<1>0. \A T \in SUBSET S : IsFiniteSet(T) /\ Sum(f, T) \in Int /\ Sum(g, T) \in Int
  <2> SUFFICES ASSUME NEW T \in SUBSET S PROVE IsFiniteSet(T) /\ Sum(f, T) \in Int /\ Sum(g, T) \in Int
    OBVIOUS
  <2>1. IsFiniteSet(T)
    BY FS_Subset
  <2>2. (\A x \in T : f[x] \in Int) /\ (\A x \in T : g[x] \in Int)
    OBVIOUS
  <2> QED
    BY <2>1, <2>2, SumStep
<1>1. {} \in X
  <2>1. Sum(f, {}) = 0 /\ Sum(g, {}) = 0
    BY SumStep
  <2> QED
    BY <2>1
<1>2. ASSUME NEW T \in SUBSET S, NEW x \in S, T \in X, x \notin T
      PROVE  T \cup {x} \in X
  <2>1. IsFiniteSet(T)
    BY FS_Subset
  <2>2. (\A y \in T \cup {x} : f[y] \in Int) /\ (\A y \in T \cup {x} : g[y] \in Int)
    OBVIOUS
  <2>3. /\ Sum(f, T \cup {x}) = f[x] + Sum(f, T)
        /\ Sum(g, T \cup {x}) = g[x] + Sum(g, T)
    BY <2>1, <2>2, <1>2, SumAdd
  <2> DEFINE u == Sum(f, T)  v == Sum(g, T)  a == f[x]  b == g[x]
  <2>4. u \in Int /\ v \in Int /\ a \in Int /\ b \in Int /\ -v <= u /\ u <= v /\ -b <= a /\ a <= b
    BY <1>0, <1>2
  <2> HIDE DEF u, v, a, b
  <2>5. -(b + v) <= a + u /\ a + u <= b + v
    BY <2>4
  <2> QED
    BY <2>3, <2>5 DEF u, v, a, b
<1> HIDE DEF X
<1>3. S \in X
  BY <1>1, <1>2, SetInduction
<1> QED
  BY <1>0, <1>3 DEF X

(* Products are linear, modulo q.                                          *)
LEMMA WrappedAt ==
  ASSUME NEW i \in Index, NEW j \in Index
  PROVE  \E k \in Index : \/ \A a, b : Wrapped(a, b, i, j) = a[j] * b[k]
                          \/ \A a, b : Wrapped(a, b, i, j) = -(a[j] * b[k])
<1>1. N \in Nat /\ i \in Nat /\ j \in Nat /\ i < N /\ j < N
  BY IndexFinite DEF Index
<1>2. CASE j <= i
  <2>1. i - j \in Index
    BY <1>1, <1>2 DEF Index
  <2>2. \A a, b : Wrapped(a, b, i, j) = a[j] * b[i - j]
    BY <1>2 DEF Wrapped
  <2> QED
    BY <2>1, <2>2
<1>3. CASE ~(j <= i)
  <2>1. N + (i - j) \in Index
    BY <1>1, <1>3 DEF Index
  <2>2. \A a, b : Wrapped(a, b, i, j) = -(a[j] * b[N + (i - j)])
    BY <1>3 DEF Wrapped
  <2> QED
    BY <2>1, <2>2
<1> QED
  BY <1>2, <1>3

LEMMA WrappedSplit ==
  ASSUME NEW i \in Index, NEW j \in Index, NEW a \in [Index -> Int],
         NEW b \in [Index -> Int], NEW c \in [Index -> Int], NEW d \in [Index -> Int],
         \A k \in Index : Congruent(d[k], b[k] + c[k], q)
  PROVE  Congruent(Wrapped(a, d, i, j), Wrapped(a, b, i, j) + Wrapped(a, c, i, j), q)
<1>1. PICK k \in Index : \/ \A x, y : Wrapped(x, y, i, j) = x[j] * y[k]
                         \/ \A x, y : Wrapped(x, y, i, j) = -(x[j] * y[k])
  BY WrappedAt
<1> DEFINE u == a[j]  v == b[k]  w == c[k]  z == d[k]  s1 == v + w
<1>2. u \in Int /\ v \in Int /\ w \in Int /\ z \in Int /\ s1 \in Int /\ q \in Nat \ {0} /\ Congruent(z, s1, q)
  BY Widths
<1> HIDE DEF u, v, w, z
<1>3. u * z \in Int /\ u * s1 \in Int /\ u * s1 = u * v + u * w /\ u * v \in Int /\ u * w \in Int
  BY <1>2
<1>4. -(u * s1) = -(u * v) + (-(u * w))
  BY <1>3
<1> HIDE DEF s1
<1>5. Congruent(u * z, u * s1, q)
  BY <1>2, CongruentScale
<1>6. Congruent(-(u * z), -(u * s1), q)
  BY <1>2, <1>3, <1>5, CongruentNeg
<1>7. CASE \A x, y : Wrapped(x, y, i, j) = x[j] * y[k]
  <2>1. Wrapped(a, d, i, j) = u * z /\ Wrapped(a, b, i, j) = u * v /\ Wrapped(a, c, i, j) = u * w
    BY <1>7 DEF u, v, w, z
  <2> QED
    BY <1>3, <1>5, <2>1
<1>8. CASE \A x, y : Wrapped(x, y, i, j) = -(x[j] * y[k])
  <2>1. Wrapped(a, d, i, j) = -(u * z) /\ Wrapped(a, b, i, j) = -(u * v) /\ Wrapped(a, c, i, j) = -(u * w)
    BY <1>8 DEF u, v, w, z
  <2> QED
    BY <1>4, <1>6, <2>1
<1> QED
  BY <1>1, <1>7, <1>8

LEMMA ProductSplit ==
  ASSUME NEW a \in [Index -> Int],
         NEW b \in [Index -> Int], NEW c \in [Index -> Int], NEW d \in [Index -> Int],
         \A k \in Index : Congruent(d[k], b[k] + c[k], q), NEW i \in Index
  PROVE  Congruent(product(a, d)[i], product(a, b)[i] + product(a, c)[i], q)
<1> DEFINE f == [j \in Index |-> Wrapped(a, b, i, j)]  g == [j \in Index |-> Wrapped(a, c, i, j)]
           h == [j \in Index |-> Wrapped(a, d, i, j)]  l == [j \in Index |-> f[j] + g[j]]
<1>1. IsFiniteSet(Index) /\ q \in Nat \ {0}
  BY IndexFinite, Widths
<1>2. /\ product(a, b)[i] = Sum(f, Index) /\ product(a, c)[i] = Sum(g, Index) /\ product(a, d)[i] = Sum(h, Index)
      /\ \A j \in Index : f[j] \in Int /\ g[j] \in Int /\ h[j] \in Int
  <2>1. product(a, b)[i] = Sum(f, Index) /\ \A j \in Index : f[j] \in Int
    BY ProductIs
  <2>2. product(a, c)[i] = Sum(g, Index) /\ \A j \in Index : g[j] \in Int
    BY ProductIs
  <2>3. product(a, d)[i] = Sum(h, Index) /\ \A j \in Index : h[j] \in Int
    BY ProductIs
  <2> QED
    BY <2>1, <2>2, <2>3
<1>3. ASSUME NEW j \in Index
      PROVE  Congruent(h[j], l[j], q) /\ l[j] \in Int
  <2>1. Congruent(Wrapped(a, d, i, j), Wrapped(a, b, i, j) + Wrapped(a, c, i, j), q)
    BY WrappedSplit
  <2>2. f[j] \in Int /\ g[j] \in Int
    BY <1>2
  <2> QED
    BY <2>1, <2>2
<1>4. \A j \in Index : l[j] = f[j] + g[j]
  OBVIOUS
<1> HIDE DEF f, g, h, l
<1>5. \A j \in Index : f[j] \in Int /\ g[j] \in Int /\ l[j] = f[j] + g[j]
  BY <1>2, <1>4
<1>6. IsFiniteSet(Index)
  BY <1>1
<1>7. Sum(l, Index) = Sum(f, Index) + Sum(g, Index)
  BY <1>5, <1>6, SumPlus
<1>8. Congruent(Sum(h, Index), Sum(l, Index), q)
  BY <1>1, <1>2, <1>3, SumCongruent
<1> QED
  BY <1>2, <1>7, <1>8

InnerTerms(a, b, i) == [k \in Vec |-> product(a[k], b[k])[i]]

LEMMA InnerSum ==
  ASSUME NEW a \in [Vec -> [Index -> Int]], NEW b \in [Vec -> [Index -> Int]], NEW i \in Index
  PROVE  /\ inner(a, b)[i] = Sum(InnerTerms(a, b, i), Vec) /\ inner(a, b)[i] \in Int
         /\ \A k \in Vec : /\ InnerTerms(a, b, i)[k] = product(a[k], b[k])[i]
                           /\ InnerTerms(a, b, i)[k] \in Int
  BY InnerIs DEF InnerTerms

LEMMA InnerSplit ==
  ASSUME NEW a \in [Vec -> [Index -> Int]],
         NEW b \in [Vec -> [Index -> Int]], NEW c \in [Vec -> [Index -> Int]], NEW d \in [Vec -> [Index -> Int]],
         \A k \in Vec : \A i \in Index : Congruent(d[k][i], b[k][i] + c[k][i], q), NEW i \in Index
  PROVE  Congruent(inner(a, d)[i], inner(a, b)[i] + inner(a, c)[i], q)
<1> DEFINE f == InnerTerms(a, b, i)  g == InnerTerms(a, c, i)
           h == InnerTerms(a, d, i)  l == [k \in Vec |-> f[k] + g[k]]
<1>1. IsFiniteSet(Vec) /\ q \in Nat \ {0}
  BY IndexFinite, Widths
<1>2. /\ inner(a, b)[i] = Sum(f, Vec) /\ inner(a, c)[i] = Sum(g, Vec) /\ inner(a, d)[i] = Sum(h, Vec)
      /\ \A k \in Vec : f[k] \in Int /\ g[k] \in Int /\ h[k] \in Int
  <2>1. inner(a, b)[i] = Sum(f, Vec) /\ \A k \in Vec : f[k] \in Int
    BY InnerSum
  <2>2. inner(a, c)[i] = Sum(g, Vec) /\ \A k \in Vec : g[k] \in Int
    BY InnerSum
  <2>3. inner(a, d)[i] = Sum(h, Vec) /\ \A k \in Vec : h[k] \in Int
    BY InnerSum
  <2> QED
    BY <2>1, <2>2, <2>3
<1>3. \A k \in Vec : Congruent(h[k], l[k], q) /\ l[k] \in Int
  <2> SUFFICES ASSUME NEW k \in Vec PROVE Congruent(h[k], l[k], q) /\ l[k] \in Int
    OBVIOUS
  <2>1. h[k] = product(a[k], d[k])[i] /\ l[k] = product(a[k], b[k])[i] + product(a[k], c[k])[i] /\ l[k] = f[k] + g[k]
    BY DEF InnerTerms
  <2>2. f[k] \in Int /\ g[k] \in Int
    BY <1>2
  <2> DEFINE ak == a[k]  bk == b[k]  ck == c[k]  dk == d[k]
  <2>3. ak \in [Index -> Int] /\ bk \in [Index -> Int] /\ ck \in [Index -> Int] /\ dk \in [Index -> Int]
        /\ \A j \in Index : Congruent(dk[j], bk[j] + ck[j], q)
    OBVIOUS
  <2> HIDE DEF ak, bk, ck, dk, f, g, h, l
  <2>4. Congruent(product(ak, dk)[i], product(ak, bk)[i] + product(ak, ck)[i], q)
    BY <2>3, ProductSplit
  <2> QED
    BY <2>1, <2>2, <2>4 DEF ak, bk, ck, dk
<1>4. \A k \in Vec : l[k] = f[k] + g[k]
  OBVIOUS
<1> HIDE DEF f, g, h, l
<1>5. \A k \in Vec : f[k] \in Int /\ g[k] \in Int /\ l[k] = f[k] + g[k]
  BY <1>2, <1>4
<1>6. IsFiniteSet(Vec)
  BY <1>1
<1>7. Sum(l, Vec) = Sum(f, Vec) + Sum(g, Vec)
  BY <1>5, <1>6, SumPlus
<1>8. Congruent(Sum(h, Vec), Sum(l, Vec), q)
  BY <1>1, <1>2, <1>3, SumCongruent
<1> QED
  BY <1>2, <1>7, <1>8

(* Noise is small, and its coefficients are integers.                      *)
LEMMA CentredSmall ==
  ASSUME NEW x \in Nat
  PROVE  centred(x) \in (-2)..2
<1> DEFINE b(i) == (x \div two_to[i]) % 2
<1>1. \A i \in Nat : b(i) \in 0..1
  BY BitIsBit DEF bit
<1>2. b(0) \in 0..1 /\ b(1) \in 0..1 /\ b(2) \in 0..1 /\ b(3) \in 0..1
  BY <1>1
<1>3. centred(x) = b(0) + b(1) - (b(2) + b(3))
  BY DEF centred
<1> HIDE DEF b
<1> QED
  BY <1>2, <1>3

(* cbd returns small coefficients.                                         *)
LEMMA Noisy ==
  ASSUME NEW seed, NoiseSeed(seed), NEW n \in 0..(2 * K)
  PROVE  poly_getnoise(seed, n) \in [Index -> Int] /\ Within(poly_getnoise(seed, n), q) /\ poly_getnoise(seed, n) \in Poly
<1> DEFINE buf == prf(seed, n)
           nib(i) == IF i % 2 = 0 THEN buf[i \div 2] % 16 ELSE (buf[i \div 2] \div 16) % 16
<1>1. buf \in [0..(Pairs - 1) -> 0..255]
  BY DEF NoiseSeed, Pairs
<1>2. ASSUME NEW i \in Index
      PROVE  nib(i) \in Nat
  <2>1. i \div 2 \in 0..(Pairs - 1)
    <3>1. N = 2 * Pairs /\ Pairs \in Nat /\ i \in Nat /\ i < N
      BY HalfOfN, IndexFinite DEF Index
    <3> QED
      BY <3>1
  <2>2. buf[i \div 2] \in Nat
    <3> DEFINE y == i \div 2
    <3>1. y \in 0..(Pairs - 1)
      BY <2>1
    <3> HIDE DEF y, buf
    <3>2. buf[y] \in 0..255
      BY <1>1, <3>1
    <3> QED
      BY <3>2 DEF y
  <2> DEFINE x == buf[i \div 2]
  <2> HIDE DEF x
  <2>3. x % 16 \in Nat /\ (x \div 16) % 16 \in Nat
    BY <2>2 DEF x
  <2> QED
    BY <2>3 DEF x
<1>3. poly_getnoise(seed, n) = [i \in Index |-> centred(nib(i))]
  BY DEF poly_getnoise, cbd
<1> HIDE DEF nib
<1>4. \A i \in Index : centred(nib(i)) \in (-2)..2
  BY <1>2, CentredSmall
<1>5. \A i \in Index : centred(nib(i)) \in Int /\ -q <= centred(nib(i)) /\ centred(nib(i)) <= q
                       /\ centred(nib(i)) \in (-Half)..(Half - 1)
  <2>1. q \in Nat /\ q > 2 /\ Half \in Nat /\ 4 * q < Half
    BY Widths, ModulusAssumption
  <2> QED
    BY <1>4, <2>1
<1> QED
  BY <1>3, <1>5, PolyIs DEF Within

(* Every nonce is in the range of NoiseSeed.                               *)
LEMMA NonceRange ==
  /\ 2 * K \in 0..(2 * K)
  /\ \A k \in Vec : k \in 0..(2 * K) /\ K + k \in 0..(2 * K)
  BY RingAssumption DEF Vec

(* Bounds of products with a vector of small polynomials.                  *)
LEMMA RoundingType ==
  ASSUME NEW d \in Nat \ {0}
  PROVE  Rounding(d) \in Nat
<1>1. two_to[d] \in Nat \ {0} /\ two_to[d + 1] \in Nat \ {0} /\ q + two_to[d] \in Nat
  BY TwoType, Widths
<1> QED
  BY <1>1, QuotientNat DEF Rounding

LEMMA AbsProduct ==
  ASSUME NEW u \in Int, NEW v \in Int, NEW B \in Nat, -B <= v, v <= B
  PROVE  /\ -(B * size(u)) <= u * v /\ u * v <= B * size(u)
         /\ -(B * size(u)) <= -(u * v) /\ -(u * v) <= B * size(u)
         /\ B * size(u) \in Int /\ u * v \in Int
<1>1. CASE u >= 0
  <2>1. size(u) = u
    BY <1>1 DEF size
  <2>2. u * (B - v) >= 0 /\ u * (B + v) >= 0
    <3>1. B - v \in Nat /\ B + v \in Nat /\ u \in Nat
      BY <1>1
    <3> QED
      BY <3>1
  <2>3. u * (B - v) = B * u - u * v /\ u * (B + v) = B * u + u * v
    OBVIOUS
  <2> DEFINE x == B * u  y == u * v
  <2>4. x \in Int /\ y \in Int
    OBVIOUS
  <2> HIDE DEF x, y
  <2>5. x - y >= 0 /\ x + y >= 0
    BY <2>2, <2>3 DEF x, y
  <2>6. -x <= y /\ y <= x /\ -x <= -y /\ -y <= x
    BY <2>4, <2>5
  <2> QED
    BY <2>1, <2>4, <2>6 DEF x, y
<1>2. CASE u < 0
  <2> DEFINE w == -u
  <2>1. size(u) = w /\ w \in Nat
    BY <1>2 DEF size
  <2>2. u * v = -(w * v)
    OBVIOUS
  <2> HIDE DEF w
  <2>3. w * (B - v) >= 0 /\ w * (B + v) >= 0
    <3>1. B - v \in Nat /\ B + v \in Nat
      OBVIOUS
    <3> QED
      BY <2>1, <3>1
  <2>4. w * (B - v) = B * w - w * v /\ w * (B + v) = B * w + w * v
    BY <2>1
  <2> DEFINE x == B * w  y == w * v
  <2>5. x \in Int /\ y \in Int
    BY <2>1
  <2> HIDE DEF x, y
  <2>6. x - y >= 0 /\ x + y >= 0
    BY <2>3, <2>4 DEF x, y
  <2>7. -x <= y /\ y <= x /\ -x <= -y /\ -y <= x /\ -(-y) = y /\ -y \in Int
    BY <2>5, <2>6
  <2> QED
    BY <2>1, <2>2, <2>5, <2>7 DEF x, y
<1> QED
  BY <1>1, <1>2

Sizes(a) == [i \in Index |-> size(a[i])]

LEMMA ProductBound ==
  ASSUME NEW a \in [Index -> Int], NEW b \in [Index -> Int], NEW B \in Nat, Within(b, B), NEW i \in Index
  PROVE  LET w == SumFunction(Sizes(a))
             y == product(a, b)[i]
         IN  w \in Int /\ y \in Int /\ -(B * w) <= y /\ y <= B * w
<1> DEFINE f == [j \in Index |-> Wrapped(a, b, i, j)]  s1 == Sizes(a)  g == [j \in Index |-> B * s1[j]]
<1>1. IsFiniteSet(Index)
  BY IndexFinite
<1>2. product(a, b)[i] = Sum(f, Index)
  BY ProductIs
<1>3. \A j \in Index : s1[j] = size(a[j]) /\ s1[j] \in Int
  BY Size DEF Sizes
<1>4. DOMAIN s1 = Index
  BY DEF Sizes
<1> HIDE DEF s1
<1>5. \A j \in Index : f[j] \in Int /\ g[j] \in Int /\ -g[j] <= f[j] /\ f[j] <= g[j]
  <2> SUFFICES ASSUME NEW j \in Index PROVE f[j] \in Int /\ g[j] \in Int /\ -g[j] <= f[j] /\ f[j] <= g[j]
    OBVIOUS
  <2>1. PICK k \in Index : \/ \A x, y : Wrapped(x, y, i, j) = x[j] * y[k]
                           \/ \A x, y : Wrapped(x, y, i, j) = -(x[j] * y[k])
    BY WrappedAt
  <2> DEFINE u == a[j]  v == b[k]
  <2>2. u \in Int /\ v \in Int /\ -B <= v /\ v <= B
    BY DEF Within
  <2>3. f[j] = u * v \/ f[j] = -(u * v)
    BY <2>1
  <2>4. g[j] = B * size(u)
    BY <1>3
  <2> HIDE DEF f, g, u, v
  <2>5. /\ -(B * size(u)) <= u * v /\ u * v <= B * size(u)
        /\ -(B * size(u)) <= -(u * v) /\ -(u * v) <= B * size(u)
        /\ B * size(u) \in Int /\ u * v \in Int
    BY <2>2, AbsProduct
  <2>6. -(u * v) \in Int
    BY <2>5
  <2> QED
    BY <2>3, <2>4, <2>5, <2>6
<1>6. \A j \in Index : s1[j] \in Int /\ g[j] = B * s1[j]
  BY <1>3
<1> HIDE DEF f, g
<1>7. -Sum(g, Index) <= Sum(f, Index) /\ Sum(f, Index) <= Sum(g, Index) /\ Sum(f, Index) \in Int
  BY <1>1, <1>5, SumBound
<1>8. Sum(g, Index) = B * Sum(s1, Index)
  BY <1>1, <1>6, SumScaled
<1>9. SumFunction(s1) = Sum(s1, Index)
  BY <1>4, SumOver
<1>10. Sum(s1, Index) \in Int
  BY <1>1, <1>3, SumStep
<1> QED
  BY <1>2, <1>7, <1>8, <1>9, <1>10 DEF s1

LEMMA InnerBound ==
  ASSUME NEW a \in [Vec -> [Index -> Int]], NEW b \in [Vec -> [Index -> Int]], NEW B \in Nat,
         \A k \in Vec : Within(b[k], B), NEW i \in Index
  PROVE  LET y == inner(a, b)[i]
         IN  Weight(a) \in Int /\ y \in Int /\ -(B * Weight(a)) <= y /\ y <= B * Weight(a)
<1> DEFINE f == InnerTerms(a, b, i)  w == [k \in Vec |-> SumFunction(Sizes(a[k]))]
           g == [k \in Vec |-> B * w[k]]
<1>1. IsFiniteSet(Vec)
  BY IndexFinite
<1>2. inner(a, b)[i] = Sum(f, Vec)
  BY InnerSum
<1>3. Weight(a) = SumFunction(w) /\ DOMAIN w = Vec
  BY DEF Weight, Sizes
<1>4. \A k \in Vec : w[k] \in Int /\ g[k] = B * w[k] /\ f[k] \in Int /\ -g[k] <= f[k] /\ f[k] <= g[k]
  <2> SUFFICES ASSUME NEW k \in Vec
               PROVE  w[k] \in Int /\ g[k] = B * w[k] /\ f[k] \in Int /\ -g[k] <= f[k] /\ f[k] <= g[k]
    OBVIOUS
  <2> DEFINE ak == a[k]  bk == b[k]  wk == SumFunction(Sizes(ak))
  <2>1. ak \in [Index -> Int] /\ bk \in [Index -> Int] /\ Within(bk, B)
    OBVIOUS
  <2>2. w[k] = wk /\ g[k] = B * wk /\ g[k] = B * w[k]
    OBVIOUS
  <2>3. f[k] = product(ak, bk)[i]
    BY InnerSum
  <2> HIDE DEF ak, bk, f, g, w
  <2>4. wk \in Int /\ product(ak, bk)[i] \in Int /\ -(B * wk) <= product(ak, bk)[i] /\ product(ak, bk)[i] <= B * wk
    BY <2>1, ProductBound
  <2> QED
    BY <2>2, <2>3, <2>4
<1> HIDE DEF f, g, w
<1>5. \A k \in Vec : f[k] \in Int /\ g[k] \in Int /\ -g[k] <= f[k] /\ f[k] <= g[k]
  <2> SUFFICES ASSUME NEW k \in Vec PROVE f[k] \in Int /\ g[k] \in Int /\ -g[k] <= f[k] /\ f[k] <= g[k]
    OBVIOUS
  <2>1. w[k] \in Int /\ g[k] = B * w[k]
    BY <1>4
  <2>2. B * w[k] \in Int
    BY <2>1
  <2> QED
    BY <1>4, <2>1, <2>2
<1>6. \A k \in Vec : w[k] \in Int /\ g[k] = B * w[k]
  BY <1>4
<1>7. -Sum(g, Vec) <= Sum(f, Vec) /\ Sum(f, Vec) <= Sum(g, Vec) /\ Sum(f, Vec) \in Int
  BY <1>1, <1>5, SumBound
<1>8. Sum(g, Vec) = B * Sum(w, Vec)
  BY <1>1, <1>6, SumScaled
<1>9. SumFunction(w) = Sum(w, Vec)
  BY <1>3, SumOver
<1>10. Sum(w, Vec) \in Int
  BY <1>1, <1>4, SumStep
<1> QED
  BY <1>2, <1>3, <1>7, <1>8, <1>9, <1>10

----------------------------------------------------------------------------

(***************************************************************************)
(* Kyber: the secret key and decryption.                                   *)
(***************************************************************************)

SecretVector(d) == polyvec_frombytes(indcpa_keypair(d).sk)

(* The secret and the error are vectors of small polynomials.              *)
LEMMA SecretType ==
  ASSUME NEW d \in Draws
  PROVE  /\ secret(d) \in Polyvec /\ secret(d) \in [Vec -> [Index -> Int]]
         /\ error(d) \in Polyvec /\ error(d) \in [Vec -> [Index -> Int]]
         /\ \A k \in Vec : Within(secret(d)[k], q) /\ Within(error(d)[k], q)
<1>1. NoiseSeed(hash_g(d)[2])
  BY DrawsAssumption
<1>2. \A k \in Vec : /\ poly_getnoise(hash_g(d)[2], k) \in [Index -> Int]
                     /\ Within(poly_getnoise(hash_g(d)[2], k), q)
                     /\ poly_getnoise(hash_g(d)[2], k) \in Poly
                     /\ poly_getnoise(hash_g(d)[2], K + k) \in [Index -> Int]
                     /\ Within(poly_getnoise(hash_g(d)[2], K + k), q)
                     /\ poly_getnoise(hash_g(d)[2], K + k) \in Poly
  BY <1>1, NonceRange, Noisy
<1> QED
  BY <1>2 DEF secret, error, Polyvec

(* The secret key, read back from its bytes, is the transformed secret.    *)
LEMMA SecretKey ==
  ASSUME NEW d \in Draws
  PROVE  /\ SecretVector(d) \in [Vec -> Reduceds] /\ SecretVector(d) \in Polyvec
         /\ \A k \in Vec : Alike(SecretVector(d)[k], Image(secret(d)[k]))
<1> DEFINE s1 == secret(d)  t == polyvec_ntt[s1]
<1>1. s1 \in Polyvec /\ \A k \in Vec : s1[k] \in [Index -> Int] /\ Within(s1[k], q)
  BY SecretType
<1>2. indcpa_keypair(d).sk = polyvec_tobytes(t)
  BY DEF indcpa_keypair, secret
<1> HIDE DEF s1
<1>3. t = [k \in Vec |-> poly_ntt[s1[k]]]
  BY <1>1 DEF polyvec_ntt
<1>4. \A k \in Vec : t[k] \in Reduceds /\ Alike(t[k], Image(s1[k]))
  BY <1>1, <1>3, NttImage
<1> HIDE DEF t
<1>5. \A k \in Vec : SecretVector(d)[k] = poly_frombytes(poly_tobytes(t[k]))
  BY <1>2 DEF SecretVector, polyvec_frombytes, polyvec_tobytes
<1>6. ASSUME NEW k \in Vec
      PROVE  SecretVector(d)[k] \in Reduceds /\ Alike(SecretVector(d)[k], Image(s1[k]))
  <2> DEFINE a == t[k]  b == poly_frombytes(poly_tobytes(a))
  <2>1. a \in [Index -> 0..q] /\ Alike(a, Image(s1[k])) /\ SecretVector(d)[k] = b
    BY <1>4, <1>5 DEF Reduceds
  <2> HIDE DEF a
  <2>2. b \in [Index -> 0..q] /\ \A i \in Index : Congruent(b[i], a[i], q)
    BY <2>1, KeyBack
  <2> HIDE DEF b
  <2>3. Alike(b, Image(s1[k]))
    BY <2>1, <2>2, CongruentEquivalence DEF Alike
  <2> QED
    BY <2>1, <2>2, <2>3 DEF Reduceds
<1>7. SecretVector(d) \in [Vec -> Reduceds]
  <2>1. SecretVector(d) = [k \in Vec |-> SecretVector(d)[k]]
    BY DEF SecretVector, polyvec_frombytes
  <2> QED
    BY <1>6, <2>1
<1>8. SecretVector(d) \in Polyvec
  BY <1>7, ReducedType DEF Polyvec
<1> QED
  BY <1>6, <1>7, <1>8 DEF s1

(* What comes back from a packed ciphertext.                               *)
Rounded(y, a, d) == \A i \in Index : a[i] \in 0..q =>
                      \E f \in (-Rounding(d))..Rounding(d) : f \in Int /\ Congruent(y[i], a[i] + f, q)

LEMMA Unpacked ==
  ASSUME NEW x, x.b \in [Vec -> [Index -> Int]], x.v \in [Index -> Int]
  PROVE  LET y == unpack_ciphertext(pack_ciphertext(x))
         IN  /\ y.v \in Reduceds /\ Rounded(y.v, x.v, DV)
             /\ y.b \in [Vec -> Reduceds] /\ \A k \in Vec : Rounded(y.b[k], x.b[k], DU)
<1> DEFINE y == unpack_ciphertext(pack_ciphertext(x))
<1>1. y.v = poly_decompress(poly_compress(x.v, DV), DV)
  BY DEF unpack_ciphertext, pack_ciphertext
<1>2. y.b = [k \in Vec |-> poly_decompress(poly_compress(x.b[k], DU), DU)]
  BY DEF unpack_ciphertext, pack_ciphertext, polyvec_decompress, polyvec_compress
<1> HIDE DEF y
<1>3. DU \in Nat \ {0} /\ DV \in Nat \ {0} /\ two_to[DU] <= R /\ two_to[DV] <= R
  BY RingAssumption
<1>4. ASSUME NEW d \in Nat \ {0}, two_to[d] <= R, NEW a \in [Index -> Int]
      PROVE  /\ poly_decompress(poly_compress(a, d), d) \in Reduceds
             /\ Rounded(poly_decompress(poly_compress(a, d), d), a, d)
  BY <1>4, CompressedBack DEF Reduceds, Rounded
<1>5. y.v \in Reduceds /\ Rounded(y.v, x.v, DV)
  BY <1>1, <1>3, <1>4
<1>6. ASSUME NEW k \in Vec
      PROVE  y.b[k] \in Reduceds /\ Rounded(y.b[k], x.b[k], DU)
  BY <1>2, <1>3, <1>4
<1>7. y.b \in [Vec -> Reduceds]
  <2>1. y.b = [k \in Vec |-> y.b[k]]
    BY <1>2
  <2> QED
    BY <1>6, <2>1
<1> QED
  BY <1>5, <1>6, <1>7 DEF y

(* Decryption takes the product with the secret off.                       *)
LEMMA Decryption ==
  ASSUME NEW d \in Draws, NEW c, NEW x, x = unpack_ciphertext(c),
         x.b \in [Vec -> Reduceds], x.v \in Reduceds
  PROVE  \E a \in Reduceds :
           /\ indcpa_dec(c, indcpa_keypair(d).sk) = poly_tomsg(a)
           /\ \A i \in Index : Congruent(a[i], x.v[i] - inner(secret(d), x.b)[i], q)
<1> DEFINE xb == x.b  xv == x.v  u == polyvec_ntt[xb]
           mp == invntt[polyvec_pointwise_acc[SecretVector(d)][u]]
           df == poly_sub[xv][mp]
           a == poly_reduce[df]
<1>1. indcpa_dec(c, indcpa_keypair(d).sk) = poly_tomsg(a)
  BY DEF indcpa_dec, SecretVector
<1>2. xb \in [Vec -> Reduceds] /\ xv \in Reduceds
  OBVIOUS
<1> HIDE DEF xb, xv
<1>3. xb \in Polyvec /\ xb \in [Vec -> [Index -> Int]] /\ \A k \in Vec : xb[k] \in [Index -> Int] /\ Within(xb[k], q)
  BY <1>2, ReducedType DEF Polyvec
<1>4. u = [k \in Vec |-> poly_ntt[xb[k]]]
  BY <1>3 DEF polyvec_ntt
<1>5. \A k \in Vec : u[k] \in Reduceds /\ Alike(u[k], Image(xb[k]))
  BY <1>3, <1>4, NttImage
<1>6. u \in [Vec -> Reduceds]
  BY <1>4, <1>5
<1> HIDE DEF u
<1>7. /\ SecretVector(d) \in Polyvec /\ secret(d) \in [Vec -> [Index -> Int]]
      /\ \A k \in Vec : Alike(SecretVector(d)[k], Image(secret(d)[k])) /\ Alike(u[k], Image(xb[k]))
  BY <1>5, SecretKey, SecretType
<1> DEFINE sv == SecretVector(d)  sd == secret(d)
<1> HIDE DEF sv, sd
<1>8. mp \in Poly /\ Within(mp, q) /\ Alike(mp, inner(sd, xb))
  <2>1. mp = invntt[polyvec_pointwise_acc[sv][u]]
    BY DEF sv
  <2>2. sv \in Polyvec /\ sd \in [Vec -> [Index -> Int]] /\ \A k \in Vec : Alike(sv[k], Image(sd[k])) /\ Alike(u[k], Image(xb[k]))
    BY <1>7 DEF sv, sd
  <2> HIDE DEF mp
  <2> QED
    BY <1>3, <1>6, <2>1, <2>2, InnerBack
<1> HIDE DEF mp
<1>9. xv \in Poly /\ Within(xv, q) /\ \A i \in Index : xv[i] \in Int
  BY <1>2, ReducedType
<1>10. df \in Poly /\ \A i \in Index : df[i] = xv[i] - mp[i]
  <2>1. q + q < Half /\ q \in Nat
    BY Widths
  <2> QED
    BY <1>8, <1>9, <2>1, PolyAdd
<1> HIDE DEF df
<1>11. a \in Reduceds /\ \A i \in Index : Congruent(a[i], df[i], q)
  BY <1>10, PolyReduce
<1> HIDE DEF a
<1>12. ASSUME NEW i \in Index
       PROVE  Congruent(a[i], xv[i] - inner(sd, xb)[i], q)
  <2> DEFINE y == xv[i]  z == mp[i]  w == inner(sd, xb)[i]
  <2>1. y \in Int /\ z \in Int /\ w \in Int /\ q \in Nat \ {0}
    <3>1. w \in Int
      BY <1>3, <1>7, InnerSum DEF sd
    <3> QED
      BY <1>8, <1>9, <3>1, PolyIs, Widths
  <2>2. Congruent(z, w, q) /\ Congruent(y, y, q)
    BY <1>8, CongruentEquivalence DEF Alike
  <2>3. Congruent(a[i], y - z, q)
    BY <1>10, <1>11
  <2> HIDE DEF y, z, w
  <2>4. Congruent(y - z, y - w, q)
    BY <2>1, <2>2, CongruentSub
  <2>5. Congruent(a[i], y - w, q)
    BY <2>3, <2>4, CongruentEquivalence
  <2> QED
    BY <2>5 DEF y, w
<1> QED
  BY <1>1, <1>11, <1>12 DEF xv, xb, sd

----------------------------------------------------------------------------

(***************************************************************************)
(* Kyber: polynomials modulo q and X^N + 1 are a commutative ring.         *)
(***************************************************************************)

(* Every value is taken: a layer can be undone.                            *)
LEMMA HalfInverse ==
  ASSUME NEW z \in Int, NEW v \in Int, Congruent(v * z, 1, q), NEW a \in Int, NEW b \in Int
  PROVE  \E x \in Int, y \in Int : Congruent(x + z * y, a, q) /\ Congruent(x - z * y, b, q)
<1> DEFINE h == q \div 2 + 1  d == h * (a - b)  x == h * (a + b)  y == v * d  vz == v * z  o == 1
<1>1. q \in Nat \ {0} /\ h \in Int /\ 2 * h = q + 1
  BY HalfModulus, Widths
<1> HIDE DEF h
<1>2. x \in Int /\ d \in Int
  BY <1>1
<1>3. x + d = a + q * a /\ x - d = b + q * b
  <2> DEFINE ha == h * a  hb == h * b
  <2>1. ha \in Int /\ hb \in Int /\ x = ha + hb /\ d = ha - hb
    BY <1>1
  <2>2. 2 * ha = (q + 1) * a /\ 2 * hb = (q + 1) * b
    BY <1>1
  <2>3. (q + 1) * a = a + q * a /\ (q + 1) * b = b + q * b /\ q * a \in Int /\ q * b \in Int
    BY <1>1
  <2> HIDE DEF ha, hb, x, d
  <2> QED
    BY <2>1, <2>2, <2>3
<1> HIDE DEF x, d
<1>4. Congruent(x + d, a, q) /\ Congruent(x - d, b, q)
  <2>1. x + d \in Int /\ x - d \in Int
    BY <1>2
  <2> QED
    BY <1>1, <1>3, <2>1, CongruentBy
<1>5. y \in Int /\ vz \in Int /\ o \in Int /\ Congruent(vz, o, q) /\ z * y = vz * d
  BY <1>2
<1> HIDE DEF y, vz, o
<1>6. Congruent(vz * d, o * d, q)
  BY <1>1, <1>2, <1>5, CongruentScale
<1>7. o * d = d
  BY <1>2 DEF o
<1> DEFINE zy == z * y
<1>8. zy \in Int /\ Congruent(zy, d, q)
  BY <1>5, <1>6, <1>7
<1> HIDE DEF zy
<1>9. Congruent(x, x, q)
  BY CongruentEquivalence
<1>10. Congruent(x + zy, x + d, q) /\ Congruent(x - zy, x - d, q)
  BY <1>1, <1>2, <1>8, <1>9, CongruentAdd, CongruentSub
<1>11. Congruent(x + zy, a, q) /\ Congruent(x - zy, b, q)
  BY <1>4, <1>10, CongruentEquivalence
<1> QED
  BY <1>2, <1>5, <1>11 DEF zy

(* A layer can be undone.                                                  *)
LEMMA LayerOnto ==
  ASSUME NEW e \in 1..(LogN - 1), NEW y \in [Index -> Int]
  PROVE  \E x \in [Index -> Int] : \A lo \in Index : Lower(lo, two_to[e]) =>
           LET up == lo + two_to[e]  z == Zeta(zeta_index(lo, two_to[e])) IN
           Congruent(x[lo] + z * x[up], y[lo], q) /\ Congruent(x[lo] - z * x[up], y[up], q)
<1> DEFINE len == two_to[e]
           Fits(lo, c, d) == LET up == lo + len  z == Zeta(zeta_index(lo, len)) IN
                             Congruent(c + z * d, y[lo], q) /\ Congruent(c - z * d, y[up], q)
<1>1. \A lo \in Index : Lower(lo, len) => \E c \in Int, d \in Int : Fits(lo, c, d)
  <2> SUFFICES ASSUME NEW lo \in Index, Lower(lo, len) PROVE \E c \in Int, d \in Int : Fits(lo, c, d)
    OBVIOUS
  <2> DEFINE up == lo + len  k == zeta_index(lo, len)  z == Zeta(k)
  <2>1. up \in Index /\ k \in 1..(Pairs - 1)
    BY Butterfly
  <2>2. z \in Int /\ y[lo] \in Int /\ y[up] \in Int
    BY <2>1, ZetaSquare
  <2>3. \E v \in Int : Congruent(v * z, 1, q)
    BY <2>1, ZetaInverse
  <2> HIDE DEF up, z
  <2>4. \E c \in Int, d \in Int : Congruent(c + z * d, y[lo], q) /\ Congruent(c - z * d, y[up], q)
    BY <2>2, <2>3, HalfInverse
  <2> QED
    BY <2>4 DEF up, z
<1> DEFINE P(lo) == CHOOSE w \in Int \X Int : Fits(lo, w[1], w[2])
           x == [i \in Index |-> IF Lower(i, len) THEN P(i)[1] ELSE P(i - len)[2]]
<1>2. ASSUME NEW lo \in Index, Lower(lo, len)
      PROVE  P(lo)[1] \in Int /\ P(lo)[2] \in Int /\ Fits(lo, P(lo)[1], P(lo)[2])
  <2>1. PICK c \in Int, d \in Int : Fits(lo, c, d)
    BY <1>1, <1>2
  <2> DEFINE w == <<c, d>>
  <2>2. w \in Int \X Int /\ w[1] = c /\ w[2] = d
    OBVIOUS
  <2> HIDE DEF w
  <2>3. Fits(lo, w[1], w[2])
    BY <2>1, <2>2
  <2> HIDE DEF Fits
  <2>4. P(lo) \in Int \X Int /\ Fits(lo, P(lo)[1], P(lo)[2])
    BY <2>2, <2>3
  <2> QED
    BY <2>4
<1>3. \A i \in Index : ~Lower(i, len) => i - len \in Index /\ Lower(i - len, len)
  BY UpperPartner
<1>4. \A lo \in Index : Lower(lo, len) => lo + len \in Index /\ ~Lower(lo + len, len) /\ (lo + len) - len = lo
  BY Butterfly
<1> HIDE DEF P, Fits, len
<1>5. x \in [Index -> Int]
  BY <1>2, <1>3
<1>6. ASSUME NEW lo \in Index, Lower(lo, len) PROVE Fits(lo, x[lo], x[lo + len])
  <2> DEFINE up == lo + len
  <2>1. up \in Index /\ ~Lower(up, len) /\ up - len = lo
    BY <1>4, <1>6
  <2> HIDE DEF up
  <2>2. x[lo] = P(lo)[1] /\ x[up] = P(lo)[2]
    BY <1>6, <2>1
  <2>3. Fits(lo, P(lo)[1], P(lo)[2])
    BY <1>2, <1>6
  <2> HIDE DEF x
  <2>4. Fits(lo, x[lo], x[up])
    BY <2>2, <2>3
  <2> QED
    BY <2>4 DEF up
<1> HIDE DEF x
<1> QED
  BY <1>5, <1>6 DEF Fits, len

(* Every vector of values is the image of a polynomial.                    *)
LEMMA ValuesOnto ==
  ASSUME NEW y \in [Index -> Int]
  PROVE  \E c \in [Index -> Int] : Alike(y, Image(c))
<1> DEFINE Onto(b) == \A r \in [Index -> Int] : \E c \in [Index -> Int] : Holds(r, c, b)
           S == {t \in Nat : t < LogN => Onto(two_to[LogN - t])}
<1>1. LogN \in Nat /\ LogN >= 3 /\ two_to[LogN] = N /\ q \in Nat \ {0}
  BY RingAssumption, Widths
<1>2. 0 \in S
  <2>1. LogN - 0 = LogN
    BY <1>1
  <2>2. \A r \in [Index -> Int] : Holds(r, r, N)
    <3>1. \A x : Congruent(x, x, q)
      BY CongruentEquivalence
    <3> QED
      BY <3>1, ValueBase DEF Holds
  <2> QED
    BY <1>1, <2>1, <2>2
<1>3. ASSUME NEW t \in Nat, t \in S PROVE t + 1 \in S
  <2> SUFFICES ASSUME t + 1 < LogN, NEW r \in [Index -> Int]
               PROVE  \E c \in [Index -> Int] : Holds(r, c, two_to[LogN - (t + 1)])
    OBVIOUS
  <2> DEFINE e == LogN - (t + 1)  len == two_to[e]
  <2>1. e \in 1..(LogN - 1) /\ e + 1 = LogN - t /\ t < LogN
    BY <1>1
  <2>2. two_to[LogN - t] = 2 * len
    BY <2>1, LayerSizes
  <2>3. PICK x \in [Index -> Int] : \A lo \in Index : Lower(lo, len) =>
           LET up == lo + len  z == Zeta(zeta_index(lo, len)) IN
           Congruent(x[lo] + z * x[up], r[lo], q) /\ Congruent(x[lo] - z * x[up], r[up], q)
    BY <2>1, LayerOnto
  <2>4. PICK c \in [Index -> Int] : Holds(x, c, 2 * len)
    BY <1>3, <2>1, <2>2
  <2>5. ASSUME NEW lo \in Index, Lower(lo, len)
        PROVE  Congruent(r[lo], Value(c, len, lo), q) /\ Congruent(r[lo + len], Value(c, len, lo + len), q)
    <3> DEFINE up == lo + len  z == Zeta(zeta_index(lo, len))
               vx == Value(c, 2 * len, lo)  vy == Value(c, 2 * len, up)
               wx == Value(c, len, lo)  wy == Value(c, len, up)
    <3>1. up \in Index
      BY <2>1, <2>5, Butterfly
    <3>2. /\ vx \in Int /\ vy \in Int /\ z \in Int
          /\ Congruent(wx, vx + z * vy, q)
          /\ Congruent(wy, vx - z * vy, q)
      BY <2>1, <2>5, ValueStep
    <3>3. Congruent(x[lo] + z * x[up], r[lo], q) /\ Congruent(x[lo] - z * x[up], r[up], q)
      BY <2>3, <2>5
    <3>4. Congruent(x[lo], vx, q) /\ Congruent(x[up], vy, q) /\ x[lo] \in Int /\ x[up] \in Int
      BY <2>4, <3>1 DEF Holds
    <3> HIDE DEF up, z, vx, vy, wx, wy, len, e
    <3> DEFINE xl == x[lo]  xu == x[up]  zx == z * xu  zy == z * vy
    <3>5. zx \in Int /\ zy \in Int /\ xl \in Int
      BY <3>2, <3>4
    <3>6. Congruent(zx, zy, q)
      BY <1>1, <3>2, <3>4, CongruentScale
    <3>7. Congruent(xl, vx, q)
      BY <3>4
    <3> HIDE DEF zx, zy, xl
    <3>8. Congruent(xl + zx, vx + zy, q) /\ Congruent(xl - zx, vx - zy, q)
      BY <1>1, <3>2, <3>5, <3>6, <3>7, CongruentAdd, CongruentSub
    <3>9. /\ Congruent(xl + zx, r[lo], q) /\ Congruent(xl - zx, r[up], q)
          /\ Congruent(wx, vx + zy, q) /\ Congruent(wy, vx - zy, q)
      BY <3>2, <3>3 DEF xl, zx, zy
    <3>10. Congruent(r[lo], wx, q) /\ Congruent(r[up], wy, q)
      BY <3>8, <3>9, CongruentEquivalence
    <3> QED
      BY <3>10 DEF wx, wy, up
  <2>6. ASSUME NEW i \in Index PROVE Congruent(r[i], Value(c, len, i), q)
    <3>1. CASE Lower(i, len)
      BY <2>5, <3>1
    <3>2. CASE ~Lower(i, len)
      <4> DEFINE lo == i - len
      <4>1. lo \in Index /\ Lower(lo, len) /\ lo + len = i
        BY <2>1, <3>2, UpperPartner
      <4> HIDE DEF lo, len
      <4>2. Congruent(r[lo + len], Value(c, len, lo + len), q)
        BY <2>5, <4>1
      <4> QED
        BY <4>1, <4>2
    <3> QED
      BY <3>1, <3>2
  <2> QED
    BY <2>6 DEF Holds
<1>4. Nat \subseteq S
  <2>1. \A t \in Nat : t \in S => t + 1 \in S
    BY <1>3
  <2> HIDE DEF S
  <2> QED
    BY <1>2, <2>1, Induction
<1>5. LogN - 1 \in Nat /\ LogN - (LogN - 1) = 1 /\ LogN - 1 < LogN
  BY <1>1
<1>6. Onto(two_to[1])
  <2>1. LogN - 1 \in S
    BY <1>4, <1>5
  <2> HIDE DEF Onto
  <2> QED
    BY <1>5, <2>1
<1>7. two_to[1] = 2
  BY TwoTo
<1>8. PICK c \in [Index -> Int] : Holds(y, c, 2)
  BY <1>6, <1>7
<1> QED
  BY <1>8 DEF Holds, Alike, Image

(* A polynomial is determined by its values.                               *)
LEMMA Injective ==
  ASSUME NEW u \in [Index -> Int], NEW v \in [Index -> Int], Alike(Image(u), Image(v))
  PROVE  Alike(u, v)
<1>1. PICK z \in Int : Congruent(R * z, 1, q)
  BY RadixInverse
<1> DEFINE y == [p \in Index |-> (z * Image(u)[p]) % q]
<1>2. q \in Nat \ {0} /\ R \in Int /\ Image(u) \in [Index -> Int]
  BY Widths, ImageType
<1>3. ASSUME NEW p \in Index
      PROVE  y[p] \in 0..q /\ Congruent(R * y[p], Image(u)[p], q)
  <2> DEFINE x == Image(u)[p]  zx == z * x  e == zx % q  Rz == R * z  o == 1
  <2>1. x \in Int /\ y[p] = e /\ zx \in Int /\ Rz \in Int /\ o \in Int /\ Congruent(Rz, o, q)
    BY <1>1, <1>2
  <2>2. R * zx = Rz * x /\ o * x = x
    BY <1>2, <2>1
  <2> HIDE DEF x, zx, Rz, o, y
  <2>3. e \in 0..(q - 1) /\ Congruent(e, zx, q)
    BY <1>2, <2>1, CongruentResidue
  <2> HIDE DEF e
  <2>7. e \in Int
    BY <1>2, <2>3
  <2>4. Congruent(R * e, R * zx, q)
    BY <1>2, <2>1, <2>3, <2>7, CongruentScale
  <2>5. Congruent(Rz * x, o * x, q)
    BY <1>2, <2>1, CongruentScale
  <2>6. Congruent(R * e, x, q)
    BY <2>2, <2>4, <2>5, CongruentEquivalence
  <2> QED
    BY <1>2, <2>1, <2>3, <2>6 DEF x
<1>4. y \in Reduceds
  BY <1>3 DEF Reduceds
<1> HIDE DEF y
<1>5. \A p \in Index : Congruent(R * y[p], Image(v)[p], q)
  BY <1>3, CongruentEquivalence DEF Alike
<1>6. Alike(invntt[y], u)
  BY <1>3, <1>4, InverseIs
<1>7. Alike(invntt[y], v)
  BY <1>4, <1>5, InverseIs
<1> QED
  BY <1>6, <1>7, CongruentEquivalence DEF Alike

(* Pairs multiply as the elements of a commutative ring.                   *)
PairProducts(x, y) == [p \in Index |-> PairProduct(x, y, p)]

LEMMA PairCommutes ==
  ASSUME NEW x \in [Index -> Int], NEW y \in [Index -> Int], NEW p \in Index
  PROVE  PairProduct(x, y, p) = PairProduct(y, x, p)
<1>1. CASE p % 2 = 0
  <2> DEFINE a == x[p]  b == x[p + 1]  c == y[p]  d == y[p + 1]  w == PairNode(p)
  <2>1. p + 1 \in Index
    BY <1>1, PairPlaces
  <2>2. a \in Int /\ b \in Int /\ c \in Int /\ d \in Int
    BY <2>1
  <2>3. PairProduct(x, y, p) = a * c + w * (b * d) /\ PairProduct(y, x, p) = c * a + w * (d * b)
    BY <1>1 DEF PairProduct
  <2> HIDE DEF a, b, c, d, w
  <2>4. a * c = c * a /\ b * d = d * b
    BY <2>2
  <2> QED
    BY <2>3, <2>4
<1>2. CASE p % 2 # 0
  <2> DEFINE a == x[p]  b == x[p - 1]  c == y[p]  d == y[p - 1]
  <2>1. p - 1 \in Index
    BY <1>2, PairPlaces
  <2>2. a \in Int /\ b \in Int /\ c \in Int /\ d \in Int
    BY <2>1
  <2>3. PairProduct(x, y, p) = b * c + a * d /\ PairProduct(y, x, p) = d * a + c * b
    BY <1>2 DEF PairProduct
  <2> HIDE DEF a, b, c, d
  <2>4. b * c = c * b /\ a * d = d * a /\ b * c \in Int /\ a * d \in Int
    BY <2>2
  <2> DEFINE u == b * c  v == a * d
  <2>5. PairProduct(x, y, p) = u + v /\ PairProduct(y, x, p) = v + u /\ u \in Int /\ v \in Int
    BY <2>3, <2>4
  <2> HIDE DEF u, v
  <2> QED
    BY <2>5
<1> QED
  BY <1>1, <1>2

LEMMA QuadraticRing ==
  ASSUME NEW w \in Int, NEW a \in Int, NEW b \in Int, NEW c \in Int, NEW d \in Int, NEW e \in Int, NEW f \in Int
  PROVE  /\ (a * c + w * (b * d)) * e + w * ((a * d + b * c) * f)
              = a * (c * e + w * (d * f)) + w * (b * (c * f + d * e))
         /\ (a * c + w * (b * d)) * f + (a * d + b * c) * e
              = a * (c * f + d * e) + b * (c * e + w * (d * f))
  OBVIOUS

LEMMA PairAssociates ==
  ASSUME NEW x \in [Index -> Int], NEW y \in [Index -> Int], NEW z \in [Index -> Int], NEW p \in Index
  PROVE  PairProduct(PairProducts(x, y), z, p) = PairProduct(x, PairProducts(y, z), p)
<1>0. \A i \in Index : PairProducts(x, y)[i] = PairProduct(x, y, i) /\ PairProducts(y, z)[i] = PairProduct(y, z, i)
  BY DEF PairProducts
<1>1. CASE p % 2 = 0
  <2> DEFINE r == p + 1  w == PairNode(p)
             a == x[p]  b == x[r]  c == y[p]  d == y[r]  e == z[p]  f == z[r]
  <2>1. r \in Index /\ r % 2 = 1 /\ r - 1 = p /\ p \in Nat
    <3>1. p + 1 \in Index /\ (p + 1) % 2 = 1 /\ p \in Nat
      BY <1>1, PairPlaces
    <3> QED
      BY <3>1
  <2>2. a \in Int /\ b \in Int /\ c \in Int /\ d \in Int /\ e \in Int /\ f \in Int /\ w \in Int
    BY <2>1, PairPower
  <2>3. \A u, v : /\ PairProduct(u, v, p) = u[p] * v[p] + w * (u[r] * v[r])
                  /\ PairProduct(u, v, r) = u[p] * v[r] + u[r] * v[p]
    BY <1>1, <2>1 DEF PairProduct
  <2> HIDE DEF r, w
  <2>4. /\ PairProducts(x, y)[p] = a * c + w * (b * d) /\ PairProducts(x, y)[r] = a * d + b * c
        /\ PairProducts(y, z)[p] = c * e + w * (d * f) /\ PairProducts(y, z)[r] = c * f + d * e
    BY <1>0, <2>1, <2>3
  <2>5. PairProduct(PairProducts(x, y), z, p) = (a * c + w * (b * d)) * e + w * ((a * d + b * c) * f)
    BY <2>3, <2>4
  <2>6. PairProduct(x, PairProducts(y, z), p) = a * (c * e + w * (d * f)) + w * (b * (c * f + d * e))
    BY <2>3, <2>4
  <2> HIDE DEF a, b, c, d, e, f
  <2> QED
    BY <2>2, <2>5, <2>6, QuadraticRing
<1>2. CASE p % 2 # 0
  <2> DEFINE r == p - 1  w == PairNode(r)
             a == x[r]  b == x[p]  c == y[r]  d == y[p]  e == z[r]  f == z[p]
  <2>1. r \in Index /\ r % 2 = 0 /\ r + 1 = p /\ p \in Nat
    <3>1. p - 1 \in Index /\ (p - 1) % 2 = 0 /\ p \in Nat
      BY <1>2, PairPlaces
    <3> QED
      BY <3>1
  <2>2. a \in Int /\ b \in Int /\ c \in Int /\ d \in Int /\ e \in Int /\ f \in Int /\ w \in Int
    BY <2>1, PairPower
  <2>3. \A u, v : /\ PairProduct(u, v, r) = u[r] * v[r] + w * (u[p] * v[p])
                  /\ PairProduct(u, v, p) = u[r] * v[p] + u[p] * v[r]
    BY <1>2, <2>1 DEF PairProduct
  <2> HIDE DEF r, w
  <2>4. /\ PairProducts(x, y)[r] = a * c + w * (b * d) /\ PairProducts(x, y)[p] = a * d + b * c
        /\ PairProducts(y, z)[r] = c * e + w * (d * f) /\ PairProducts(y, z)[p] = c * f + d * e
    BY <1>0, <2>1, <2>3
  <2>5. PairProduct(PairProducts(x, y), z, p) = (a * c + w * (b * d)) * f + (a * d + b * c) * e
    BY <2>3, <2>4
  <2>6. PairProduct(x, PairProducts(y, z), p) = a * (c * f + d * e) + b * (c * e + w * (d * f))
    BY <2>3, <2>4
  <2> HIDE DEF a, b, c, d, e, f
  <2> QED
    BY <2>2, <2>5, <2>6, QuadraticRing
<1> QED
  BY <1>1, <1>2

(* So do polynomials modulo q.                                             *)
LEMMA ProductImages ==
  ASSUME NEW a \in [Index -> Int], NEW b \in [Index -> Int],
         NEW x \in [Index -> Int], NEW y \in [Index -> Int], Alike(Image(a), x), Alike(Image(b), y)
  PROVE  PairProducts(x, y) \in [Index -> Int] /\ Alike(Image(product(a, b)), PairProducts(x, y))
<1>1. Image(a) \in [Index -> Int] /\ Image(b) \in [Index -> Int]
  BY ImageType
<1>2. ASSUME NEW p \in Index
      PROVE  /\ PairProduct(x, y, p) \in Int /\ PairProducts(x, y)[p] = PairProduct(x, y, p)
             /\ Congruent(Image(product(a, b))[p], PairProduct(x, y, p), q)
  <2>1. Congruent(PairProduct(Image(a), Image(b), p), PairProduct(x, y, p), q)
    BY <1>1, PairProductBy
  <2>2. Congruent(Image(product(a, b))[p], PairProduct(Image(a), Image(b), p), q)
    BY ProductImage
  <2>3. PairProduct(x, y, p) \in Int
    BY PairProductType
  <2> QED
    BY <2>1, <2>2, <2>3, CongruentEquivalence DEF PairProducts
<1>3. PairProducts(x, y) \in [Index -> Int]
  BY <1>2 DEF PairProducts
<1> QED
  BY <1>2, <1>3 DEF Alike

(* Congruence of polynomials is an equivalence.                            *)
LEMMA AlikeEquivalence ==
  ASSUME NEW x, NEW y, NEW z
  PROVE  /\ Alike(x, x)
         /\ Alike(x, y) => Alike(y, x)
         /\ Alike(x, y) /\ Alike(y, z) => Alike(x, z)
  BY CongruentEquivalence DEF Alike

(* Products of polynomials commute.                                        *)
LEMMA ProductCommutes ==
  ASSUME NEW a \in [Index -> Int], NEW b \in [Index -> Int]
  PROVE  Alike(product(a, b), product(b, a))
<1> DEFINE x == Image(a)  y == Image(b)
<1>1. x \in [Index -> Int] /\ y \in [Index -> Int] /\ Alike(x, x) /\ Alike(y, y)
  BY ImageType, AlikeEquivalence
<1>2. Alike(Image(product(a, b)), PairProducts(x, y)) /\ Alike(Image(product(b, a)), PairProducts(y, x))
  BY <1>1, ProductImages
<1> HIDE DEF x, y
<1>3. PairProducts(x, y) = PairProducts(y, x)
  BY <1>1, PairCommutes DEF PairProducts
<1>4. product(a, b) \in [Index -> Int] /\ product(b, a) \in [Index -> Int]
  BY ProductIs
<1>5. Alike(Image(product(a, b)), Image(product(b, a)))
  BY <1>2, <1>3, AlikeEquivalence
<1> QED
  BY <1>4, <1>5, Injective

(* They associate.                                                         *)
LEMMA ProductAssociates ==
  ASSUME NEW a \in [Index -> Int], NEW b \in [Index -> Int], NEW c \in [Index -> Int]
  PROVE  Alike(product(product(a, b), c), product(a, product(b, c)))
<1> DEFINE x == Image(a)  y == Image(b)  z == Image(c)  ab == product(a, b)  bc == product(b, c)
           xy == PairProducts(x, y)  yz == PairProducts(y, z)
<1>1. x \in [Index -> Int] /\ y \in [Index -> Int] /\ z \in [Index -> Int]
      /\ Alike(x, x) /\ Alike(y, y) /\ Alike(z, z)
  BY ImageType, AlikeEquivalence
<1>2. ab \in [Index -> Int] /\ bc \in [Index -> Int]
  BY ProductIs
<1>3. xy \in [Index -> Int] /\ Alike(Image(ab), xy) /\ yz \in [Index -> Int] /\ Alike(Image(bc), yz)
  BY <1>1, ProductImages
<1> HIDE DEF ab, bc, xy, yz
<1>4. Alike(Image(product(ab, c)), PairProducts(xy, z)) /\ Alike(Image(product(a, bc)), PairProducts(x, yz))
  BY <1>1, <1>2, <1>3, ProductImages
<1> HIDE DEF x, y, z
<1>5. PairProducts(xy, z) = PairProducts(x, yz)
  <2>1. \A p \in Index : PairProduct(xy, z, p) = PairProduct(x, yz, p)
    BY <1>1, PairAssociates DEF xy, yz
  <2> QED
    BY <2>1 DEF PairProducts
<1>6. product(ab, c) \in [Index -> Int] /\ product(a, bc) \in [Index -> Int]
  BY <1>2, ProductIs
<1>7. Alike(Image(product(ab, c)), Image(product(a, bc)))
  BY <1>4, <1>5, AlikeEquivalence
<1>8. Alike(product(ab, c), product(a, bc))
  BY <1>6, <1>7, Injective
<1> QED
  BY <1>8 DEF ab, bc

LEMMA ProductBy ==
  ASSUME NEW a \in [Index -> Int], NEW b \in [Index -> Int], NEW c \in [Index -> Int], Alike(b, c)
  PROVE  Alike(product(a, b), product(a, c))
<1> DEFINE x == Image(a)  y == Image(c)
<1>1. x \in [Index -> Int] /\ y \in [Index -> Int] /\ Alike(x, x) /\ Alike(y, y)
  BY ImageType, AlikeEquivalence
<1>2. Alike(Image(b), y)
  BY ImageBy DEF Alike
<1>3. Alike(Image(product(a, b)), PairProducts(x, y)) /\ Alike(Image(product(a, c)), PairProducts(x, y))
  BY <1>1, <1>2, ProductImages
<1> HIDE DEF x, y
<1>4. Alike(Image(product(a, b)), Image(product(a, c)))
  BY <1>3, AlikeEquivalence
<1>5. product(a, b) \in [Index -> Int] /\ product(a, c) \in [Index -> Int]
  BY ProductIs
<1> QED
  BY <1>4, <1>5, Injective

(* The outer factors may be exchanged.                                     *)
LEMMA ProductExchange ==
  ASSUME NEW a \in [Index -> Int], NEW b \in [Index -> Int], NEW c \in [Index -> Int]
  PROVE  Alike(product(a, product(b, c)), product(c, product(b, a)))
<1> DEFINE bc == product(b, c)  ba == product(b, a)  ca == product(c, a)  ac == product(a, c)
<1>1. bc \in [Index -> Int] /\ ba \in [Index -> Int] /\ ca \in [Index -> Int] /\ ac \in [Index -> Int]
  BY ProductIs
<1>2. Alike(product(bc, a), product(b, ca)) /\ Alike(product(ba, c), product(b, ac))
  BY ProductAssociates
<1>3. Alike(ca, ac)
  BY ProductCommutes
<1> HIDE DEF bc, ba, ca, ac
<1>4. Alike(product(a, bc), product(bc, a)) /\ Alike(product(c, ba), product(ba, c))
  BY <1>1, ProductCommutes
<1>5. Alike(product(b, ca), product(b, ac))
  BY <1>1, <1>3, ProductBy
<1>6. Alike(product(a, bc), product(c, ba))
  BY <1>2, <1>4, <1>5, AlikeEquivalence
<1> QED
  BY <1>6 DEF bc, ba

(* A product with a sum of polynomials.                                    *)
ProductColumn(a, c, i) == [k \in Vec |-> product(a, c[k])[i]]

LEMMA ProductOfSum ==
  ASSUME NEW a \in [Index -> Int], NEW c \in [Vec -> [Index -> Int]], NEW d \in [Index -> Int],
         \A i \in Index : d[i] = Sum(Column(c, i, Vec), Vec), NEW i \in Index
  PROVE  product(a, d)[i] = Sum(ProductColumn(a, c, i), Vec)
<1> DEFINE F == [j \in Index |-> [k \in Vec |-> Wrapped(a, c[k], i, j)]]
           f == [j \in Index |-> Wrapped(a, d, i, j)]
           t == [j \in Index |-> Sum(F[j], Vec)]
           u == [k \in Vec |-> Sum([j \in Index |-> F[j][k]], Index)]
<1>1. IsFiniteSet(Index) /\ IsFiniteSet(Vec)
  BY IndexFinite
<1>2. ASSUME NEW k \in Vec
      PROVE  /\ \A j \in Index : Wrapped(a, c[k], i, j) \in Int
             /\ product(a, c[k])[i] = Sum([j \in Index |-> Wrapped(a, c[k], i, j)], Index)
  <2> DEFINE b == c[k]
  <2>1. b \in [Index -> Int]
    OBVIOUS
  <2> HIDE DEF b
  <2>2. /\ \A j \in Index : Wrapped(a, b, i, j) \in Int
        /\ product(a, b)[i] = Sum([j \in Index |-> Wrapped(a, b, i, j)], Index)
    BY <2>1, ProductIs
  <2> QED
    BY <2>2 DEF b
<1>3. F \in [Index -> [Vec -> Int]]
  BY <1>2
<1>4. product(a, d)[i] = Sum(f, Index)
  BY ProductIs
<1>5. ASSUME NEW j \in Index
      PROVE  f[j] = t[j] /\ t[j] \in Int
  <2>1. PICK m1 \in Index : \/ \A x, y : Wrapped(x, y, i, j) = x[j] * y[m1]
                            \/ \A x, y : Wrapped(x, y, i, j) = -(x[j] * y[m1])
    BY WrappedAt
  <2> DEFINE aj == a[j]  n == -aj  dm == d[m1]  g == Column(c, m1, Vec)  v == F[j]
  <2>2. aj \in Int /\ n \in Int /\ dm \in Int /\ dm = Sum(g, Vec)
    <3>1. a[j] \in Int
      OBVIOUS
    <3> QED
      BY <3>1
  <2>3. \A k \in Vec : g[k] = c[k][m1] /\ g[k] \in Int /\ v[k] = Wrapped(a, c[k], i, j) /\ v[k] \in Int
    BY <1>2 DEF Column
  <2>4. t[j] = Sum(v, Vec) /\ f[j] = Wrapped(a, d, i, j)
    OBVIOUS
  <2>5. IsFiniteSet(Vec)
    BY <1>1
  <2>6. CASE \A x, y : Wrapped(x, y, i, j) = x[j] * y[m1]
    <3>1. f[j] = aj * dm /\ \A k \in Vec : g[k] \in Int /\ v[k] = aj * g[k]
      BY <2>3, <2>4, <2>6
    <3> HIDE DEF aj, dm, g, v, f, t, n
    <3>2. Sum(v, Vec) = aj * Sum(g, Vec)
      BY <2>2, <2>5, <3>1, SumScaled
    <3>3. aj * dm \in Int
      BY <2>2
    <3> QED
      BY <2>2, <2>4, <3>1, <3>2, <3>3
  <2>7. CASE \A x, y : Wrapped(x, y, i, j) = -(x[j] * y[m1])
    <3>1. f[j] = -(aj * dm) /\ \A k \in Vec : g[k] \in Int /\ v[k] = -(aj * g[k])
      BY <2>3, <2>4, <2>7
    <3> HIDE DEF dm, g, v, f, t
    <3>2. \A k \in Vec : g[k] \in Int /\ v[k] = n * g[k]
      <4> SUFFICES ASSUME NEW k \in Vec PROVE g[k] \in Int /\ v[k] = n * g[k]
        OBVIOUS
      <4> DEFINE e == g[k]
      <4>1. e \in Int /\ v[k] = -(aj * e)
        BY <3>1
      <4> HIDE DEF e
      <4>2. n * e = -(aj * e)
        BY <2>2, <4>1
      <4> QED
        BY <4>1, <4>2 DEF e
    <3>4. f[j] = n * dm
      BY <2>2, <3>1
    <3> HIDE DEF n, aj
    <3>5. Sum(v, Vec) = n * Sum(g, Vec)
      BY <2>2, <2>5, <3>2, SumScaled
    <3>6. n * dm \in Int
      BY <2>2
    <3> QED
      BY <2>2, <2>4, <3>4, <3>5, <3>6
  <2> QED
    BY <2>1, <2>6, <2>7
<1>6. \A k \in Vec : u[k] = product(a, c[k])[i]
  <2> SUFFICES ASSUME NEW k \in Vec PROVE u[k] = product(a, c[k])[i]
    OBVIOUS
  <2>1. [j \in Index |-> F[j][k]] = [j \in Index |-> Wrapped(a, c[k], i, j)]
    OBVIOUS
  <2>2. u[k] = Sum([j \in Index |-> Wrapped(a, c[k], i, j)], Index)
    BY <2>1
  <2> QED
    BY <1>2, <2>2
<1>7. u = ProductColumn(a, c, i)
  BY <1>6 DEF ProductColumn
<1>8. f = t
  BY <1>5
<1> HIDE DEF F
<1>9. Sum(t, Index) = Sum(u, Vec)
  BY <1>1, <1>3, SumExchange
<1> QED
  BY <1>4, <1>7, <1>8, <1>9

(* The vector of the inner products with the rows of a matrix, and its     *)
(* transpose.                                                              *)
Applied(C, s1) == [k \in Vec |-> inner(C[k], s1)]
Transpose(C) == [k \in Vec |-> [j \in Vec |-> C[j][k]]]
Row(r, C, s1, k, i) == [j \in Vec |-> product(r[k], product(C[k][j], s1[j]))[i]]

LEMMA AppliedRow ==
  ASSUME NEW C \in [Vec -> [Vec -> [Index -> Int]]],
         NEW s1 \in [Vec -> [Index -> Int]], NEW r \in [Vec -> [Index -> Int]], NEW i \in Index, NEW k \in Vec
  PROVE  /\ Applied(C, s1) \in [Vec -> [Index -> Int]]
         /\ \A j \in Vec : Row(r, C, s1, k, i)[j] \in Int
         /\ product(r[k], Applied(C, s1)[k])[i] = Sum(Row(r, C, s1, k, i), Vec)
<1>1. \A t \in Vec : inner(C[t], s1) \in [Index -> Int]
  <2> SUFFICES ASSUME NEW t \in Vec PROVE inner(C[t], s1) \in [Index -> Int]
    OBVIOUS
  <2> DEFINE a == C[t]
  <2>1. a \in [Vec -> [Index -> Int]]
    OBVIOUS
  <2> HIDE DEF a
  <2>2. inner(a, s1) \in [Index -> Int]
    BY <2>1, InnerIs
  <2> QED
    BY <2>2 DEF a
<1>2. Applied(C, s1) \in [Vec -> [Index -> Int]]
  BY <1>1 DEF Applied
<1> DEFINE a == C[k]  c == [j \in Vec |-> product(a[j], s1[j])]  d == inner(a, s1)  rk == r[k]
<1>3. a \in [Vec -> [Index -> Int]] /\ rk \in [Index -> Int]
  OBVIOUS
<1>4. c \in [Vec -> [Index -> Int]] /\ d \in [Index -> Int]
  <2> HIDE DEF a
  <2> QED
    BY <1>3, InnerIs
<1>5. \A t \in Index : d[t] = Sum(Column(c, t, Vec), Vec)
  <2> SUFFICES ASSUME NEW t \in Index PROVE d[t] = Sum(Column(c, t, Vec), Vec)
    OBVIOUS
  <2>1. Column(c, t, Vec) = [j \in Vec |-> product(a[j], s1[j])[t]]
    BY DEF Column
  <2> HIDE DEF a
  <2>2. d[t] = Sum([j \in Vec |-> product(a[j], s1[j])[t]], Vec)
    BY <1>3, InnerIs
  <2> HIDE DEF d, c
  <2> QED
    BY <2>1, <2>2
<1>6. Applied(C, s1)[k] = d
  BY DEF Applied
<1>7. \A j \in Vec : c[j] = product(C[k][j], s1[j])
  OBVIOUS
<1> HIDE DEF a, c, d, rk
<1>8. product(rk, d)[i] = Sum(ProductColumn(rk, c, i), Vec)
  BY <1>3, <1>4, <1>5, ProductOfSum
<1>9. ProductColumn(rk, c, i) = Row(r, C, s1, k, i)
  BY <1>7 DEF ProductColumn, Row, rk
<1>10. \A j \in Vec : product(rk, c[j])[i] \in Int
  <2> SUFFICES ASSUME NEW j \in Vec PROVE product(rk, c[j])[i] \in Int
    OBVIOUS
  <2> DEFINE cj == c[j]
  <2>1. cj \in [Index -> Int]
    BY <1>4
  <2> HIDE DEF cj
  <2>2. product(rk, cj) \in [Index -> Int]
    BY <1>3, <2>1, ProductIs
  <2> QED
    BY <2>2 DEF cj
<1>11. \A j \in Vec : Row(r, C, s1, k, i)[j] \in Int
  BY <1>7, <1>10 DEF Row, rk
<1> QED
  BY <1>2, <1>6, <1>8, <1>9, <1>11 DEF rk

LEMMA AppliedRows ==
  \A C \in [Vec -> [Vec -> [Index -> Int]]] : \A s1, r \in [Vec -> [Index -> Int]] : \A i \in Index : \A k \in Vec :
    /\ \A j \in Vec : Row(r, C, s1, k, i)[j] \in Int
    /\ product(r[k], Applied(C, s1)[k])[i] = Sum(Row(r, C, s1, k, i), Vec)
  BY AppliedRow

LEMMA TransposeRow ==
  ASSUME NEW C \in [Vec -> [Vec -> [Index -> Int]]],
         NEW s1 \in [Vec -> [Index -> Int]], NEW r \in [Vec -> [Index -> Int]],
         NEW i \in Index, NEW k \in Vec, NEW j \in Vec
  PROVE  Congruent(Row(r, C, s1, k, i)[j], Row(s1, Transpose(C), r, j, i)[k], q)
<1> DEFINE a == r[k]  b == C[k][j]  c == s1[j]
<1>1. a \in [Index -> Int] /\ b \in [Index -> Int] /\ c \in [Index -> Int]
  OBVIOUS
<1>2. Row(r, C, s1, k, i)[j] = product(a, product(b, c))[i] /\ Row(s1, Transpose(C), r, j, i)[k] = product(c, product(b, a))[i]
  BY DEF Row, Transpose
<1> HIDE DEF a, b, c
<1>3. Alike(product(a, product(b, c)), product(c, product(b, a)))
  BY <1>1, ProductExchange
<1> QED
  BY <1>2, <1>3 DEF Alike

LEMMA InnerCommutes ==
  ASSUME NEW a \in [Vec -> [Index -> Int]], NEW b \in [Vec -> [Index -> Int]]
  PROVE  Alike(inner(a, b), inner(b, a))
<1> SUFFICES ASSUME NEW i \in Index PROVE Congruent(inner(a, b)[i], inner(b, a)[i], q)
  BY DEF Alike
<1> DEFINE f == InnerTerms(a, b, i)  g == InnerTerms(b, a, i)
<1>1. inner(a, b)[i] = Sum(f, Vec) /\ \A k \in Vec : f[k] \in Int /\ f[k] = product(a[k], b[k])[i]
  BY InnerSum
<1>2. inner(b, a)[i] = Sum(g, Vec) /\ \A k \in Vec : g[k] \in Int /\ g[k] = product(b[k], a[k])[i]
  BY InnerSum
<1> HIDE DEF f, g
<1>3. ASSUME NEW k \in Vec PROVE f[k] \in Int /\ g[k] \in Int /\ Congruent(f[k], g[k], q)
  <2> DEFINE x == a[k]  y == b[k]
  <2>1. x \in [Index -> Int] /\ y \in [Index -> Int]
    OBVIOUS
  <2> HIDE DEF x, y
  <2>2. Congruent(product(x, y)[i], product(y, x)[i], q)
    BY <2>1, ProductCommutes DEF Alike
  <2> QED
    BY <1>1, <1>2, <2>2 DEF x, y
<1>4. IsFiniteSet(Vec) /\ q \in Nat \ {0}
  BY IndexFinite, Widths
<1>5. Congruent(Sum(f, Vec), Sum(g, Vec), q)
  BY <1>3, <1>4, SumCongruent
<1> QED
  BY <1>1, <1>2, <1>5

(* The identity decryption rests on.                                       *)
LEMMA Transposition ==
  ASSUME NEW C \in [Vec -> [Vec -> [Index -> Int]]],
         NEW s1 \in [Vec -> [Index -> Int]], NEW r \in [Vec -> [Index -> Int]]
  PROVE  Alike(inner(Applied(C, s1), r), inner(s1, Applied(Transpose(C), r)))
<1> DEFINE D == Transpose(C)  x == Applied(C, s1)  y == Applied(D, r)
<1>1. D \in [Vec -> [Vec -> [Index -> Int]]]
  BY DEF Transpose
<1>2. 0 \in Vec /\ 0 \in Index /\ IsFiniteSet(Vec) /\ q \in Nat \ {0}
  BY IndexFinite, Widths
<1>3. x \in [Vec -> [Index -> Int]]
  BY <1>2, AppliedRow
<1>4. y \in [Vec -> [Index -> Int]]
  <2> HIDE DEF D
  <2> QED
    BY <1>1, <1>2, AppliedRow
<1> SUFFICES ASSUME NEW i \in Index PROVE Congruent(inner(x, r)[i], inner(s1, y)[i], q)
  BY DEF Alike
<1> DEFINE F == [k \in Vec |-> Row(r, C, s1, k, i)]
           G == [j \in Vec |-> Row(s1, D, r, j, i)]
           f == InnerTerms(r, x, i)  g == InnerTerms(s1, y, i)
           cols == [j \in Vec |-> Sum([k \in Vec |-> F[k][j]], Vec)]
<1>5. \A k \in Vec : /\ \A j \in Vec : F[k][j] \in Int
                     /\ f[k] = Sum(F[k], Vec)
  BY AppliedRow DEF InnerTerms
<1>6. \A j \in Vec : /\ \A k \in Vec : G[j][k] \in Int
                     /\ g[j] = Sum(G[j], Vec) /\ g[j] \in Int
  <2>1. \A j \in Vec : g[j] = product(s1[j], y[j])[i] /\ g[j] \in Int
    BY <1>4, InnerSum
  <2> HIDE DEF D, g
  <2>2. ASSUME NEW j \in Vec
        PROVE  /\ \A k \in Vec : Row(s1, D, r, j, i)[k] \in Int
               /\ product(s1[j], y[j])[i] = Sum(Row(s1, D, r, j, i), Vec)
    BY <1>1, AppliedRows
  <2> QED
    BY <2>1, <2>2
<1>7. \A k, j \in Vec : Congruent(F[k][j], G[j][k], q)
  BY TransposeRow
<1>8. F \in [Vec -> [Vec -> Int]]
  BY <1>5 DEF Row
<1>9. f = [k \in Vec |-> Sum(F[k], Vec)]
  BY <1>5 DEF InnerTerms
<1>10. inner(r, x)[i] = Sum(f, Vec) /\ inner(s1, y)[i] = Sum(g, Vec)
  BY <1>3, <1>4, InnerSum
<1> HIDE DEF F, G, f, g, x, y, D
<1>11. Sum(f, Vec) = Sum(cols, Vec)
  BY <1>2, <1>8, <1>9, SumExchange
<1>12. ASSUME NEW j \in Vec PROVE cols[j] \in Int /\ g[j] \in Int /\ Congruent(cols[j], g[j], q)
  <2> DEFINE u == [k \in Vec |-> F[k][j]]  v == G[j]
  <2>1. \A k \in Vec : u[k] \in Int /\ v[k] \in Int /\ Congruent(u[k], v[k], q)
    BY <1>5, <1>6, <1>7
  <2>2. cols[j] = Sum(u, Vec) /\ g[j] = Sum(v, Vec) /\ g[j] \in Int
    BY <1>6
  <2> HIDE DEF u, v, cols
  <2>3. Sum(u, Vec) \in Int /\ Congruent(Sum(u, Vec), Sum(v, Vec), q)
    BY <1>2, <2>1, SumCongruent
  <2> QED
    BY <2>2, <2>3
<1> HIDE DEF cols
<1>13. Congruent(Sum(cols, Vec), Sum(g, Vec), q)
  BY <1>2, <1>12, SumCongruent
<1>14. Congruent(inner(x, r)[i], inner(r, x)[i], q)
  BY <1>3, InnerCommutes DEF Alike
<1> QED
  BY <1>10, <1>11, <1>13, <1>14, CongruentEquivalence

----------------------------------------------------------------------------

(***************************************************************************)
(* Kyber: the public key and encryption.                                   *)
(***************************************************************************)

(* frommont takes the factor 1/R of the products away.                     *)
LEMMA Frommont ==
  ASSUME NEW r \in Reduceds
  PROVE  /\ poly_frommont[r] \in Poly /\ Within(poly_frommont[r], q)
         /\ \A i \in Index : Congruent(poly_frommont[r][i], R * r[i], q)
<1> DEFINE b == (R * R) % q  y == poly_frommont[r]
<1>1. r \in Poly /\ \A i \in Index : r[i] \in int16 /\ r[i] \in Int
  BY ReducedType
<1>2. q \in Nat \ {0} /\ R \in Int /\ R * R \in Int /\ 4 * q < Half /\ Half \in Nat
  BY Widths
<1>3. b \in (1 - q)..q /\ b \in Int /\ Congruent(b, R * R, q)
  <2>1. b \in 0..(q - 1) /\ Congruent(b, R * R, q)
    BY <1>2, CongruentResidue
  <2> HIDE DEF b
  <2> QED
    BY <1>2, <2>1
<1>4. y = [i \in Index |-> fqmul(r[i], b)]
  BY <1>1 DEF poly_frommont, fqmul
<1> HIDE DEF b, y
<1>5. ASSUME NEW i \in Index
      PROVE  fqmul(r[i], b) \in (1 - q)..(q - 1) /\ Congruent(fqmul(r[i], b), R * r[i], q)
  <2> DEFINE a == r[i]
  <2>1. a \in int16
    BY <1>1
  <2> HIDE DEF a
  <2>2. fqmul(a, b) \in (1 - q)..(q - 1)
    BY <1>3, <2>1, Fqmul
  <2>3. Congruent(fqmul(a, b), R * a, q)
    BY <1>2, <1>3, <2>1, FqmulBy
  <2> QED
    BY <2>2, <2>3 DEF a
<1>6. \A i \in Index : fqmul(r[i], b) \in (-Half)..(Half - 1) /\ -q <= fqmul(r[i], b) /\ fqmul(r[i], b) <= q
  BY <1>2, <1>5
<1>7. y \in Poly
  BY <1>4, <1>6, PolyIs
<1> QED
  BY <1>4, <1>5, <1>6, <1>7 DEF y, Within

(* Images add.                                                             *)
LEMMA ImageAdd ==
  ASSUME NEW a \in [Index -> Int], NEW b \in [Index -> Int], NEW p \in Index
  PROVE  Image([i \in Index |-> a[i] + b[i]])[p] = Image(a)[p] + Image(b)[p]
<1> DEFINE d == [i \in Index |-> a[i] + b[i]]
           f == Contribution(a, p)  g == Contribution(b, p)  h == Contribution(d, p)  one == 1
<1>1. IsFiniteSet(Index) /\ one \in Int
  BY IndexFinite
<1>2. d \in [Index -> Int] /\ \A i \in Index : d[i] = a[i] + b[i]
  OBVIOUS
<1> HIDE DEF d
<1>3. Image(a)[p] = Sum(f, Index) /\ \A i \in Index : f[i] = a[i] * Monomial(p, i) /\ f[i] \in Int
  BY ImageIs
<1>4. Image(b)[p] = Sum(g, Index) /\ \A i \in Index : g[i] = b[i] * Monomial(p, i) /\ g[i] \in Int
  BY ImageIs
<1>5. Image(d)[p] = Sum(h, Index) /\ \A i \in Index : h[i] = d[i] * Monomial(p, i) /\ h[i] \in Int
  BY <1>2, ImageIs
<1>6. ASSUME NEW i \in Index PROVE h[i] = f[i] + g[i]
  <2> DEFINE u == Monomial(p, i)  x == a[i]  y == b[i]
  <2>1. u \in Int /\ x \in Int /\ y \in Int /\ i \in Nat
    BY IndexFinite, MonomialType
  <2>2. h[i] = (x + y) * u /\ f[i] = x * u /\ g[i] = y * u
    BY <1>2, <1>3, <1>4, <1>5
  <2> HIDE DEF u, x, y, f, g, h
  <2>3. (x + y) * u = x * u + y * u
    BY <2>1
  <2> QED
    BY <2>2, <2>3
<1> HIDE DEF f, g, h, one
<1>7. \A i \in Index : f[i] \in Int /\ g[i] \in Int /\ h[i] = one * f[i] + one * g[i]
  BY <1>3, <1>4, <1>6 DEF one
<1>8. IsFiniteSet(Index)
  BY <1>1
<1>9. Sum(h, Index) = one * Sum(f, Index) + one * Sum(g, Index)
  BY <1>1, <1>7, <1>8, SumLinear
<1>10. Sum(f, Index) \in Int /\ Sum(g, Index) \in Int
  BY <1>3, <1>4, <1>8, SumStep
<1>11. Sum(h, Index) = Sum(f, Index) + Sum(g, Index)
  BY <1>9, <1>10 DEF one
<1> QED
  BY <1>3, <1>4, <1>5, <1>11 DEF d

(* A sum of two polynomials that are small enough.                         *)
LEMMA AddSmall ==
  ASSUME NEW x \in Poly, NEW y \in Poly, NEW m1 \in Nat, Within(x, m1), Within(y, q), m1 <= 2 * q,
         NEW u \in [Index -> Int], NEW v \in [Index -> Int], Alike(x, u), Alike(y, v)
  PROVE  LET z == poly_add[x][y] IN
         z \in Poly /\ Within(z, m1 + q) /\ Alike(z, [i \in Index |-> u[i] + v[i]])
<1> DEFINE z == poly_add[x][y]
<1>1. q \in Nat \ {0} /\ Half \in Nat /\ m1 + q < Half
  <2>1. 4 * q < Half /\ q \in Nat \ {0} /\ Half \in Nat
    BY Widths
  <2> QED
    BY <2>1
<1>2. z \in Poly /\ \A i \in Index : z[i] = x[i] + y[i]
  <2>1. q \in Nat
    BY <1>1
  <2> QED
    BY <1>1, <2>1, PolyAdd
<1> HIDE DEF z
<1>3. ASSUME NEW i \in Index
      PROVE  /\ -(m1 + q) <= z[i] /\ z[i] <= m1 + q
             /\ Congruent(z[i], u[i] + v[i], q)
  <2> DEFINE a == x[i]  b == y[i]  c == u[i]  d == v[i]
  <2>1. a \in Int /\ b \in Int /\ c \in Int /\ d \in Int /\ Congruent(a, c, q) /\ Congruent(b, d, q)
        /\ -m1 <= a /\ a <= m1 /\ -q <= b /\ b <= q /\ z[i] = a + b
    BY <1>2, PolyIs DEF Alike, Within
  <2> HIDE DEF a, b, c, d
  <2>2. Congruent(a + b, c + d, q)
    BY <1>1, <2>1, CongruentAdd
  <2>3. -(m1 + q) <= a + b /\ a + b <= m1 + q
    BY <1>1, <2>1
  <2> QED
    BY <2>1, <2>2, <2>3 DEF c, d
<1> QED
  BY <1>2, <1>3 DEF z, Within, Alike

(* poly_reduce changes no residue.                                         *)
LEMMA ReduceAlike ==
  ASSUME NEW r \in Poly, NEW u, Alike(r, u)
  PROVE  poly_reduce[r] \in Reduceds /\ Alike(poly_reduce[r], u)
  BY PolyReduce, CongruentEquivalence DEF Alike

(* The matrix is random in the transformed domain, but it is the image of  *)
(* a matrix of polynomials.                                                *)
Matrix(d) == gen_a(hash_g(d)[1])
Drawn(d, C) == /\ C \in [Vec -> [Vec -> [Index -> Int]]]
               /\ \A k, j \in Vec : Alike(Matrix(d)[k][j], Image(C[k][j]))

LEMMA MatrixDrawn ==
  ASSUME NEW d \in Draws
  PROVE  /\ \A k \in Vec : Matrix(d)[k] \in Polyvec /\ gen_at(hash_g(d)[1])[k] \in Polyvec
         /\ \A k, j \in Vec : gen_at(hash_g(d)[1])[k][j] = Matrix(d)[j][k]
         /\ \E C : Drawn(d, C)
<1> DEFINE A == Matrix(d)
<1>1. \A k, j \in Vec : A[k][j] \in Poly /\ gen_at(hash_g(d)[1])[k][j] = A[j][k]
  BY XofAssumption DEF Matrix, gen_a, gen_at
<1>2. \A k \in Vec : A[k] \in Polyvec
  <2>1. \A k \in Vec : A[k] = [j \in Vec |-> A[k][j]]
    BY DEF Matrix, gen_a
  <2> HIDE DEF A
  <2> QED
    BY <1>1, <2>1 DEF Polyvec
<1>3. \A k \in Vec : gen_at(hash_g(d)[1])[k] \in Polyvec
  <2>1. \A k \in Vec : gen_at(hash_g(d)[1])[k] = [j \in Vec |-> gen_at(hash_g(d)[1])[k][j]]
    BY DEF gen_at
  <2> HIDE DEF A
  <2> QED
    BY <1>1, <2>1 DEF Polyvec
<1> HIDE DEF A
<1>4. \A k, j \in Vec : \E c \in [Index -> Int] : Alike(A[k][j], Image(c))
  <2> SUFFICES ASSUME NEW k \in Vec, NEW j \in Vec PROVE \E c \in [Index -> Int] : Alike(A[k][j], Image(c))
    OBVIOUS
  <2> DEFINE y == A[k][j]
  <2>1. y \in [Index -> Int]
    BY <1>1, PolyIs
  <2> HIDE DEF y
  <2>2. \E c \in [Index -> Int] : Alike(y, Image(c))
    BY <2>1, ValuesOnto
  <2> QED
    BY <2>2 DEF y
<1> DEFINE C == [k \in Vec |-> [j \in Vec |-> CHOOSE c \in [Index -> Int] : Alike(A[k][j], Image(c))]]
<1>5. \A k, j \in Vec : C[k][j] \in [Index -> Int] /\ Alike(A[k][j], Image(C[k][j]))
  BY <1>4
<1>6. C \in [Vec -> [Vec -> [Index -> Int]]]
  BY <1>5
<1> HIDE DEF C
<1>7. Drawn(d, C)
  BY <1>5, <1>6 DEF Drawn, A
<1> QED
  BY <1>1, <1>2, <1>3, <1>7 DEF A

(* The public key: the image of the matrix applied to the secret, with the *)
(* error added.                                                            *)
KeyVector(d) == polyvec_frombytes(indcpa_keypair(d).pk.t)
SumOf(a, b) == [k \in Vec |-> [i \in Index |-> a[k][i] + b[k][i]]]
Public(C, d) == SumOf(Applied(C, secret(d)), error(d))

(* Vectors of small polynomials are transformed to their images.           *)
LEMMA Transformed ==
  ASSUME NEW a \in [Vec -> [Index -> Int]], \A k \in Vec : Within(a[k], q)
  PROVE  /\ polyvec_ntt[a] \in [Vec -> Reduceds] /\ polyvec_ntt[a] \in Polyvec
         /\ \A k \in Vec : polyvec_ntt[a][k] \in Reduceds /\ Alike(polyvec_ntt[a][k], Image(a[k]))
<1>1. \A k \in Vec : /\ a[k] \in Poly /\ poly_ntt[a[k]] \in Reduceds
                     /\ Alike(poly_ntt[a[k]], Image(a[k]))
  BY NttImage
<1>2. a \in Polyvec
  BY <1>1 DEF Polyvec
<1>3. polyvec_ntt[a] = [k \in Vec |-> poly_ntt[a[k]]]
  BY <1>2 DEF polyvec_ntt
<1>4. polyvec_ntt[a] \in [Vec -> Reduceds]
  BY <1>1, <1>3
<1>5. polyvec_ntt[a] \in Polyvec
  BY <1>4, ReducedType DEF Polyvec
<1> QED
  BY <1>1, <1>3, <1>4, <1>5

LEMMA SumOfType ==
  ASSUME NEW a \in [Vec -> [Index -> Int]], NEW b \in [Vec -> [Index -> Int]]
  PROVE  /\ SumOf(a, b) \in [Vec -> [Index -> Int]]
         /\ \A k \in Vec : SumOf(a, b)[k] = [i \in Index |-> a[k][i] + b[k][i]]
         /\ \A k \in Vec, i \in Index : SumOf(a, b)[k][i] = a[k][i] + b[k][i]
  BY DEF SumOf

LEMMA PublicType ==
  ASSUME NEW d \in Draws, NEW C, Drawn(d, C)
  PROVE  /\ Applied(C, secret(d)) \in [Vec -> [Index -> Int]]
         /\ Public(C, d) \in [Vec -> [Index -> Int]]
<1> DEFINE s1 == secret(d)  e1 == error(d)
<1>1. s1 \in [Vec -> [Index -> Int]] /\ e1 \in [Vec -> [Index -> Int]] /\ C \in [Vec -> [Vec -> [Index -> Int]]]
  BY SecretType DEF Drawn
<1>2. 0 \in Vec /\ 0 \in Index
  BY IndexFinite
<1> HIDE DEF s1, e1
<1>3. Applied(C, s1) \in [Vec -> [Index -> Int]]
  BY <1>1, <1>2, AppliedRow
<1>4. SumOf(Applied(C, s1), e1) \in [Vec -> [Index -> Int]]
  BY <1>1, <1>3, SumOfType
<1> QED
  BY <1>3, <1>4 DEF Public, s1, e1

LEMMA PublicKey ==
  ASSUME NEW d \in Draws, NEW C, Drawn(d, C)
  PROVE  /\ KeyVector(d) \in [Vec -> Reduceds] /\ KeyVector(d) \in Polyvec
         /\ \A k \in Vec : Alike(KeyVector(d)[k], Image(Public(C, d)[k]))
<1> DEFINE A == Matrix(d)  s1 == secret(d)  e1 == error(d)  sk1 == polyvec_ntt[s1]  en == polyvec_ntt[e1]
           acc(k) == polyvec_pointwise_acc[A[k]][sk1]
           as == [k \in Vec |-> poly_frommont[acc(k)]]
           t == polyvec_reduce[polyvec_add[as][en]]
           D == Applied(C, s1)
<1>1. s1 \in [Vec -> [Index -> Int]] /\ e1 \in [Vec -> [Index -> Int]]
      /\ \A k \in Vec : Within(s1[k], q) /\ Within(e1[k], q)
  BY SecretType
<1>2. C \in [Vec -> [Vec -> [Index -> Int]]] /\ \A k, j \in Vec : Alike(A[k][j], Image(C[k][j]))
  BY DEF Drawn
<1>3. \A k \in Vec : A[k] \in Polyvec
  BY MatrixDrawn
<1>4. indcpa_keypair(d).pk.t = polyvec_tobytes(t)
  BY DEF indcpa_keypair, secret, error, Matrix
<1>5. Public(C, d) = SumOf(D, e1) /\ D \in [Vec -> [Index -> Int]]
  BY PublicType DEF Public
<1> HIDE DEF A, s1, e1
<1>6. sk1 \in [Vec -> Reduceds] /\ \A k \in Vec : Alike(sk1[k], Image(s1[k]))
  BY <1>1, Transformed
<1>7. en \in Polyvec /\ \A k \in Vec : en[k] \in Reduceds /\ Alike(en[k], Image(e1[k]))
  BY <1>1, Transformed
<1> HIDE DEF sk1, en
<1>8. ASSUME NEW k \in Vec
      PROVE  /\ as[k] \in Poly /\ Within(as[k], q)
             /\ Alike(as[k], Image(D[k]))
  <2> DEFINE a == A[k]  c == C[k]  x == polyvec_pointwise_acc[a][sk1]
  <2>1. a \in Polyvec /\ c \in [Vec -> [Index -> Int]] /\ \A j \in Vec : Alike(a[j], Image(c[j]))
    BY <1>2, <1>3
  <2>2. as[k] = poly_frommont[x] /\ D[k] = inner(c, s1)
    BY DEF Applied
  <2> HIDE DEF a, c, as, D
  <2>3. x \in Reduceds /\ \A p \in Index : Congruent(R * x[p], Sum(PairTerms(a, sk1, p), Vec), q)
    BY <1>6, <2>1, PointwiseAcc
  <2>4. a \in [Vec -> [Index -> Int]] /\ sk1 \in [Vec -> [Index -> Int]]
    BY <1>6, <2>1, PolyIs, ReducedType DEF Polyvec
  <2>5. \A p \in Index : Congruent(Sum(PairTerms(a, sk1, p), Vec), Image(inner(c, s1))[p], q)
    BY <1>1, <1>6, <2>1, <2>4, InnerImage
  <2> HIDE DEF x
  <2>6. poly_frommont[x] \in Poly /\ Within(poly_frommont[x], q)
        /\ \A p \in Index : Congruent(poly_frommont[x][p], R * x[p], q)
    BY <2>3, Frommont
  <2>7. Alike(poly_frommont[x], Image(inner(c, s1)))
    BY <2>3, <2>5, <2>6, CongruentEquivalence DEF Alike
  <2> QED
    BY <2>2, <2>6, <2>7
<1>9. as \in Polyvec
  BY <1>8 DEF Polyvec
<1> HIDE DEF as, D
<1>10. t = [k \in Vec |-> poly_reduce[poly_add[as[k]][en[k]]]]
  <2> DEFINE ae == polyvec_add[as][en]
  <2>1. ae = [k \in Vec |-> poly_add[as[k]][en[k]]]
    BY <1>7, <1>9 DEF polyvec_add
  <2>2. \A k \in Vec : poly_add[as[k]][en[k]] \in Poly
    BY <1>7, <1>8, ReducedType, PolyAdd
  <2>3. ae \in Polyvec
    BY <2>1, <2>2 DEF Polyvec
  <2> HIDE DEF ae
  <2>4. polyvec_reduce[ae] = [k \in Vec |-> poly_reduce[ae[k]]]
    BY <2>3 DEF polyvec_reduce
  <2> QED
    BY <2>1, <2>4 DEF ae
<1>11. ASSUME NEW k \in Vec
       PROVE  t[k] \in Reduceds /\ Alike(t[k], Image(SumOf(D, e1)[k]))
  <2> DEFINE x == as[k]  y == en[k]  u0 == D[k]  v0 == e1[k]  u == Image(u0)  v == Image(v0)  z == poly_add[x][y]
             w == [i \in Index |-> u[i] + v[i]]  m1 == q
  <2>1. x \in Poly /\ y \in Poly /\ Within(x, m1) /\ Within(y, q) /\ Alike(x, u) /\ Alike(y, v)
    BY <1>7, <1>8, ReducedType
  <2>2. u0 \in [Index -> Int] /\ v0 \in [Index -> Int]
    BY <1>1, <1>5
  <2>3. SumOf(D, e1)[k] = [i \in Index |-> u0[i] + v0[i]]
    BY DEF SumOf
  <2>4. t[k] = poly_reduce[z]
    BY <1>10
  <2>5. m1 \in Nat /\ m1 <= 2 * q
    BY Widths
  <2> HIDE DEF x, y, u0, v0, t, m1
  <2>6. u \in [Index -> Int] /\ v \in [Index -> Int]
    BY <2>2, ImageType
  <2>7. w = Image([i \in Index |-> u0[i] + v0[i]])
    <3> DEFINE o == [i \in Index |-> u0[i] + v0[i]]
    <3>1. o \in [Index -> Int]
      BY <2>2
    <3>2. \A p \in Index : Image(o)[p] = u[p] + v[p]
      BY <2>2, ImageAdd
    <3>3. Image(o) = [p \in Index |-> Image(o)[p]]
      BY DEF Image
    <3> HIDE DEF o, u, v
    <3> QED
      BY <3>2, <3>3 DEF o
  <2> HIDE DEF u, v
  <2>8. z \in Poly /\ Alike(z, w)
    BY <2>1, <2>5, <2>6, AddSmall
  <2> HIDE DEF z, w
  <2>9. poly_reduce[z] \in Reduceds /\ Alike(poly_reduce[z], w)
    BY <2>8, ReduceAlike
  <2> QED
    BY <2>3, <2>4, <2>7, <2>9
<1> HIDE DEF t
<1>12. \A k \in Vec : KeyVector(d)[k] = poly_frombytes(poly_tobytes(t[k]))
  BY <1>4 DEF KeyVector, polyvec_frombytes, polyvec_tobytes
<1>13. ASSUME NEW k \in Vec
       PROVE  KeyVector(d)[k] \in Reduceds /\ Alike(KeyVector(d)[k], Image(SumOf(D, e1)[k]))
  <2> DEFINE a == t[k]  b == poly_frombytes(poly_tobytes(a))
  <2>1. a \in [Index -> 0..q] /\ Alike(a, Image(SumOf(D, e1)[k])) /\ KeyVector(d)[k] = b
    BY <1>11, <1>12 DEF Reduceds
  <2> HIDE DEF a
  <2>2. b \in [Index -> 0..q] /\ \A i \in Index : Congruent(b[i], a[i], q)
    BY <2>1, KeyBack
  <2> HIDE DEF b
  <2>3. Alike(b, Image(SumOf(D, e1)[k]))
    BY <2>1, <2>2, CongruentEquivalence DEF Alike
  <2> QED
    BY <2>1, <2>2, <2>3 DEF Reduceds
<1>14. KeyVector(d) \in [Vec -> Reduceds]
  <2>1. KeyVector(d) = [k \in Vec |-> KeyVector(d)[k]]
    BY DEF KeyVector, polyvec_frombytes
  <2> QED
    BY <1>13, <2>1
<1>15. KeyVector(d) \in Polyvec
  BY <1>14, ReducedType DEF Polyvec
<1> QED
  BY <1>5, <1>13, <1>14, <1>15

(* The noise that an encryption draws.                                     *)
Ephemeral(coins) == [k \in Vec |-> poly_getnoise(coins, k)]
Errors(coins) == [k \in Vec |-> poly_getnoise(coins, K + k)]

LEMMA EphemeralType ==
  ASSUME NEW coins, NoiseSeed(coins)
  PROVE  /\ Ephemeral(coins) \in [Vec -> [Index -> Int]] /\ Errors(coins) \in [Vec -> [Index -> Int]]
         /\ \A k \in Vec : /\ Within(Ephemeral(coins)[k], q) /\ Within(Errors(coins)[k], q)
                           /\ Ephemeral(coins)[k] \in Poly /\ Errors(coins)[k] \in Poly
         /\ poly_getnoise(coins, 2 * K) \in Poly /\ poly_getnoise(coins, 2 * K) \in [Index -> Int]
         /\ Within(poly_getnoise(coins, 2 * K), q)
<1>1. \A k \in Vec : /\ poly_getnoise(coins, k) \in [Index -> Int]
                     /\ Within(poly_getnoise(coins, k), q)
                     /\ poly_getnoise(coins, k) \in Poly
                     /\ poly_getnoise(coins, K + k) \in [Index -> Int]
                     /\ Within(poly_getnoise(coins, K + k), q)
                     /\ poly_getnoise(coins, K + k) \in Poly
  BY NonceRange, Noisy
<1>2. /\ poly_getnoise(coins, 2 * K) \in Poly /\ poly_getnoise(coins, 2 * K) \in [Index -> Int]
      /\ Within(poly_getnoise(coins, 2 * K), q)
  BY NonceRange, Noisy
<1> QED
  BY <1>1, <1>2 DEF Ephemeral, Errors

(* A message as a polynomial.                                              *)
LEMMA MessagePoly ==
  ASSUME NEW x \in [Index -> {0, 1}]
  PROVE  /\ poly_frommsg(x) \in Poly /\ Within(poly_frommsg(x), q) /\ poly_frommsg(x) \in [Index -> Int]
         /\ \A i \in Index : poly_frommsg(x)[i] = frombit(x[i])
<1>1. q \in Nat \ {0} /\ Half \in Nat /\ 4 * q < Half /\ (q + 1) \div 2 \in 0..q
  <2>1. (q \div 2) \in Nat /\ q = 2 * (q \div 2) + 1 /\ q \in Nat \ {0} /\ Half \in Nat /\ 4 * q < Half
    BY HalfModulus, Widths
  <2> QED
    BY <2>1
<1> DEFINE h == (q + 1) \div 2
<1>2. ASSUME NEW i \in Index PROVE frombit(x[i]) \in 0..q
  <2>1. x[i] = 0 \/ x[i] = 1
    OBVIOUS
  <2>2. frombit(x[i]) = x[i] * h
    BY DEF frombit
  <2> HIDE DEF h
  <2>3. h \in 0..q /\ h \in Int
    BY <1>1 DEF h
  <2> QED
    BY <1>1, <2>1, <2>2, <2>3
<1>3. \A i \in Index : poly_frommsg(x)[i] = frombit(x[i])
  BY DEF poly_frommsg
<1>4. \A i \in Index : frombit(x[i]) \in (-Half)..(Half - 1) /\ -q <= frombit(x[i]) /\ frombit(x[i]) <= q
  BY <1>1, <1>2
<1>5. poly_frommsg(x) = [i \in Index |-> frombit(x[i])]
  BY DEF poly_frommsg
<1>6. poly_frommsg(x) \in Poly
  BY <1>4, <1>5, PolyIs
<1> QED
  BY <1>3, <1>4, <1>6, PolyIs DEF Within

(* What an encryption computes, without the transforms.                    *)
Sealed(e, C, d, coins, x) ==
  /\ e.b \in [Vec -> Reduceds] /\ e.v \in Reduceds
  /\ \A k \in Vec : Alike(e.b[k], SumOf(Applied(Transpose(C), Ephemeral(coins)), Errors(coins))[k])
  /\ \A i \in Index : Congruent(e.v[i], (inner(Public(C, d), Ephemeral(coins))[i] + poly_getnoise(coins, 2 * K)[i])
                                          + frombit(x[i]), q)

LEMMA Encryption ==
  ASSUME NEW d \in Draws, NEW C, Drawn(d, C), NEW coins, NoiseSeed(coins), NEW x \in [Index -> {0, 1}]
  PROVE  Sealed(indcpa_enc(x, indcpa_keypair(d).pk, coins), C, d, coins, x)
<1> DEFINE At == gen_at(hash_g(d)[1])  D == Transpose(C)  r == Ephemeral(coins)  e1 == Errors(coins)
           e2 == poly_getnoise(coins, 2 * K)  sp == polyvec_ntt[r]  kv == KeyVector(d)  P == Public(C, d)
           acc(k) == polyvec_pointwise_acc[At[k]][sp]
           ac == [k \in Vec |-> acc(k)]
           bp == polyvec_invntt[ac]
           v == invntt[polyvec_pointwise_acc[kv][sp]]
           b1 == polyvec_reduce[polyvec_add[bp][e1]]
           v1 == poly_reduce[poly_add[poly_add[v][e2]][poly_frommsg(x)]]
           Dr == Applied(D, r)
<1>1. r \in [Vec -> [Index -> Int]] /\ e1 \in [Vec -> [Index -> Int]]
      /\ \A k \in Vec : Within(r[k], q) /\ Within(e1[k], q) /\ e1[k] \in Poly
  BY EphemeralType
<1>2. e2 \in Poly /\ Within(e2, q) /\ e2 \in [Index -> Int]
  BY EphemeralType
<1>3. D \in [Vec -> [Vec -> [Index -> Int]]] /\ \A k, j \in Vec : Alike(At[k][j], Image(D[k][j]))
  BY MatrixDrawn DEF Drawn, Transpose
<1>4. \A k \in Vec : At[k] \in Polyvec
  BY MatrixDrawn
<1>5. kv \in Polyvec /\ P \in [Vec -> [Index -> Int]] /\ \A k \in Vec : Alike(kv[k], Image(P[k]))
  BY PublicKey, PublicType
<1>6. indcpa_enc(x, indcpa_keypair(d).pk, coins) = [b |-> b1, v |-> v1]
  BY DEF indcpa_enc, indcpa_keypair, KeyVector, Ephemeral, Errors
<1> HIDE DEF At, D, r, e1, e2, kv, P
<1>7. sp \in [Vec -> Reduceds] /\ \A k \in Vec : Alike(sp[k], Image(r[k]))
  BY <1>1, Transformed
<1> HIDE DEF sp
<1>8. ASSUME NEW k \in Vec
      PROVE  /\ acc(k) \in Reduceds /\ invntt[acc(k)] \in Poly /\ Within(invntt[acc(k)], q)
             /\ Alike(invntt[acc(k)], Dr[k])
  <2> DEFINE a == At[k]  c == D[k]
  <2>1. a \in Polyvec /\ c \in [Vec -> [Index -> Int]] /\ \A j \in Vec : Alike(a[j], Image(c[j]))
    BY <1>3, <1>4
  <2>2. Dr[k] = inner(c, r) /\ acc(k) = polyvec_pointwise_acc[a][sp]
    BY DEF Applied
  <2> HIDE DEF a, c, Dr, acc
  <2>3. acc(k) \in Reduceds
    BY <1>7, <2>1, <2>2, PointwiseAcc
  <2>4. LET z == invntt[polyvec_pointwise_acc[a][sp]]
        IN  z \in Poly /\ Within(z, q) /\ Alike(z, inner(c, r))
    BY <1>1, <1>7, <2>1, InnerBack
  <2> QED
    BY <2>2, <2>3, <2>4
<1>9. v \in Poly /\ Within(v, q) /\ Alike(v, inner(P, r))
  BY <1>1, <1>5, <1>7, InnerBack
<1>10. Dr \in [Vec -> [Index -> Int]] /\ inner(P, r) \in [Index -> Int]
  <2>1. 0 \in Vec /\ 0 \in Index
    BY IndexFinite
  <2>2. Dr \in [Vec -> [Index -> Int]]
    BY <1>1, <1>3, <2>1, AppliedRow
  <2>3. inner(P, r) \in [Index -> Int]
    BY <1>1, <1>5, InnerIs
  <2> QED
    BY <2>2, <2>3
<1> HIDE DEF Dr, v, acc
<1>11. /\ bp = [k \in Vec |-> invntt[acc(k)]]
       /\ bp \in Polyvec
  <2>1. ac \in Polyvec /\ \A k \in Vec : ac[k] = acc(k)
    BY <1>8, ReducedType DEF Polyvec
  <2> HIDE DEF ac
  <2>2. bp = [k \in Vec |-> invntt[ac[k]]]
    BY <2>1 DEF polyvec_invntt
  <2>3. bp = [k \in Vec |-> invntt[acc(k)]]
    BY <2>1, <2>2
  <2> HIDE DEF bp
  <2>4. bp \in Polyvec
    BY <1>8, <2>3 DEF Polyvec
  <2> QED
    BY <2>3, <2>4
<1> HIDE DEF bp, ac
<1>12. b1 = [k \in Vec |-> poly_reduce[poly_add[bp[k]][e1[k]]]]
  <2> DEFINE be == polyvec_add[bp][e1]
  <2>1. e1 \in Polyvec
    BY <1>1 DEF Polyvec
  <2>2. be = [k \in Vec |-> poly_add[bp[k]][e1[k]]]
    BY <1>11, <2>1 DEF polyvec_add
  <2>3. \A k \in Vec : poly_add[bp[k]][e1[k]] \in Poly
    BY <1>1, <1>8, <1>11, PolyAdd
  <2>4. be \in Polyvec
    BY <2>2, <2>3 DEF Polyvec
  <2> HIDE DEF be
  <2>5. polyvec_reduce[be] = [k \in Vec |-> poly_reduce[be[k]]]
    BY <2>4 DEF polyvec_reduce
  <2> QED
    BY <2>2, <2>5 DEF be
<1>13. ASSUME NEW k \in Vec
       PROVE  b1[k] \in Reduceds /\ Alike(b1[k], SumOf(Dr, e1)[k])
  <2> DEFINE y1 == bp[k]  y2 == e1[k]  u == Dr[k]  z == poly_add[y1][y2]  w == [i \in Index |-> u[i] + y2[i]]  m1 == q
  <2>1. y1 \in Poly /\ y2 \in Poly /\ Within(y1, m1) /\ Within(y2, q) /\ Alike(y1, u) /\ Alike(y2, y2)
    BY <1>1, <1>8, <1>11, AlikeEquivalence
  <2>2. u \in [Index -> Int] /\ y2 \in [Index -> Int] /\ SumOf(Dr, e1)[k] = w /\ b1[k] = poly_reduce[z]
    BY <1>1, <1>10, <1>12 DEF SumOf
  <2>3. m1 \in Nat /\ m1 <= 2 * q
    BY Widths
  <2> HIDE DEF y1, y2, u, b1, m1
  <2>4. z \in Poly /\ Alike(z, w)
    BY <2>1, <2>2, <2>3, AddSmall
  <2> HIDE DEF z, w
  <2> QED
    BY <2>2, <2>4, ReduceAlike
<1>14. b1 \in [Vec -> Reduceds]
  <2> HIDE DEF b1
  <2> QED
    BY <1>12, <1>13
<1> DEFINE ip == inner(P, r)  f == poly_frommsg(x)
           w1 == [i \in Index |-> ip[i] + e2[i]]  w2 == [i \in Index |-> w1[i] + f[i]]
<1>15. f \in Poly /\ Within(f, q) /\ f \in [Index -> Int] /\ \A i \in Index : f[i] = frombit(x[i])
  BY MessagePoly
<1> HIDE DEF f, b1
<1>16. v1 \in Reduceds /\ Alike(v1, w2)
  <2> DEFINE z1 == poly_add[v][e2]  z2 == poly_add[z1][f]  m1 == q  m2 == 2 * q
  <2>1. m1 \in Nat /\ m1 <= 2 * q /\ m2 \in Nat /\ m2 <= 2 * q /\ m1 + q = m2
    BY Widths
  <2>2. v1 = poly_reduce[z2]
    BY DEF f
  <2>3. Alike(e2, e2) /\ Alike(f, f) /\ Within(v, m1)
    BY <1>9, AlikeEquivalence
  <2> HIDE DEF m1, m2, v1
  <2>4. ip \in [Index -> Int] /\ Alike(v, ip)
    BY <1>9, <1>10
  <2> HIDE DEF ip
  <2>5. z1 \in Poly /\ Within(z1, m2) /\ Alike(z1, w1)
    <3>1. z1 \in Poly /\ Within(z1, m1 + q) /\ Alike(z1, w1)
      BY <1>2, <1>9, <2>1, <2>3, <2>4, AddSmall
    <3> QED
      BY <2>1, <3>1
  <2>6. w1 \in [Index -> Int]
    BY <1>2, <2>4
  <2> HIDE DEF z1, w1
  <2>7. z2 \in Poly /\ Alike(z2, w2)
    BY <1>15, <2>1, <2>3, <2>5, <2>6, AddSmall
  <2> HIDE DEF z2, w2
  <2> QED
    BY <2>2, <2>7, ReduceAlike
<1>17. \A i \in Index : w2[i] = (ip[i] + e2[i]) + frombit(x[i])
  BY <1>15
<1> HIDE DEF w1, w2, v1
<1>18. \A i \in Index : Congruent(v1[i], (ip[i] + e2[i]) + frombit(x[i]), q)
  BY <1>16, <1>17 DEF Alike
<1> DEFINE e == indcpa_enc(x, indcpa_keypair(d).pk, coins)
<1>19. e.b = b1 /\ e.v = v1
  BY <1>6
<1> HIDE DEF e, ip
<1>20. /\ e.b \in [Vec -> Reduceds] /\ e.v \in Reduceds
       /\ \A k \in Vec : Alike(e.b[k], SumOf(Dr, e1)[k])
       /\ \A i \in Index : Congruent(e.v[i], (ip[i] + e2[i]) + frombit(x[i]), q)
  BY <1>13, <1>14, <1>16, <1>18, <1>19
<1> QED
  BY <1>20 DEF Sealed, e, ip, Dr, D, r, e1, e2, P

----------------------------------------------------------------------------

(***************************************************************************)
(* Kyber: noise.                                                           *)
(***************************************************************************)

(* What is left of v when the product with the secret is taken off.        *)
Remainder(d, y) == [i \in Index |-> y.v[i] - inner(secret(d), y.b)[i]]

LEMMA RemainderType ==
  ASSUME NEW d \in Draws, NEW y, y.b \in [Vec -> Reduceds], y.v \in Reduceds
  PROVE  /\ y.b \in [Vec -> [Index -> Int]] /\ y.v \in [Index -> Int]
         /\ inner(secret(d), y.b) \in [Index -> Int]
         /\ Remainder(d, y) \in [Index -> Int]
         /\ \A i \in Index : Remainder(d, y)[i] = y.v[i] - inner(secret(d), y.b)[i]
<1> DEFINE b == y.b  v == y.v  s1 == secret(d)
<1>1. b \in [Vec -> [Index -> Int]] /\ v \in [Index -> Int]
  BY ReducedType
<1>2. s1 \in [Vec -> [Index -> Int]]
  BY SecretType
<1> HIDE DEF b, v, s1
<1>3. inner(s1, b) \in [Index -> Int]
  BY <1>1, <1>2, InnerIs
<1>4. Remainder(d, y) = [i \in Index |-> v[i] - inner(s1, b)[i]]
  BY DEF Remainder, v, s1, b
<1>5. Remainder(d, y) \in [Index -> Int] /\ \A i \in Index : Remainder(d, y)[i] = v[i] - inner(s1, b)[i]
  BY <1>1, <1>3, <1>4
<1> QED
  BY <1>1, <1>3, <1>5 DEF b, v, s1

(* The remainder of a sum is the sum of the remainders.                    *)
LEMMA RemainderSum ==
  ASSUME NEW d \in Draws, NEW x, NEW y, NEW z,
         x.b \in [Vec -> [Index -> Int]], x.v \in [Index -> Int],
         y.b \in [Vec -> [Index -> Int]], y.v \in [Index -> Int],
         z.b \in [Vec -> [Index -> Int]], z.v \in [Index -> Int],
         \A k \in Vec : \A i \in Index : Congruent(z.b[k][i], x.b[k][i] + y.b[k][i], q),
         \A i \in Index : Congruent(z.v[i], x.v[i] + y.v[i], q), NEW i \in Index
  PROVE  Congruent(z.v[i] - inner(secret(d), z.b)[i],
                   (x.v[i] - inner(secret(d), x.b)[i]) + (y.v[i] - inner(secret(d), y.b)[i]), q)
<1> DEFINE s1 == secret(d)  xb == x.b  yb == y.b  zb == z.b
           a == inner(s1, xb)[i]  b == inner(s1, yb)[i]  c == inner(s1, zb)[i]
           u == x.v[i]  v == y.v[i]  w == z.v[i]
<1>1. /\ s1 \in [Vec -> [Index -> Int]] /\ xb \in [Vec -> [Index -> Int]]
      /\ yb \in [Vec -> [Index -> Int]] /\ zb \in [Vec -> [Index -> Int]]
  BY SecretType
<1>2. \A k \in Vec : \A j \in Index : Congruent(zb[k][j], xb[k][j] + yb[k][j], q)
  OBVIOUS
<1>3. u \in Int /\ v \in Int /\ w \in Int /\ Congruent(w, u + v, q) /\ q \in Nat \ {0}
  BY Widths
<1> HIDE DEF s1, xb, yb, zb
<1>4. a \in Int /\ b \in Int /\ c \in Int
  BY <1>1, InnerSum
<1>5. Congruent(c, a + b, q)
  BY <1>1, <1>2, InnerSplit
<1> HIDE DEF a, b, c, u, v, w
<1> DEFINE t1 == u + v  t2 == a + b
<1>6. t1 \in Int /\ t2 \in Int /\ Congruent(w, t1, q) /\ Congruent(c, t2, q)
  BY <1>3, <1>4, <1>5
<1>7. t1 - t2 = (u - a) + (v - b)
  BY <1>3, <1>4
<1> HIDE DEF t1, t2
<1>8. Congruent(w - c, t1 - t2, q)
  BY <1>3, <1>4, <1>6, CongruentSub
<1> QED
  BY <1>7, <1>8 DEF s1, xb, yb, zb, a, b, c, u, v, w

(* What the compression of a ciphertext changes.                           *)
LEMMA RoundingErrors ==
  ASSUME NEW e, e.b \in [Vec -> Reduceds], e.v \in Reduceds
  PROVE  LET y == unpack_ciphertext(pack_ciphertext(e)) IN
         /\ y.b \in [Vec -> Reduceds] /\ y.v \in Reduceds
         /\ \E b \in [Vec -> [Index -> Int]], v \in [Index -> Int] :
              /\ \A k \in Vec : Within(b[k], Rounding(DU))
              /\ Within(v, Rounding(DV))
              /\ \A k \in Vec : \A i \in Index : Congruent(y.b[k][i], e.b[k][i] + b[k][i], q)
              /\ \A i \in Index : Congruent(y.v[i], e.v[i] + v[i], q)
<1> DEFINE y == unpack_ciphertext(pack_ciphertext(e))
           Off(z, a, m1) == CHOOSE f \in (-m1)..m1 : f \in Int /\ Congruent(z, a + f, q)
           b == [k \in Vec |-> [i \in Index |-> Off(y.b[k][i], e.b[k][i], Rounding(DU))]]
           v == [i \in Index |-> Off(y.v[i], e.v[i], Rounding(DV))]
<1>1. e.b \in [Vec -> [Index -> Int]] /\ e.v \in [Index -> Int]
  BY ReducedType
<1>2. /\ y.v \in Reduceds /\ Rounded(y.v, e.v, DV)
      /\ y.b \in [Vec -> Reduceds] /\ \A k \in Vec : Rounded(y.b[k], e.b[k], DU)
  BY <1>1, Unpacked
<1>3. \A k \in Vec : \A i \in Index : e.b[k][i] \in 0..q
  BY DEF Reduceds
<1>4. \A i \in Index : e.v[i] \in 0..q
  BY DEF Reduceds
<1>5. Rounding(DU) \in Nat /\ Rounding(DV) \in Nat
  BY RingAssumption, RoundingType
<1> HIDE DEF y
<1>6. \A k \in Vec : \A i \in Index :
        \E f \in (-Rounding(DU))..Rounding(DU) : f \in Int /\ Congruent(y.b[k][i], e.b[k][i] + f, q)
  BY <1>2, <1>3 DEF Rounded
<1>7. \A i \in Index :
        \E f \in (-Rounding(DV))..Rounding(DV) : f \in Int /\ Congruent(y.v[i], e.v[i] + f, q)
  BY <1>2, <1>4 DEF Rounded
<1>8. ASSUME NEW k \in Vec, NEW i \in Index
      PROVE  /\ b[k][i] \in (-Rounding(DU))..Rounding(DU) /\ b[k][i] \in Int
             /\ Congruent(y.b[k][i], e.b[k][i] + b[k][i], q)
  <2> DEFINE z == y.b[k][i]  a == e.b[k][i]
  <2>1. b[k][i] = Off(z, a, Rounding(DU))
    OBVIOUS
  <2>2. \E f \in (-Rounding(DU))..Rounding(DU) : f \in Int /\ Congruent(z, a + f, q)
    BY <1>6
  <2> HIDE DEF z, a, b
  <2>3. LET f == Off(z, a, Rounding(DU))
        IN  f \in (-Rounding(DU))..Rounding(DU) /\ f \in Int /\ Congruent(z, a + f, q)
    BY <2>2
  <2> HIDE DEF Off
  <2> QED
    BY <2>1, <2>3 DEF z, a
<1>9. ASSUME NEW i \in Index
      PROVE  /\ v[i] \in (-Rounding(DV))..Rounding(DV) /\ v[i] \in Int
             /\ Congruent(y.v[i], e.v[i] + v[i], q)
  <2> DEFINE z == y.v[i]  a == e.v[i]
  <2>1. v[i] = Off(z, a, Rounding(DV))
    OBVIOUS
  <2>2. \E f \in (-Rounding(DV))..Rounding(DV) : f \in Int /\ Congruent(z, a + f, q)
    BY <1>7
  <2> HIDE DEF z, a, v
  <2>3. LET f == Off(z, a, Rounding(DV))
        IN  f \in (-Rounding(DV))..Rounding(DV) /\ f \in Int /\ Congruent(z, a + f, q)
    BY <2>2
  <2> HIDE DEF Off
  <2> QED
    BY <2>1, <2>3 DEF z, a
<1> HIDE DEF Off
<1>10. b \in [Vec -> [Index -> Int]] /\ v \in [Index -> Int]
  BY <1>8, <1>9
<1> HIDE DEF b, v
<1>11. (\A k \in Vec : Within(b[k], Rounding(DU))) /\ Within(v, Rounding(DV))
  BY <1>5, <1>8, <1>9 DEF Within
<1>12. \E bb \in [Vec -> [Index -> Int]], vv \in [Index -> Int] :
              /\ \A k \in Vec : Within(bb[k], Rounding(DU))
              /\ Within(vv, Rounding(DV))
              /\ \A k \in Vec : \A i \in Index : Congruent(y.b[k][i], e.b[k][i] + bb[k][i], q)
              /\ \A i \in Index : Congruent(y.v[i], e.v[i] + vv[i], q)
  BY <1>8, <1>9, <1>10, <1>11
<1> QED
  BY <1>2, <1>12 DEF y

(* The numbers that Slack is made of.                                      *)
LEMMA SlackType ==
  ASSUME NEW d \in Draws
  PROVE  /\ Rounding(DU) \in Nat /\ Rounding(DV) \in Nat /\ Weight(secret(d)) \in Int
         /\ Slack(d) = Rounding(DV) + Rounding(DU) * Weight(secret(d)) /\ Slack(d) \in Int
<1>1. Rounding(DU) \in Nat /\ Rounding(DV) \in Nat
  BY RingAssumption, RoundingType
<1> DEFINE s1 == secret(d)  B == 0
<1>2. s1 \in [Vec -> [Index -> Int]]
  BY SecretType
<1> HIDE DEF s1
<1>3. 0 \in Index /\ \E z : z = [k \in Vec |-> [i \in Index |-> 0]]
  BY IndexFinite
<1> DEFINE z == [k \in Vec |-> [i \in Index |-> 0]]
<1>4. z \in [Vec -> [Index -> Int]] /\ B \in Nat /\ \A k \in Vec : Within(z[k], B)
  BY DEF Within
<1> HIDE DEF z, B
<1>5. Weight(s1) \in Int
  BY <1>2, <1>3, <1>4, InnerBound
<1>6. Rounding(DU) * Weight(s1) \in Int
  BY <1>1, <1>5
<1> QED
  BY <1>1, <1>5, <1>6 DEF Slack, s1

(* Compression changes the remainder by at most Slack.                     *)
LEMMA Compressing ==
  ASSUME NEW d \in Draws, NEW e, e.b \in [Vec -> Reduceds], e.v \in Reduceds, NEW i \in Index
  PROVE  LET y == unpack_ciphertext(pack_ciphertext(e)) IN
         \E g \in Int : /\ -Slack(d) <= g /\ g <= Slack(d)
                        /\ Congruent(Remainder(d, y)[i], Remainder(d, e)[i] + g, q)
<1> DEFINE y == unpack_ciphertext(pack_ciphertext(e))  s1 == secret(d)  mU == Rounding(DU)  mV == Rounding(DV)
<1>1. /\ y.b \in [Vec -> Reduceds] /\ y.v \in Reduceds
      /\ \E b \in [Vec -> [Index -> Int]], v \in [Index -> Int] :
              /\ \A k \in Vec : Within(b[k], mU)
              /\ Within(v, mV)
              /\ \A k \in Vec : \A j \in Index : Congruent(y.b[k][j], e.b[k][j] + b[k][j], q)
              /\ \A j \in Index : Congruent(y.v[j], e.v[j] + v[j], q)
  BY RoundingErrors
<1> HIDE DEF y
<1>2. PICK b \in [Vec -> [Index -> Int]], v \in [Index -> Int] :
              /\ \A k \in Vec : Within(b[k], mU)
              /\ Within(v, mV)
              /\ \A k \in Vec : \A j \in Index : Congruent(y.b[k][j], e.b[k][j] + b[k][j], q)
              /\ \A j \in Index : Congruent(y.v[j], e.v[j] + v[j], q)
  BY <1>1
<1>3. /\ mU \in Nat /\ mV \in Nat /\ Weight(s1) \in Int /\ Slack(d) = mV + mU * Weight(s1)
      /\ s1 \in [Vec -> [Index -> Int]]
  BY SlackType, SecretType
<1> DEFINE z == [b |-> b, v |-> v]  a == inner(s1, b)[i]  g == v[i] - a
<1>4. z.b = b /\ z.v = v
  OBVIOUS
<1>5. /\ y.b \in [Vec -> [Index -> Int]] /\ y.v \in [Index -> Int]
      /\ e.b \in [Vec -> [Index -> Int]] /\ e.v \in [Index -> Int]
      /\ Remainder(d, y)[i] = y.v[i] - inner(s1, y.b)[i]
      /\ Remainder(d, e)[i] = e.v[i] - inner(s1, e.b)[i]
  BY <1>1, RemainderType
<1> HIDE DEF z
<1>6. Congruent(y.v[i] - inner(s1, y.b)[i], (e.v[i] - inner(s1, e.b)[i]) + (z.v[i] - inner(s1, z.b)[i]), q)
  <2>1. \A k \in Vec : \A j \in Index : Congruent(y.b[k][j], e.b[k][j] + z.b[k][j], q)
    BY <1>2, <1>4
  <2>2. \A j \in Index : Congruent(y.v[j], e.v[j] + z.v[j], q)
    BY <1>2, <1>4
  <2>3. z.b \in [Vec -> [Index -> Int]] /\ z.v \in [Index -> Int]
    BY <1>4
  <2> QED
    BY <1>5, <2>1, <2>2, <2>3, RemainderSum
<1> HIDE DEF s1, mU, mV
<1>7. a \in Int /\ -(mU * Weight(s1)) <= a /\ a <= mU * Weight(s1)
  BY <1>2, <1>3, InnerBound
<1>8. v[i] \in Int /\ -mV <= v[i] /\ v[i] <= mV
  BY <1>2 DEF Within
<1>9. g \in Int /\ -Slack(d) <= g /\ g <= Slack(d)
  <2> DEFINE w == mU * Weight(s1)  x == v[i]
  <2>1. w \in Int /\ x \in Int /\ -w <= a /\ a <= w /\ Slack(d) = mV + w /\ -mV <= x /\ x <= mV /\ g = x - a
    BY <1>3, <1>7, <1>8
  <2> HIDE DEF w, x, a, g
  <2> QED
    BY <1>3, <1>7, <2>1
<1>10. Congruent(Remainder(d, y)[i], Remainder(d, e)[i] + g, q)
  BY <1>4, <1>5, <1>6
<1> HIDE DEF g
<1> QED
  BY <1>9, <1>10 DEF y

(* The noise of a ciphertext is its remainder less the message.            *)
LEMMA NoiseIs ==
  ASSUME NEW d \in Draws, NEW c, unpack_ciphertext(c).b \in [Vec -> Reduceds], unpack_ciphertext(c).v \in Reduceds,
         NEW x \in [Index -> {0, 1}], NEW i \in Index
  PROVE  LET w == Remainder(d, unpack_ciphertext(c))[i] IN
         /\ Noise(c, d, x)[i] \in Int /\ w \in Int /\ frombit(x[i]) \in Int
         /\ Congruent(Noise(c, d, x)[i], w - frombit(x[i]), q)
<1> DEFINE y == unpack_ciphertext(c)  w == Remainder(d, y)[i]  m1 == frombit(x[i])
<1>1. y.b \in [Vec -> Reduceds] /\ y.v \in Reduceds
  OBVIOUS
<1>2. Noise(c, d, x)[i] = centre((y.v[i] - inner(secret(d), y.b)[i]) - m1)
  BY DEF Noise
<1> HIDE DEF y
<1>3. w \in Int /\ w = y.v[i] - inner(secret(d), y.b)[i]
  BY <1>1, RemainderType
<1>4. m1 \in Int
  BY MessagePoly
<1> HIDE DEF w, m1
<1>5. w - m1 \in Int
  BY <1>3, <1>4
<1>6. centre(w - m1) \in Int /\ Congruent(centre(w - m1), w - m1, q)
  BY <1>5, Centre
<1>7. Noise(c, d, x)[i] = centre(w - m1)
  BY <1>2, <1>3
<1> QED
  BY <1>3, <1>4, <1>6, <1>7 DEF y, w, m1

(* The remainder of an encryption that is not yet rounded is the noise of  *)
(* the scheme on paper and the message: by Transposition, the products with*)
(* the matrix cancel.                                                      *)
LEMMA DesignedIs ==
  ASSUME NEW d \in Draws, NEW C, Drawn(d, C), NEW coins, NoiseSeed(coins), NEW x \in [Index -> {0, 1}],
         NEW e, Sealed(e, C, d, coins, x), NEW i \in Index
  PROVE  /\ Designed(d, coins)[i] \in Int
         /\ Congruent(Remainder(d, e)[i], Designed(d, coins)[i] + frombit(x[i]), q)
<1> DEFINE D == Transpose(C)  r == Ephemeral(coins)  e1 == Errors(coins)  e2 == poly_getnoise(coins, 2 * K)[i]
           P == Public(C, d)  s1 == secret(d)  er == error(d)  As == Applied(C, s1)  Dr == Applied(D, r)
           bt == SumOf(Dr, e1)  f == frombit(x[i])  eb == e.b  ev == e.v[i]
<1>1. s1 \in [Vec -> [Index -> Int]] /\ er \in [Vec -> [Index -> Int]] /\ q \in Nat \ {0}
  BY SecretType, Widths
<1>2. r \in [Vec -> [Index -> Int]] /\ e1 \in [Vec -> [Index -> Int]] /\ e2 \in Int
  BY EphemeralType
<1>3. C \in [Vec -> [Vec -> [Index -> Int]]] /\ D \in [Vec -> [Vec -> [Index -> Int]]]
  BY DEF Drawn, Transpose
<1>4. As \in [Vec -> [Index -> Int]] /\ P \in [Vec -> [Index -> Int]] /\ P = SumOf(As, er)
  BY PublicType DEF Public
<1>5. f \in Int
  BY MessagePoly
<1>6. eb \in [Vec -> Reduceds] /\ ev \in Int
  BY ReducedType DEF Sealed
<1>7. (\A k \in Vec : Alike(eb[k], bt[k])) /\ Congruent(ev, (inner(P, r)[i] + e2) + f, q)
  BY DEF Sealed
<1>8. Remainder(d, e)[i] = ev - inner(s1, eb)[i]
  BY RemainderType DEF Sealed
<1>9. Alike(inner(As, r), inner(s1, Dr))
  BY <1>1, <1>2, <1>3, Transposition
<1>10. Designed(d, coins)[i] = (inner(er, r)[i] - inner(s1, e1)[i]) + e2
  BY DEF Designed, Ephemeral, Errors
<1> HIDE DEF r, e1, e2, P, s1, er, As, f, eb, ev, D
<1>11. Dr \in [Vec -> [Index -> Int]]
  <2>1. 0 \in Vec /\ 0 \in Index
    BY IndexFinite
  <2> QED
    BY <1>2, <1>3, <2>1, AppliedRow
<1> HIDE DEF Dr
<1>12. bt \in [Vec -> [Index -> Int]] /\ \A k \in Vec : \A j \in Index : bt[k][j] = Dr[k][j] + e1[k][j]
  BY <1>2, <1>11, SumOfType
<1>13. eb \in [Vec -> [Index -> Int]]
  BY <1>6, ReducedType
<1> DEFINE pr == inner(P, r)[i]  asr == inner(As, r)[i]  err == inner(er, r)[i]
           sb == inner(s1, eb)[i]  sd == inner(s1, Dr)[i]  se == inner(s1, e1)[i]
<1>14. pr \in Int /\ asr \in Int /\ err \in Int /\ sb \in Int /\ sd \in Int /\ se \in Int
  BY <1>1, <1>2, <1>4, <1>11, <1>13, InnerSum
<1>15. Congruent(pr, asr + err, q)
  <2> DEFINE rp == inner(r, P)[i]  ra == inner(r, As)[i]  re == inner(r, er)[i]
  <2>1. rp \in Int /\ ra \in Int /\ re \in Int
    BY <1>1, <1>2, <1>4, InnerSum
  <2>2. \A k \in Vec : \A j \in Index : Congruent(P[k][j], As[k][j] + er[k][j], q)
    <3>1. \A k \in Vec : \A j \in Index : P[k][j] = As[k][j] + er[k][j]
      <4>1. \A k \in Vec, j \in Index : SumOf(As, er)[k][j] = As[k][j] + er[k][j]
        BY <1>1, <1>4, SumOfType
      <4> QED
        BY <1>4, <4>1
    <3>2. \A z : Congruent(z, z, q)
      BY CongruentEquivalence
    <3> QED
      BY <3>1, <3>2
  <2>3. Congruent(rp, ra + re, q)
    BY <1>1, <1>2, <1>4, <2>2, InnerSplit
  <2>4. Congruent(pr, rp, q) /\ Congruent(ra, asr, q) /\ Congruent(re, err, q)
    BY <1>1, <1>2, <1>4, InnerCommutes DEF Alike
  <2> HIDE DEF rp, ra, re, pr, asr, err
  <2>5. Congruent(ra + re, asr + err, q)
    BY <1>1, <1>14, <2>1, <2>4, CongruentAdd
  <2> QED
    BY <2>3, <2>4, <2>5, CongruentEquivalence
<1>16. Congruent(sb, sd + se, q)
  <2>1. \A k \in Vec : \A j \in Index : Congruent(eb[k][j], Dr[k][j] + e1[k][j], q)
    <3>1. \A k \in Vec : \A j \in Index : Congruent(eb[k][j], bt[k][j], q)
      BY <1>7 DEF Alike
    <3> HIDE DEF bt
    <3> QED
      BY <1>12, <3>1
  <2> QED
    BY <1>1, <1>2, <1>11, <1>13, <2>1, InnerSplit
<1>17. Congruent(asr, sd, q)
  BY <1>9 DEF Alike
<1>18. Congruent(ev, (pr + e2) + f, q)
  BY <1>7
<1> HIDE DEF pr, asr, err, sb, sd, se
<1>19. Congruent(ev - sb, ((err - se) + e2) + f, q)
  <2> DEFINE u == e2 + f  t1 == asr + err  t2 == sd + se  t3 == t1 + u  t4 == sd + err  t5 == t4 + u
  <2>1. u \in Int /\ t1 \in Int /\ t2 \in Int /\ t3 \in Int /\ t4 \in Int /\ t5 \in Int
    BY <1>2, <1>5, <1>14
  <2>2. Congruent(u, u, q) /\ Congruent(err, err, q)
    BY CongruentEquivalence
  <2>3. (pr + e2) + f = pr + u
    BY <1>2, <1>5, <1>14
  <2>4. t5 - t2 = ((err - se) + e2) + f
    BY <1>2, <1>5, <1>14
  <2>5. Congruent(pr, t1, q) /\ Congruent(sb, t2, q)
    BY <1>15, <1>16
  <2> HIDE DEF u, t2
  <2>6. Congruent(t1, t4, q)
    BY <1>1, <1>14, <1>17, <2>2, CongruentAdd
  <2> HIDE DEF t1, t4
  <2>7. Congruent(pr + u, t3, q) /\ Congruent(t3, t5, q)
    BY <1>1, <1>14, <2>1, <2>2, <2>5, <2>6, CongruentAdd
  <2> HIDE DEF t3, t5
  <2>8. Congruent(ev, t5, q)
    BY <1>18, <2>3, <2>7, CongruentEquivalence
  <2>9. Congruent(ev - sb, t5 - t2, q)
    BY <1>1, <1>6, <1>14, <2>1, <2>5, <2>8, CongruentSub
  <2> QED
    BY <2>4, <2>9
<1>20. Designed(d, coins)[i] = (err - se) + e2 /\ Remainder(d, e)[i] = ev - sb
  BY <1>8, <1>10 DEF err, se, sb
<1>21. (err - se) + e2 \in Int
  BY <1>2, <1>14
<1> QED
  BY <1>19, <1>20, <1>21 DEF f

(* Rounded, it is off by at most Slack.                                    *)
LEMMA FreshNoise ==
  ASSUME NEW d \in Draws, NEW coins, NoiseSeed(coins), NEW x \in [Index -> {0, 1}], NEW i \in Index
  PROVE  LET c == pack_ciphertext(indcpa_enc(x, indcpa_keypair(d).pk, coins))
         IN  size(centre(Noise(c, d, x)[i] - Designed(d, coins)[i])) <= Slack(d)
<1>1. PICK C : Drawn(d, C)
  BY MatrixDrawn
<1> DEFINE e == indcpa_enc(x, indcpa_keypair(d).pk, coins)  c == pack_ciphertext(e)  y == unpack_ciphertext(c)
<1>2. Sealed(e, C, d, coins, x)
  BY <1>1, Encryption
<1>3. e.b \in [Vec -> Reduceds] /\ e.v \in Reduceds
  BY <1>2 DEF Sealed
<1> HIDE DEF e
<1>4. y.b \in [Vec -> Reduceds] /\ y.v \in Reduceds
  BY <1>3, RoundingErrors
<1>5. PICK g \in Int : /\ -Slack(d) <= g /\ g <= Slack(d)
                       /\ Congruent(Remainder(d, y)[i], Remainder(d, e)[i] + g, q)
  BY <1>3, Compressing
<1> DEFINE n == Noise(c, d, x)[i]  t == Designed(d, coins)[i]  f == frombit(x[i])
           w == Remainder(d, y)[i]  w2 == Remainder(d, e)[i]
<1>6. n \in Int /\ w \in Int /\ f \in Int /\ Congruent(n, w - f, q)
  BY <1>4, NoiseIs
<1>7. t \in Int /\ Congruent(w2, t + f, q)
  BY <1>1, <1>2, DesignedIs
<1>8. w2 \in Int /\ Congruent(w, w2 + g, q) /\ q \in Nat \ {0} /\ Slack(d) \in Int
  BY <1>3, <1>5, RemainderType, SlackType, Widths
<1> HIDE DEF n, t, f, w, w2, c, y
<1>9. Congruent(n - t, g, q)
  <2> DEFINE t1 == t + f  t2 == t1 + g  t3 == w2 + g  t4 == t2 - f  t5 == w - f
  <2>1. t1 \in Int /\ t2 \in Int /\ t3 \in Int /\ t4 \in Int /\ t5 \in Int /\ Congruent(w2, t1, q) /\ Congruent(w, t3, q)
        /\ Congruent(n, t5, q)
    BY <1>5, <1>6, <1>7, <1>8
  <2>2. t4 - t = g
    BY <1>5, <1>6, <1>7
  <2>3. Congruent(g, g, q) /\ Congruent(f, f, q) /\ Congruent(t, t, q)
    BY CongruentEquivalence
  <2> HIDE DEF t1
  <2>4. Congruent(t3, t2, q)
    BY <1>5, <1>8, <2>1, <2>3, CongruentAdd
  <2> HIDE DEF t2, t3
  <2>5. Congruent(w, t2, q)
    BY <2>1, <2>4, CongruentEquivalence
  <2>6. Congruent(t5, t4, q)
    BY <1>6, <1>8, <2>1, <2>3, <2>5, CongruentSub
  <2> HIDE DEF t4, t5
  <2>7. Congruent(n, t4, q)
    BY <2>1, <2>6, CongruentEquivalence
  <2>8. Congruent(n - t, t4 - t, q)
    BY <1>6, <1>7, <1>8, <2>1, <2>3, <2>7, CongruentSub
  <2> QED
    BY <2>2, <2>8
<1>10. n - t \in Int
  BY <1>6, <1>7
<1>11. size(centre(n - t)) <= size(g)
  BY <1>5, <1>9, <1>10, CentreLeast
<1>12. size(g) <= Slack(d) /\ size(g) \in Int
  <2>1. g <= Slack(d) /\ -g <= Slack(d)
    BY <1>5, <1>8
  <2> QED
    BY <1>5, <1>8, <2>1, Size
<1>13. size(centre(n - t)) \in Int
  BY <1>10, Centre, Size
<1>14. size(centre(n - t)) <= Slack(d)
  BY <1>8, <1>11, <1>12, <1>13
<1> QED
  BY <1>14 DEF n, t, c, e

----------------------------------------------------------------------------

(***************************************************************************)
(* Kyber: the sum and the product of main.                                 *)
(***************************************************************************)

(* The sum of two ciphertexts.                                             *)
LEMMA AddIs ==
  ASSUME NEW c1, NEW c2,
         unpack_ciphertext(c1).b \in [Vec -> Reduceds], unpack_ciphertext(c1).v \in Reduceds,
         unpack_ciphertext(c2).b \in [Vec -> Reduceds], unpack_ciphertext(c2).v \in Reduceds
  PROVE  LET x == unpack_ciphertext(c1)
             y == unpack_ciphertext(c2)
             z == add(c1, c2)
         IN  /\ z.b \in [Vec -> Reduceds] /\ z.v \in Reduceds
             /\ \A k \in Vec : \A i \in Index : Congruent(z.b[k][i], x.b[k][i] + y.b[k][i], q)
             /\ \A i \in Index : Congruent(z.v[i], x.v[i] + y.v[i], q)
<1> DEFINE x == unpack_ciphertext(c1)  y == unpack_ciphertext(c2)
           xb == x.b  yb == y.b  xv == x.v  yv == y.v
           zb == polyvec_reduce[polyvec_add[xb][yb]]  zv == poly_reduce[poly_add[xv][yv]]
<1>1. xb \in [Vec -> Reduceds] /\ yb \in [Vec -> Reduceds] /\ xv \in Reduceds /\ yv \in Reduceds
  OBVIOUS
<1>2. add(c1, c2).b = zb /\ add(c1, c2).v = zv
  BY DEF add
<1> HIDE DEF x, y, xb, yb, xv, yv
<1>3. ASSUME NEW a \in Reduceds, NEW b \in Reduceds
      PROVE  /\ poly_add[a][b] \in Poly /\ poly_reduce[poly_add[a][b]] \in Reduceds
             /\ \A i \in Index : Congruent(poly_reduce[poly_add[a][b]][i], a[i] + b[i], q)
  <2> DEFINE s1 == poly_add[a][b]  m1 == q  w == [i \in Index |-> a[i] + b[i]]
  <2>1. a \in Poly /\ b \in Poly /\ Within(a, m1) /\ Within(b, q) /\ a \in [Index -> Int] /\ b \in [Index -> Int]
        /\ Alike(a, a) /\ Alike(b, b)
    BY ReducedType, AlikeEquivalence
  <2>2. m1 \in Nat /\ m1 <= 2 * q
    BY Widths
  <2> HIDE DEF m1
  <2>3. s1 \in Poly /\ Alike(s1, w)
    BY <2>1, <2>2, AddSmall
  <2>4. \A i \in Index : w[i] = a[i] + b[i]
    OBVIOUS
  <2> HIDE DEF s1, w
  <2>5. poly_reduce[s1] \in Reduceds /\ Alike(poly_reduce[s1], w)
    BY <2>3, ReduceAlike
  <2>6. s1 \in Poly /\ poly_reduce[s1] \in Reduceds
        /\ \A i \in Index : Congruent(poly_reduce[s1][i], a[i] + b[i], q)
    BY <2>3, <2>4, <2>5 DEF Alike
  <2> QED
    BY <2>6 DEF s1
<1>4. zv \in Reduceds /\ \A i \in Index : Congruent(zv[i], xv[i] + yv[i], q)
  BY <1>1, <1>3
<1>5. \A k \in Vec : /\ poly_add[xb[k]][yb[k]] \in Poly
                     /\ poly_reduce[poly_add[xb[k]][yb[k]]] \in Reduceds
                     /\ \A i \in Index : Congruent(poly_reduce[poly_add[xb[k]][yb[k]]][i], xb[k][i] + yb[k][i], q)
  BY <1>1, <1>3
<1>6. zb = [k \in Vec |-> poly_reduce[poly_add[xb[k]][yb[k]]]]
  <2> DEFINE s1 == polyvec_add[xb][yb]
  <2>1. xb \in Polyvec /\ yb \in Polyvec
    BY <1>1, ReducedType DEF Polyvec
  <2>2. s1 = [k \in Vec |-> poly_add[xb[k]][yb[k]]]
    BY <2>1 DEF polyvec_add
  <2>3. s1 \in Polyvec
    BY <1>5, <2>2 DEF Polyvec
  <2> HIDE DEF s1
  <2>4. polyvec_reduce[s1] = [k \in Vec |-> poly_reduce[s1[k]]]
    BY <2>3 DEF polyvec_reduce
  <2> QED
    BY <2>2, <2>4 DEF s1
<1> HIDE DEF zb, zv
<1>7. zb \in [Vec -> Reduceds] /\ \A k \in Vec : \A i \in Index : Congruent(zb[k][i], xb[k][i] + yb[k][i], q)
  BY <1>5, <1>6
<1> QED
  BY <1>2, <1>4, <1>7 DEF x, y, xb, yb, xv, yv

(* What it decrypts to.                                                    *)
LEMMA SumReads ==
  ASSUME NEW d \in Draws, NEW c1, NEW c2,
         unpack_ciphertext(c1).b \in [Vec -> Reduceds], unpack_ciphertext(c1).v \in Reduceds,
         unpack_ciphertext(c2).b \in [Vec -> Reduceds], unpack_ciphertext(c2).v \in Reduceds,
         NEW x1 \in [Index -> {0, 1}], NEW x2 \in [Index -> {0, 1}], NEW i \in Index,
         4 * (size(Noise(c1, d, x1)[i] + Noise(c2, d, x2)[i]) + 1 + Slack(d)) < q
  PROVE  indcpa_dec(pack_ciphertext(add(c1, c2)), indcpa_keypair(d).sk)[i] = (x1[i] + x2[i]) % 2
<1> DEFINE e == add(c1, c2)  c3 == pack_ciphertext(e)  y1 == unpack_ciphertext(c1)  y2 == unpack_ciphertext(c2)
           y3 == unpack_ciphertext(c3)
           n1 == Noise(c1, d, x1)[i]  n2 == Noise(c2, d, x2)[i]  f1 == frombit(x1[i])  f2 == frombit(x2[i])
           w1 == Remainder(d, y1)[i]  w2 == Remainder(d, y2)[i]  w == Remainder(d, e)[i]  w3 == Remainder(d, y3)[i]
<1>1. /\ y1.b \in [Vec -> Reduceds] /\ y1.v \in Reduceds
      /\ y2.b \in [Vec -> Reduceds] /\ y2.v \in Reduceds
  OBVIOUS
<1>2. /\ e.b \in [Vec -> Reduceds] /\ e.v \in Reduceds
      /\ \A k \in Vec : \A j \in Index : Congruent(e.b[k][j], y1.b[k][j] + y2.b[k][j], q)
      /\ \A j \in Index : Congruent(e.v[j], y1.v[j] + y2.v[j], q)
  BY AddIs
<1>3. n1 \in Int /\ f1 \in Int /\ w1 \in Int /\ Congruent(n1, w1 - f1, q)
  BY NoiseIs
<1>4. n2 \in Int /\ f2 \in Int /\ w2 \in Int /\ Congruent(n2, w2 - f2, q)
  BY NoiseIs
<1>5. 4 * (size(n1 + n2) + 1 + Slack(d)) < q
  OBVIOUS
<1> HIDE DEF e, y1, y2, n1, n2, f1, f2
<1>6. y3.b \in [Vec -> Reduceds] /\ y3.v \in Reduceds
  BY <1>2, RoundingErrors
<1>7. PICK g \in Int : /\ -Slack(d) <= g /\ g <= Slack(d)
                       /\ Congruent(w3, w + g, q)
  BY <1>2, Compressing
<1>8. Congruent(w, w1 + w2, q) /\ w \in Int
  <2>1. /\ y1.b \in [Vec -> [Index -> Int]] /\ y1.v \in [Index -> Int]
        /\ w1 = y1.v[i] - inner(secret(d), y1.b)[i]
    BY <1>1, RemainderType
  <2>2. /\ y2.b \in [Vec -> [Index -> Int]] /\ y2.v \in [Index -> Int]
        /\ w2 = y2.v[i] - inner(secret(d), y2.b)[i]
    BY <1>1, RemainderType
  <2>3. /\ e.b \in [Vec -> [Index -> Int]] /\ e.v \in [Index -> Int]
        /\ w = e.v[i] - inner(secret(d), e.b)[i] /\ w \in Int
    BY <1>2, RemainderType
  <2> HIDE DEF w, w1, w2
  <2>4. Congruent(e.v[i] - inner(secret(d), e.b)[i],
                   (y1.v[i] - inner(secret(d), y1.b)[i]) + (y2.v[i] - inner(secret(d), y2.b)[i]), q)
    BY <1>2, <2>1, <2>2, <2>3, RemainderSum
  <2> QED
    BY <2>1, <2>2, <2>3, <2>4
<1> DEFINE b3 == y3.b  v3 == y3.v  o == indcpa_dec(c3, indcpa_keypair(d).sk)
<1>9. PICK a \in Reduceds :
           /\ o = poly_tomsg(a)
           /\ \A j \in Index : Congruent(a[j], v3[j] - inner(secret(d), b3)[j], q)
  <2> DEFINE z == y3
  <2>1. z = unpack_ciphertext(c3) /\ z.b \in [Vec -> Reduceds] /\ z.v \in Reduceds
    BY <1>6
  <2> HIDE DEF y3, c3, o
  <2>2. \E a \in Reduceds :
           /\ indcpa_dec(c3, indcpa_keypair(d).sk) = poly_tomsg(a)
           /\ \A j \in Index : Congruent(a[j], z.v[j] - inner(secret(d), z.b)[j], q)
    BY <2>1, Decryption
  <2> QED
    BY <2>2 DEF o
<1>10. w3 \in Int /\ w3 = v3[i] - inner(secret(d), b3)[i]
  BY <1>6, RemainderType
<1>11. o[i] = tobit(a[i])
  BY <1>9 DEF poly_tomsg
<1>12. a[i] \in 0..q /\ Congruent(a[i], w3, q)
  BY <1>9, <1>10 DEF Reduceds
<1> HIDE DEF w, w1, w2, w3, b3, v3, y3, c3, o
<1> DEFINE n == (n1 + n2) + g  ai == a[i]  x == x1[i]  y == x2[i]
<1>13. q \in Nat \ {0} /\ Slack(d) \in Int
  BY SlackType, Widths
<1>14. Congruent(ai, f1 + f2 + n, q)
  <2> DEFINE t1 == w1 - f1  t2 == w2 - f2  t == w1 + w2  u == t + g  u2 == w + g
             m2 == n1 + n2  f == f1 + f2  p == t1 + t2  l1 == m2 + f  l2 == p + f
  <2>1. /\ t1 \in Int /\ t2 \in Int /\ t \in Int /\ u \in Int /\ u2 \in Int
        /\ m2 \in Int /\ f \in Int /\ p \in Int /\ l1 \in Int /\ l2 \in Int
    BY <1>3, <1>4, <1>7, <1>8
  <2>2. Congruent(n1, t1, q) /\ Congruent(n2, t2, q) /\ Congruent(w, t, q) /\ Congruent(w3, u2, q) /\ Congruent(ai, w3, q)
    BY <1>3, <1>4, <1>7, <1>8, <1>12
  <2>3. Congruent(g, g, q) /\ Congruent(f, f, q)
    BY CongruentEquivalence
  <2>4. l2 = t /\ l1 + g = (f1 + f2) + ((n1 + n2) + g)
    BY <1>3, <1>4, <1>7
  <2> HIDE DEF t1, t2, t, f
  <2>5. Congruent(m2, p, q)
    BY <1>3, <1>4, <1>13, <2>1, <2>2, CongruentAdd
  <2>6. Congruent(u2, u, q)
    BY <1>7, <1>8, <1>13, <2>1, <2>2, <2>3, CongruentAdd
  <2> HIDE DEF m2, p, u2
  <2>7. Congruent(l1, l2, q)
    BY <1>13, <2>1, <2>3, <2>5, CongruentAdd
  <2>8. Congruent(ai, u, q)
    BY <2>2, <2>6, CongruentEquivalence
  <2> HIDE DEF l1, l2
  <2>9. Congruent(l1, t, q)
    BY <2>4, <2>7
  <2>10. Congruent(l1 + g, u, q)
    BY <1>7, <1>13, <2>1, <2>3, <2>9, CongruentAdd
  <2>11. Congruent(ai, l1 + g, q)
    BY <2>8, <2>10, CongruentEquivalence
  <2> QED
    BY <2>4, <2>11
<1>15. 4 * (size(n) + 1) < q
  <2> DEFINE m2 == n1 + n2  z == size(m2)
  <2>1. m2 \in Int
    BY <1>3, <1>4
  <2> HIDE DEF m2
  <2>2. z \in Nat /\ m2 <= z /\ -m2 <= z
    BY <2>1, Size
  <2>3. n = m2 + g /\ 4 * (z + 1 + Slack(d)) < q
    BY <1>5 DEF m2
  <2> HIDE DEF z, n
  <2> DEFINE B == z + Slack(d)
  <2>4. n \in Int /\ B \in Int /\ n <= B /\ -n <= B /\ 4 * (B + 1) < q
    BY <1>7, <1>13, <2>1, <2>2, <2>3
  <2> HIDE DEF B
  <2>5. size(n) \in Nat /\ size(n) <= B
    BY <2>4, Size
  <2> QED
    BY <1>13, <2>4, <2>5
<1>16. ai \in 0..q /\ x \in {0, 1} /\ y \in {0, 1} /\ n \in Int
  BY <1>3, <1>4, <1>7, <1>12
<1>17. f1 = frombit(x) /\ f2 = frombit(y) /\ o[i] = tobit(ai)
  BY <1>11 DEF f1, f2
<1> HIDE DEF n, ai, x, y
<1>18. tobit(ai) = (x + y) % 2
  <2>1. Congruent(ai, frombit(x) + frombit(y) + n, q)
    BY <1>14, <1>17
  <2> QED
    BY <1>15, <1>16, <2>1, TobitReads
<1>19. o[i] = (x + y) % 2
  BY <1>17, <1>18
<1> QED
  BY <1>19 DEF o, c3, e, x, y

(* The product of randomize_poly.                                          *)
LEMMA RandomPoly ==
  /\ random_poly \in [Index -> Int]
  /\ poly_ntt[random_poly] \in Reduceds /\ Alike(poly_ntt[random_poly], Image(random_poly))
<1>1. q \in Nat \ {0} /\ \A i \in Index : random_poly[i] \in {0, 1}
  BY Widths DEF random_poly
<1>2. random_poly \in [Index -> Int]
  BY DEF random_poly
<1>3. Within(random_poly, q)
  BY <1>1 DEF Within
<1> QED
  BY <1>2, <1>3, NttImage

(* A reduced polynomial times X^(N-1), through the transforms.             *)
LEMMA Rotated ==
  ASSUME NEW x \in Reduceds
  PROVE  LET z == invntt[poly_reduce[poly_basemul[poly_ntt[x]][poly_ntt[random_poly]]]]
         IN  /\ poly_basemul[poly_ntt[x]][poly_ntt[random_poly]] \in Poly
             /\ poly_reduce[poly_basemul[poly_ntt[x]][poly_ntt[random_poly]]] \in Poly
             /\ z \in [Index -> Int] /\ Within(z, q) /\ Alike(z, product(random_poly, x))
<1> DEFINE a == poly_ntt[x]  r == poly_ntt[random_poly]  s1 == random_poly
           z == invntt[poly_reduce[poly_basemul[a][r]]]
<1>1. x \in [Index -> Int] /\ Within(x, q)
  BY ReducedType
<1>2. a \in Reduceds /\ a \in Poly /\ Alike(a, Image(x))
  BY <1>1, NttImage, ReducedType
<1>3. s1 \in [Index -> Int] /\ r \in Reduceds /\ Alike(r, Image(s1))
  BY RandomPoly
<1> HIDE DEF a, r, s1
<1>4. z \in Poly /\ Within(z, q) /\ Alike(z, product(x, s1))
  BY <1>1, <1>2, <1>3, ProductBack
<1>5. poly_basemul[a][r] \in Poly
  BY <1>2, <1>3, Basemul
<1>6. poly_reduce[poly_basemul[a][r]] \in Poly
  BY <1>5, PolyReduce, ReducedType
<1> HIDE DEF z
<1>7. Alike(product(x, s1), product(s1, x))
  BY <1>1, <1>3, ProductCommutes
<1>8. Alike(z, product(s1, x))
  BY <1>4, <1>7, AlikeEquivalence
<1> QED
  BY <1>4, <1>5, <1>6, <1>8, PolyIs DEF z, s1, a, r

(* What randomize_poly packs is congruent to the product.                  *)
LEMMA RandomizeIs ==
  ASSUME NEW c, unpack_ciphertext(c).b \in [Vec -> Reduceds], unpack_ciphertext(c).v \in Reduceds
  PROVE  LET x == unpack_ciphertext(c)
             z == randomize_poly(c)
         IN  /\ z.v \in [Index -> Int] /\ Within(z.v, q) /\ Alike(z.v, product(random_poly, x.v))
             /\ z.b \in [Vec -> [Index -> Int]]
             /\ \A k \in Vec : Within(z.b[k], q) /\ Alike(z.b[k], product(random_poly, x.b[k]))
<1> DEFINE x == unpack_ciphertext(c)  xb == x.b  xv == x.v  r == poly_ntt[random_poly]
           bn == polyvec_ntt[xb]
           prodOf(k) == poly_basemul[poly_ntt[xb[k]]][r]
           b_res == [k \in Vec |-> poly_basemul[bn[k]][r]]
           zb == polyvec_invntt[polyvec_reduce[b_res]]
           zv == invntt[poly_reduce[poly_basemul[poly_ntt[xv]][r]]]
<1>1. xb \in [Vec -> Reduceds] /\ xv \in Reduceds
  OBVIOUS
<1>2. randomize_poly(c).b = zb /\ randomize_poly(c).v = zv
  BY DEF randomize_poly
<1> HIDE DEF x, xb, xv
<1>3. zv \in [Index -> Int] /\ Within(zv, q) /\ Alike(zv, product(random_poly, xv))
  BY <1>1, Rotated
<1>4. ASSUME NEW k \in Vec
      PROVE  /\ prodOf(k) \in Poly /\ poly_reduce[prodOf(k)] \in Poly
             /\ invntt[poly_reduce[prodOf(k)]] \in [Index -> Int]
             /\ Within(invntt[poly_reduce[prodOf(k)]], q)
             /\ Alike(invntt[poly_reduce[prodOf(k)]], product(random_poly, xb[k]))
  <2> DEFINE a == xb[k]
  <2>1. a \in Reduceds
    BY <1>1
  <2> HIDE DEF a
  <2>2. LET z == invntt[poly_reduce[poly_basemul[poly_ntt[a]][poly_ntt[random_poly]]]]
         IN  /\ poly_basemul[poly_ntt[a]][poly_ntt[random_poly]] \in Poly
             /\ poly_reduce[poly_basemul[poly_ntt[a]][poly_ntt[random_poly]]] \in Poly
             /\ z \in [Index -> Int] /\ Within(z, q) /\ Alike(z, product(random_poly, a))
    BY <2>1, Rotated
  <2> QED
    BY <2>2 DEF a
<1>5. bn = [k \in Vec |-> poly_ntt[xb[k]]]
  <2>1. xb \in Polyvec
    BY <1>1, ReducedType DEF Polyvec
  <2> QED
    BY <2>1 DEF polyvec_ntt
<1>6. b_res = [k \in Vec |-> prodOf(k)]
  BY <1>5
<1> HIDE DEF bn, prodOf, b_res, zv
<1>7. zb = [k \in Vec |-> invntt[poly_reduce[prodOf(k)]]]
  <2> DEFINE red == polyvec_reduce[b_res]
  <2>1. b_res \in Polyvec
    BY <1>4, <1>6 DEF Polyvec
  <2>2. red = [k \in Vec |-> poly_reduce[b_res[k]]]
    BY <2>1 DEF polyvec_reduce
  <2>3. red = [k \in Vec |-> poly_reduce[prodOf(k)]]
    BY <1>6, <2>2
  <2>4. red \in Polyvec
    BY <1>4, <2>3 DEF Polyvec
  <2> HIDE DEF red
  <2>5. polyvec_invntt[red] = [k \in Vec |-> invntt[red[k]]]
    BY <2>4 DEF polyvec_invntt
  <2> QED
    BY <2>3, <2>5 DEF red
<1> HIDE DEF zb
<1>8. zb \in [Vec -> [Index -> Int]] /\ \A k \in Vec : Within(zb[k], q) /\ Alike(zb[k], product(random_poly, xb[k]))
  BY <1>4, <1>7
<1> QED
  BY <1>2, <1>3, <1>8 DEF x, xb, xv

(* A coefficient that is packed while negative need not come back.         *)
LEMMA LostOnlyNegative ==
  ASSUME NEW a \in Int, NEW w \in Int, NEW y \in Int, NEW d \in Nat \ {0}, Congruent(a, w, q), -q <= a, a <= q,
         a \in 0..q => \E f \in (-Rounding(d))..Rounding(d) : f \in Int /\ Congruent(y, a + f, q)
  PROVE  centre(a - w) = 0 /\ (a >= 0 => Approximates(y, w, d))
<1>0. q \in Nat \ {0} /\ Rounding(d) \in Nat
  BY Widths, RoundingType
<1>1. centre(a - w) = 0
  <2> DEFINE z == a - w  t == w - w  o == centre(z)
  <2>1. z \in Int /\ t \in Int /\ t = 0
    OBVIOUS
  <2>2. Congruent(w, w, q)
    BY CongruentEquivalence
  <2>3. Congruent(z, t, q)
    BY <1>0, <2>2, CongruentSub
  <2> HIDE DEF z, t
  <2>4. size(o) <= size(t) /\ o \in Int
    BY <2>1, <2>3, CentreLeast, Centre
  <2>5. size(t) = 0
    BY <2>1 DEF size
  <2> HIDE DEF o
  <2>6. size(o) \in Nat /\ o <= size(o) /\ -o <= size(o)
    BY <2>4, Size
  <2>7. o = 0
    BY <2>4, <2>5, <2>6
  <2> QED
    BY <2>7 DEF o, z
<1>2. ASSUME a >= 0 PROVE Approximates(y, w, d)
  <2>1. a \in 0..q
    BY <1>0, <1>2
  <2>2. PICK f \in (-Rounding(d))..Rounding(d) : f \in Int /\ Congruent(y, a + f, q)
    BY <2>1
  <2>3. f \in Int /\ f <= Rounding(d) /\ -f <= Rounding(d) /\ Congruent(y, a + f, q)
    BY <1>0, <2>2
  <2> DEFINE u == w + f  t == u - w
  <2>4. Congruent(w, w, q) /\ Congruent(f, f, q)
    BY CongruentEquivalence
  <2>5. Congruent(a + f, u, q) /\ u \in Int
    BY <1>0, <2>3, <2>4, CongruentAdd
  <2>6. t = f
    BY <2>3
  <2> HIDE DEF u
  <2>7. Congruent(y, u, q)
    BY <2>3, <2>5, CongruentEquivalence
  <2>8. Congruent(y - w, t, q)
    BY <1>0, <2>4, <2>5, <2>7, CongruentSub
  <2>9. Congruent(y - w, f, q) /\ y - w \in Int
    BY <2>6, <2>8
  <2> DEFINE z == y - w
  <2> HIDE DEF z, t
  <2>10. z \in Int /\ Congruent(z, f, q)
    BY <2>9 DEF z
  <2>11. size(centre(z)) <= size(f)
    BY <2>3, <2>10, CentreLeast
  <2>12. size(f) <= Rounding(d) /\ size(f) \in Int
    BY <1>0, <2>3, Size
  <2>13. size(centre(z)) \in Int
    BY <2>10, Centre, Size
  <2>14. size(centre(z)) <= Rounding(d)
    BY <1>0, <2>11, <2>12, <2>13
  <2> QED
    BY <2>14 DEF z, Approximates
<1> QED
  BY <1>1, <1>2

(* What comes back of the product that was packed.                         *)
LEMMA RotationPacked ==
  ASSUME NEW c, unpack_ciphertext(c).b \in [Vec -> Reduceds], unpack_ciphertext(c).v \in Reduceds, NEW i \in Index
  PROVE  LET z == randomize_poly(c)
             x == unpack_ciphertext(c)
             y == unpack_ciphertext(pack_ciphertext(z))
             v == product(random_poly, x.v)
             b == [k \in Vec |-> product(random_poly, x.b[k])]
         IN  /\ centre(z.v[i] - v[i]) = 0
             /\ z.v[i] >= 0 => Approximates(y.v[i], v[i], DV)
             /\ \A k \in Vec : /\ centre(z.b[k][i] - b[k][i]) = 0
                               /\ z.b[k][i] >= 0 => Approximates(y.b[k][i], b[k][i], DU)
<1> DEFINE z == randomize_poly(c)  x == unpack_ciphertext(c)  y == unpack_ciphertext(pack_ciphertext(z))
           v == product(random_poly, x.v)
           b == [k \in Vec |-> product(random_poly, x.b[k])]
<1>1. /\ z.v \in [Index -> Int] /\ Within(z.v, q) /\ Alike(z.v, v)
      /\ z.b \in [Vec -> [Index -> Int]]
      /\ \A k \in Vec : Within(z.b[k], q) /\ Alike(z.b[k], b[k])
  BY RandomizeIs
<1>2. x.b \in [Vec -> [Index -> Int]] /\ x.v \in [Index -> Int]
  BY ReducedType
<1>3. v \in [Index -> Int]
  <2> DEFINE xv == x.v
  <2>1. xv \in [Index -> Int]
    BY <1>2
  <2> HIDE DEF x, xv
  <2>2. product(random_poly, xv) \in [Index -> Int]
    BY <2>1, RandomPoly, ProductIs
  <2> QED
    BY <2>2 DEF xv
<1>4. \A k \in Vec : b[k] \in [Index -> Int]
  <2> SUFFICES ASSUME NEW k \in Vec PROVE b[k] \in [Index -> Int]
    OBVIOUS
  <2> DEFINE xk == x.b[k]
  <2>1. xk \in [Index -> Int]
    BY <1>2
  <2> HIDE DEF x, xk
  <2>2. product(random_poly, xk) \in [Index -> Int]
    BY <2>1, RandomPoly, ProductIs
  <2> QED
    BY <2>2 DEF xk
<1> HIDE DEF z, x, b, v
<1>5. /\ y.v \in Reduceds /\ Rounded(y.v, z.v, DV)
      /\ y.b \in [Vec -> Reduceds] /\ \A k \in Vec : Rounded(y.b[k], z.b[k], DU)
  BY <1>1, Unpacked
<1>6. y.v \in [Index -> Int] /\ y.b \in [Vec -> [Index -> Int]]
  BY <1>5, ReducedType
<1>7. DU \in Nat \ {0} /\ DV \in Nat \ {0}
  BY RingAssumption
<1> HIDE DEF y
<1>8. centre(z.v[i] - v[i]) = 0 /\ (z.v[i] >= 0 => Approximates(y.v[i], v[i], DV))
  <2> DEFINE a == z.v[i]  w == v[i]  u == y.v[i]
  <2>1. a \in Int /\ w \in Int /\ u \in Int /\ Congruent(a, w, q) /\ -q <= a /\ a <= q
    BY <1>1, <1>3, <1>6 DEF Within, Alike
  <2>2. a \in 0..q => \E f \in (-Rounding(DV))..Rounding(DV) : f \in Int /\ Congruent(u, a + f, q)
    BY <1>5 DEF Rounded
  <2> HIDE DEF a, w, u
  <2>3. centre(a - w) = 0 /\ (a >= 0 => Approximates(u, w, DV))
    BY <1>7, <2>1, <2>2, LostOnlyNegative
  <2> QED
    BY <2>3 DEF a, w, u
<1>9. ASSUME NEW k \in Vec
      PROVE  centre(z.b[k][i] - b[k][i]) = 0 /\ (z.b[k][i] >= 0 => Approximates(y.b[k][i], b[k][i], DU))
  <2> DEFINE a == z.b[k][i]  w == b[k][i]  u == y.b[k][i]
  <2>1. a \in Int /\ w \in Int /\ u \in Int /\ Congruent(a, w, q) /\ -q <= a /\ a <= q
    BY <1>1, <1>4, <1>6 DEF Within, Alike
  <2>2. a \in 0..q => \E f \in (-Rounding(DU))..Rounding(DU) : f \in Int /\ Congruent(u, a + f, q)
    BY <1>5 DEF Rounded
  <2> HIDE DEF a, w, u
  <2>3. centre(a - w) = 0 /\ (a >= 0 => Approximates(u, w, DU))
    BY <1>7, <2>1, <2>2, LostOnlyNegative
  <2> QED
    BY <2>3 DEF a, w, u
<1> QED
  BY <1>8, <1>9 DEF z, x, y, b, v

(***************************************************************************)
(* The product computed through the transforms, as randomize_poly computes *)
(* it, is the product of polynomials modulo X^N + 1: for coefficients      *)
(* smaller than q, no short overflows on the way.                          *)
(***************************************************************************)
THEOREM TransformMultiplies ==
  ASSUME NEW a \in [Index -> (-q)..q], NEW b \in [Index -> (-q)..q], NEW i \in Index
  PROVE  centre(invntt[poly_reduce[poly_basemul[poly_ntt[a]][poly_ntt[b]]]][i]
                  - product(a, b)[i]) = 0
<1> DEFINE x == poly_ntt[a]  y == poly_ntt[b]
           z == invntt[poly_reduce[poly_basemul[x][y]]]
           zi == z[i]  w == product(a, b)[i]  d == DU  c == zi + q + 1
<1>1. /\ a \in [Index -> Int] /\ Within(a, q)
      /\ b \in [Index -> Int] /\ Within(b, q)
  BY Widths DEF Within
<1>2. /\ x \in Poly /\ Alike(x, Image(a))
      /\ y \in Reduceds /\ Alike(y, Image(b))
  BY <1>1, NttImage, ReducedType
<1> HIDE DEF x, y
<1>3. z \in Poly /\ Within(z, q) /\ Alike(z, product(a, b))
  BY <1>1, <1>2, ProductBack
<1> HIDE DEF z
<1>4. zi \in Int /\ -q <= zi /\ zi <= q
  BY <1>3, PolyIs DEF Within
<1>5. w \in Int
  BY <1>1, ProductIs
<1>6. Congruent(zi, w, q)
  BY <1>3 DEF Alike
<1> HIDE DEF zi, w
<1> DEFINE v == zi - w  t == w - w  o == centre(v)
<1>7. v \in Int /\ t \in Int /\ t = 0 /\ q \in Nat \ {0}
  BY <1>4, <1>5, Widths
<1>8. Congruent(v, t, q)
  BY <1>4, <1>5, <1>6, <1>7, CongruentSub, CongruentEquivalence
<1> HIDE DEF v, t
<1>9. size(o) <= size(t) /\ o \in Int
  BY <1>7, <1>8, CentreLeast, Centre
<1>10. size(t) = 0
  BY <1>7 DEF size
<1> HIDE DEF o
<1>11. size(o) \in Nat /\ o <= size(o) /\ -o <= size(o)
  BY <1>9, Size
<1>12. o = 0
  BY <1>9, <1>10, <1>11
<1> QED
  BY <1>12 DEF o, v, zi, w, z, x, y

(***************************************************************************)
(* A coefficient in 0..q, compressed to d bits and decompressed, comes     *)
(* back within the rounding of d bits, around the circle modulo q.         *)
(***************************************************************************)
THEOREM CompressionApproximates ==
  ASSUME NEW d \in Nat \ {0}, two_to[d] <= R, NEW a \in 0..q
  PROVE  Approximates(decompress(compress(a, d), d), a, d)
<1> DEFINE t == compress(a, d)  y == decompress(t, d)
<1>1. /\ t \in 0..(two_to[d] - 1)
      /\ \E f \in (-Rounding(d))..Rounding(d) : f \in Int /\ Congruent(y, a + f, q)
  BY CompressRounds
<1> HIDE DEF t
<1>2. y \in Int
  BY <1>1, DecompressRange, Widths
<1> HIDE DEF y
<1>3. a \in Int /\ -q <= a /\ a <= q /\ Congruent(a, a, q)
  BY Widths, CongruentEquivalence
<1>4. \E f \in (-Rounding(d))..Rounding(d) : f \in Int /\ Congruent(y, a + f, q)
  BY <1>1 DEF y
<1>5. Approximates(y, a, d)
  BY <1>2, <1>3, <1>4, LostOnlyNegative
<1> QED
  BY <1>5 DEF y, t

----------------------------------------------------------------------------

(***************************************************************************)
(* Kyber: the theorems about main and the key encapsulation.               *)
(***************************************************************************)

(* A ciphertext that main packed for message x.                            *)
FreshFor(c, x) ==
  /\ x \in Messages
  /\ c = pack_ciphertext(indcpa_enc(x, keys.pk, coin))

HasKeys == testPc # "keypair" => draw \in Draws /\ keys = indcpa_keypair(draw)
HasFirst ==
  testPc \in {"enc2", "add", "randomize", "dec", "end"} => FreshFor(ctx1, msg1)
HasSecond ==
  testPc \in {"add", "randomize", "dec", "end"} => FreshFor(ctx2, msg2)
HasSum ==
  testPc \in {"randomize", "dec", "end"} => ctx3 = pack_ciphertext(add(ctx1, ctx2))
HasRotation ==
  testPc = "dec" => packed = randomize_poly(ctx3) /\ ctx4 = pack_ciphertext(packed)
HasReading ==
  testPc = "end" => msg3 = indcpa_dec(ctx3, keys.sk)

(***************************************************************************)
(* What main's variables hold: the key pair of its draw, two ciphertexts   *)
(* under the same coins, their sum, the product of the sum, what the sum   *)
(* decrypts to.                                                            *)
(***************************************************************************)
MainInv == /\ coin \in Coins
           /\ HasKeys /\ HasFirst /\ HasSecond /\ HasSum /\ HasRotation
           /\ HasReading

LEMMA MainInvariance == TestSpec => []MainInv
<1>1. TestInit => MainInv
  BY DEF TestInit, MainInv, HasKeys, HasFirst, HasSecond, HasSum, HasRotation, HasReading
<1>2. ASSUME MainInv, [TestNext]_testVars PROVE MainInv'
  <2> USE DEF MainInv, FreshFor
  <2>1. CASE Keypair
    BY <1>2, <2>1 DEF Keypair, HasKeys, HasFirst, HasSecond, HasSum, HasRotation, HasReading
  <2>2. CASE Enc1
    <3>1. /\ testPc = "enc1" /\ testPc' = "enc2" /\ msg1' \in Messages
          /\ ctx1' = pack_ciphertext(indcpa_enc(msg1', keys.pk, coin))
          /\ UNCHANGED <<draw, keys, coin>>
      BY <2>2 DEF Enc1
    <3> QED
      BY <1>2, <3>1 DEF HasKeys, HasFirst, HasSecond, HasSum, HasRotation, HasReading
  <2>3. CASE Enc2
    <3>1. /\ testPc = "enc2" /\ testPc' = "add" /\ msg2' \in Messages
          /\ ctx2' = pack_ciphertext(indcpa_enc(msg2', keys.pk, coin))
          /\ UNCHANGED <<draw, keys, coin, msg1, ctx1>>
      BY <2>3 DEF Enc2
    <3> QED
      BY <1>2, <3>1 DEF HasKeys, HasFirst, HasSecond, HasSum, HasRotation, HasReading
  <2>4. CASE Add
    <3>1. /\ testPc = "add" /\ testPc' = "randomize"
          /\ ctx3' = pack_ciphertext(add(ctx1, ctx2))
          /\ UNCHANGED <<draw, keys, coin, msg1, ctx1, msg2, ctx2>>
      BY <2>4 DEF Add
    <3> QED
      BY <1>2, <3>1 DEF HasKeys, HasFirst, HasSecond, HasSum, HasRotation, HasReading
  <2>5. CASE Randomize
    <3>1. /\ testPc = "randomize" /\ testPc' = "dec"
          /\ packed' = randomize_poly(ctx3) /\ ctx4' = pack_ciphertext(packed')
          /\ UNCHANGED <<draw, keys, coin, msg1, ctx1, msg2, ctx2, ctx3>>
      BY <2>5 DEF Randomize
    <3> QED
      BY <1>2, <3>1 DEF HasKeys, HasFirst, HasSecond, HasSum, HasRotation, HasReading
  <2>6. CASE Dec
    <3>1. /\ testPc = "dec" /\ testPc' = "end" /\ msg3' = indcpa_dec(ctx3, keys.sk)
          /\ UNCHANGED <<draw, keys, coin, msg1, ctx1, msg2, ctx2, ctx3>>
      BY <2>6 DEF Dec
    <3> QED
      BY <1>2, <3>1 DEF HasKeys, HasFirst, HasSecond, HasSum, HasRotation, HasReading
  <2>7. CASE UNCHANGED testVars
    BY <1>2, <2>7 DEF testVars, HasKeys, HasFirst, HasSecond, HasSum, HasRotation, HasReading
  <2> QED
    BY <1>2, <2>1, <2>2, <2>3, <2>4, <2>5, <2>6, <2>7 DEF TestNext
<1> QED
  BY <1>1, <1>2, PTL DEF TestSpec

(* A ciphertext made under a key of Draws, unpacked.                       *)
LEMMA Freshly ==
  ASSUME NEW d \in Draws, NEW coins, NoiseSeed(coins), NEW x \in Messages,
         NEW c, c = pack_ciphertext(indcpa_enc(x, indcpa_keypair(d).pk, coins))
  PROVE  /\ x \in [Index -> {0, 1}]
         /\ unpack_ciphertext(c).b \in [Vec -> Reduceds] /\ unpack_ciphertext(c).v \in Reduceds
<1> DEFINE e == indcpa_enc(x, indcpa_keypair(d).pk, coins)
<1>1. x \in [Index -> {0, 1}]
  BY MessagesAssumption
<1>2. PICK C : Drawn(d, C)
  BY MatrixDrawn
<1>3. Sealed(e, C, d, coins, x)
  BY <1>1, <1>2, Encryption
<1>4. c = pack_ciphertext(e)
  OBVIOUS
<1> HIDE DEF e
<1>5. e.b \in [Vec -> Reduceds] /\ e.v \in Reduceds
  BY <1>3 DEF Sealed
<1> QED
  BY <1>1, <1>4, <1>5, RoundingErrors

(***************************************************************************)
(* The noise of the ciphertexts that main makes is, up to the rounding of  *)
(* the compression, the noise of the scheme on paper, for all parameters   *)
(* that the module's assumptions allow: NoiseAsDesigned.                   *)
(***************************************************************************)
THEOREM KyberNoise == TestSpec => []NoiseAsDesigned
<1>1. MainInv => NoiseAsDesigned
  <2> SUFFICES ASSUME MainInv, testPc = "add", NEW i \in Index
               PROVE  /\ size(centre(Noise(ctx1, draw, msg1)[i] - Designed(draw, coin)[i])) <= Slack(draw)
                      /\ size(centre(Noise(ctx2, draw, msg2)[i] - Designed(draw, coin)[i])) <= Slack(draw)
    BY DEF NoiseAsDesigned
  <2>1. /\ draw \in Draws /\ NoiseSeed(coin) /\ msg1 \in Messages /\ msg2 \in Messages
        /\ ctx1 = pack_ciphertext(indcpa_enc(msg1, indcpa_keypair(draw).pk, coin))
        /\ ctx2 = pack_ciphertext(indcpa_enc(msg2, indcpa_keypair(draw).pk, coin))
    BY CoinsAssumption DEF MainInv, HasKeys, HasFirst, HasSecond, FreshFor
  <2>2. msg1 \in [Index -> {0, 1}] /\ msg2 \in [Index -> {0, 1}]
    BY <2>1, MessagesAssumption
  <2> QED
    BY <2>1, <2>2, FreshNoise
<1> QED
  BY <1>1, MainInvariance, PTL

(***************************************************************************)
(* The sum of two ciphertexts decrypts to the exclusive or of their        *)
(* messages wherever the noise is small enough: SumIsXor.                  *)
(***************************************************************************)
THEOREM KyberSum == TestSpec => []SumIsXor
<1>1. MainInv => SumIsXor
  <2> SUFFICES ASSUME MainInv, testPc = "end", NEW i \in Index,
                      4 * (size(Noise(ctx1, draw, msg1)[i] + Noise(ctx2, draw, msg2)[i])
                             + 1 + Slack(draw)) < q
               PROVE  msg3[i] = (msg1[i] + msg2[i]) % 2
    BY DEF SumIsXor
  <2>1. /\ draw \in Draws /\ NoiseSeed(coin) /\ msg1 \in Messages /\ msg2 \in Messages
        /\ ctx1 = pack_ciphertext(indcpa_enc(msg1, indcpa_keypair(draw).pk, coin))
        /\ ctx2 = pack_ciphertext(indcpa_enc(msg2, indcpa_keypair(draw).pk, coin))
        /\ msg3 = indcpa_dec(pack_ciphertext(add(ctx1, ctx2)), indcpa_keypair(draw).sk)
    BY CoinsAssumption DEF MainInv, HasKeys, HasFirst, HasSecond, HasSum, HasReading, FreshFor
  <2>2. /\ msg1 \in [Index -> {0, 1}]
        /\ unpack_ciphertext(ctx1).b \in [Vec -> Reduceds] /\ unpack_ciphertext(ctx1).v \in Reduceds
    BY <2>1, Freshly
  <2>3. /\ msg2 \in [Index -> {0, 1}]
        /\ unpack_ciphertext(ctx2).b \in [Vec -> Reduceds] /\ unpack_ciphertext(ctx2).v \in Reduceds
    BY <2>1, Freshly
  <2> QED
    BY <2>1, <2>2, <2>3, SumReads
<1> QED
  BY <1>1, MainInvariance, PTL

(***************************************************************************)
(* What the packed product of randomize_poly keeps of the product by       *)
(* X^(N-1): OnlyNegativesLost.                                             *)
(***************************************************************************)
THEOREM KyberRotation == TestSpec => []OnlyNegativesLost
<1>1. MainInv => OnlyNegativesLost
  <2> SUFFICES ASSUME MainInv, testPc = "dec" PROVE OnlyNegativesLost
    BY DEF OnlyNegativesLost
  <2>1. /\ draw \in Draws /\ NoiseSeed(coin) /\ msg1 \in Messages /\ msg2 \in Messages
        /\ ctx1 = pack_ciphertext(indcpa_enc(msg1, indcpa_keypair(draw).pk, coin))
        /\ ctx2 = pack_ciphertext(indcpa_enc(msg2, indcpa_keypair(draw).pk, coin))
        /\ ctx3 = pack_ciphertext(add(ctx1, ctx2))
        /\ packed = randomize_poly(ctx3) /\ ctx4 = pack_ciphertext(randomize_poly(ctx3))
    BY CoinsAssumption DEF MainInv, HasKeys, HasFirst, HasSecond, HasSum, HasRotation, FreshFor
  <2>2. unpack_ciphertext(ctx1).b \in [Vec -> Reduceds] /\ unpack_ciphertext(ctx1).v \in Reduceds
    BY <2>1, Freshly
  <2>3. unpack_ciphertext(ctx2).b \in [Vec -> Reduceds] /\ unpack_ciphertext(ctx2).v \in Reduceds
    BY <2>1, Freshly
  <2> DEFINE e == add(ctx1, ctx2)
  <2>4. e.b \in [Vec -> Reduceds] /\ e.v \in Reduceds
    BY <2>2, <2>3, AddIs
  <2>5. ctx3 = pack_ciphertext(e)
    BY <2>1
  <2> HIDE DEF e
  <2>6. unpack_ciphertext(ctx3).b \in [Vec -> Reduceds] /\ unpack_ciphertext(ctx3).v \in Reduceds
    BY <2>4, <2>5, RoundingErrors
  <2>7. ASSUME NEW i \in Index
        PROVE  LET z == randomize_poly(ctx3)
                   x == unpack_ciphertext(ctx3)
                   y == unpack_ciphertext(pack_ciphertext(z))
                   v == product(random_poly, x.v)
                   b == [k \in Vec |-> product(random_poly, x.b[k])]
               IN  /\ centre(z.v[i] - v[i]) = 0
                   /\ z.v[i] >= 0 => Approximates(y.v[i], v[i], DV)
                   /\ \A k \in Vec : /\ centre(z.b[k][i] - b[k][i]) = 0
                                     /\ z.b[k][i] >= 0 => Approximates(y.b[k][i], b[k][i], DU)
    BY <2>6, RotationPacked
  <2> QED
    BY <2>1, <2>7 DEF OnlyNegativesLost
<1> QED
  BY <1>1, MainInvariance, PTL

(* What a ciphertext decrypts to where its noise is small.                 *)
LEMMA NoiseReads ==
  ASSUME NEW d \in Draws, NEW c,
         unpack_ciphertext(c).b \in [Vec -> Reduceds], unpack_ciphertext(c).v \in Reduceds,
         NEW x \in [Index -> {0, 1}],
         \A i \in Index : 4 * (size(Noise(c, d, x)[i]) + 1) < q
  PROVE  indcpa_dec(c, indcpa_keypair(d).sk) = x
<1> DEFINE y == unpack_ciphertext(c)  b == y.b  v == y.v
           o == indcpa_dec(c, indcpa_keypair(d).sk)
<1>1. b \in [Vec -> Reduceds] /\ v \in Reduceds
  OBVIOUS
<1>2. PICK a \in Reduceds :
           /\ o = poly_tomsg(a)
           /\ \A i \in Index : Congruent(a[i], v[i] - inner(secret(d), b)[i], q)
  <2> DEFINE z == y
  <2>1. z = unpack_ciphertext(c) /\ z.b \in [Vec -> Reduceds] /\ z.v \in Reduceds
    OBVIOUS
  <2> HIDE DEF y, o
  <2>2. \E a \in Reduceds :
           /\ indcpa_dec(c, indcpa_keypair(d).sk) = poly_tomsg(a)
           /\ \A i \in Index : Congruent(a[i], z.v[i] - inner(secret(d), z.b)[i], q)
    BY <2>1, Decryption
  <2> QED
    BY <2>2 DEF o
<1>3. o = [i \in Index |-> tobit(a[i])]
  BY <1>2 DEF poly_tomsg
<1>4. ASSUME NEW i \in Index PROVE tobit(a[i]) = x[i]
  <2> DEFINE n == Noise(c, d, x)[i]  w == Remainder(d, y)[i]  f == frombit(x[i])
             ai == a[i]  xi == x[i]
  <2>1. n \in Int /\ w \in Int /\ f \in Int /\ Congruent(n, w - f, q)
    BY NoiseIs
  <2>2. w = v[i] - inner(secret(d), b)[i]
    BY <1>1, RemainderType
  <2>3. ai \in 0..q /\ Congruent(ai, w, q)
    BY <1>2, <2>2 DEF Reduceds
  <2>4. 4 * (size(n) + 1) < q
    OBVIOUS
  <2>5. xi \in {0, 1} /\ 0 \in {0, 1} /\ frombit(0) = 0
    <3> DEFINE half == (q + 1) \div 2
    <3>1. half \in Int
      BY Widths
    <3>2. frombit(0) = 0 * half
      BY DEF frombit
    <3> HIDE DEF half
    <3> QED
      BY <3>1, <3>2
  <2>6. f = frombit(xi)
    OBVIOUS
  <2> HIDE DEF n, w, ai, xi, f
  <2> DEFINE t == w - f  n0 == n + f  w0 == t + f
  <2>7. t \in Int /\ n0 \in Int /\ w0 = w /\ n0 = frombit(xi) + frombit(0) + n
    BY <2>1, <2>5, <2>6
  <2>8. Congruent(n, t, q) /\ Congruent(f, f, q) /\ q \in Nat \ {0}
    BY <2>1, CongruentEquivalence, Widths
  <2> HIDE DEF t
  <2>9. Congruent(n0, w0, q)
    BY <2>1, <2>7, <2>8, CongruentAdd
  <2> HIDE DEF n0, w0
  <2>10. Congruent(ai, n0, q)
    BY <2>3, <2>7, <2>9, CongruentEquivalence
  <2> DEFINE z == 0
  <2>11. z \in {0, 1} /\ Congruent(ai, frombit(xi) + frombit(z) + n, q) /\ (xi + z) % 2 = xi
    BY <2>5, <2>7, <2>10
  <2> HIDE DEF z
  <2>12. tobit(ai) = (xi + z) % 2
    BY <2>1, <2>3, <2>4, <2>5, <2>11, TobitReads
  <2> QED
    BY <2>11, <2>12 DEF ai, xi
<1>5. x = [i \in Index |-> x[i]]
  OBVIOUS
<1> HIDE DEF o
<1>6. o = x
  BY <1>3, <1>4, <1>5
<1> QED
  BY <1>6 DEF o

(* A ciphertext that was altered is not answered with the secret of the    *)
(* one that was sent, whether its own pre-key or z is taken.               *)
NoCollision ==
  \A d \in Draws, x \in Messages, z \in RejectKeys :
    LET k == indcpa_keypair(d)
        sent == Encapsulated(x, k.pk)
    IN  \A c \in Altered(sent) \ {sent} :
          LET own == Hashed(indcpa_dec(c, k.sk), k.pk)[1]
          IN  \A pre \in {own, z} :
                kdf(pre, hash_h(c)) # kdf(Hashed(x, k.pk)[1], hash_h(sent))

(***************************************************************************)
(* If the key derivation tells an altered ciphertext from the one that was *)
(* sent, both sides have the same secret exactly when it arrives as it was *)
(* sent, its noise being small: SecretsAgree.                              *)
(***************************************************************************)
THEOREM KyberSecrets == NoCollision /\ KemSpec => []SecretsAgree
<1> SUFFICES ASSUME NoCollision PROVE KemSpec => []SecretsAgree
  OBVIOUS
<1>1. KemInv => SecretsAgree
  <2> SUFFICES ASSUME KemInv, kemPc = "done" PROVE SecretsAgree
    BY DEF SecretsAgree
  <2> DEFINE d == kemDraw  k == indcpa_keypair(kemDraw)
  <2>1. /\ d \in Draws /\ m \in Messages /\ sk.z \in RejectKeys
        /\ sk.sk = k.sk /\ sk.pk = k.pk
        /\ ct = Encapsulated(m, k.pk)
        /\ ssEnc = kdf(Hashed(m, k.pk)[1], hash_h(ct))
        /\ arrived \in {ct} \cup Altered(ct)
        /\ ssDec = Decapsulated
    BY DEF KemInv, HasKey, HasText, HasArrived, HasSecret
  <2>2. ASSUME arrived = ct,
               \A i \in Index : 4 * (size(Noise(ct, d, m)[i]) + 1) < q
        PROVE  ssDec = ssEnc
    <3> DEFINE coins == Hashed(m, k.pk)[2]
    <3>1. NoiseSeed(coins)
      BY <2>1, EncapsulationAssumption DEF Hashed
    <3>2. ct = pack_ciphertext(indcpa_enc(m, indcpa_keypair(d).pk, coins))
      BY <2>1 DEF Encapsulated
    <3> HIDE DEF coins
    <3>3. /\ m \in [Index -> {0, 1}]
          /\ unpack_ciphertext(ct).b \in [Vec -> Reduceds] /\ unpack_ciphertext(ct).v \in Reduceds
      BY <2>1, <3>1, <3>2, Freshly
    <3>4. indcpa_dec(ct, indcpa_keypair(d).sk) = m
      BY <2>1, <2>2, <3>3, NoiseReads
    <3>5. Decrypted = m
      BY <2>1, <2>2, <3>4 DEF Decrypted
    <3> QED
      BY <2>1, <2>2, <3>5 DEF Decapsulated
  <2>3. ASSUME arrived # ct PROVE ssDec # ssEnc
    <3> DEFINE own == Hashed(indcpa_dec(arrived, k.sk), k.pk)[1]
    <3>1. ct = Encapsulated(m, k.pk) /\ arrived \in Altered(ct) \ {ct}
      BY <2>1, <2>3
    <3>2. \A pre \in {own, sk.z} : kdf(pre, hash_h(arrived)) # ssEnc
      BY <2>1, <3>1 DEF NoCollision
    <3>3. ssDec = kdf(own, hash_h(arrived)) \/ ssDec = kdf(sk.z, hash_h(arrived))
      BY <2>1 DEF Decapsulated, Decrypted
    <3> QED
      BY <3>2, <3>3
  <2> QED
    BY <2>2, <2>3 DEF SecretsAgree
<1> QED
  BY <1>1, KemInvariance, PTL

=============================================================================
