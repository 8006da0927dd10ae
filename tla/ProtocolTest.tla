---------------------------- MODULE ProtocolTest ----------------------------
(***************************************************************************)
(* The driver (src/ProtocolTest.cpp): it generates the keys of the five    *)
(* testers, then repeatedly draws two numbers, records whether they are    *)
(* equal, and runs the five tests on them one after the other.  A scheme's *)
(* lists and count hold what it accepted.                                  *)
(*                                                                         *)
(* A call of equalityTest is one step here.  It answers what the module of *)
(* its scheme shows for the key, the numbers and what both parties drew.   *)
(* The degenerate keys and draws that the schemes do not refuse are among  *)
(* them: they make Paillier, GM and NS reject equal numbers, and Paillier  *)
(* and OU accept different ones.                                           *)
(***************************************************************************)
EXTENDS Integers, Sequences, FiniteSets, SequencesExt

CONSTANTS
  Numbers,          \* what dist10 may draw
  Iterations,       \* the bound of the loop, 30000
  Keys,             \* per scheme, the keys its generation may return
  Scalars           \* per scheme and plaintext modulus, the scalars of Bob

Schemes == <<"gm", "paillier", "ece", "ou", "ns">>
Blinding == {"paillier", "ece", "ou", "ns"}
TwoLists == {"paillier", "ou", "ns"}       \* the schemes with lists A and B

(* What matters of a key: its plaintext modulus m, and whether it is       *)
(* sound.  A sound key of GM, OU and NS has an invertible g, a sound key   *)
(* of Paillier two different primes, and a key of ECE always is.           *)
KeyRecords == [m : Nat \ {0}, sound : BOOLEAN]

ASSUME NumbersAssumption == Numbers \subseteq Nat \ {0}
ASSUME IterationsAssumption == Iterations \in Nat
ASSUME KeysAssumption ==
  \A sc \in ToSet(Schemes) : Keys[sc] # {} /\ Keys[sc] \subseteq KeyRecords
ASSUME SoundKeysAssumption == \A k \in Keys["ece"] : k.sound
ASSUME ScalarsAssumption ==
  \A sc \in Blinding : \A k \in Keys[sc] :
    Scalars[sc][k.m] # {} /\ Scalars[sc][k.m] \subseteq Nat

VARIABLES
  pc,                  \* "keygen", "draw", "test" or "end"
  at,                  \* the scheme served next, an index of Schemes
  key,                 \* per scheme, its key
  iteration,                   \* iterations finished
  random10A, random10B,
  exactList,
  listA, listB,        \* per scheme, the numbers it accepted
  equalCount,          \* per scheme, how many times it accepted
  \* What the properties need of the calls so far, and the program does not:
  losses,      \* per scheme, the elements of exactList its test may reject
  laxes        \* per scheme, how often its test may accept different numbers

history == <<losses, laxes>>
driverVars == <<pc, at, key, iteration, random10A, random10B, exactList,
                listA, listB, equalCount, history>>

PerScheme(x) == [sc \in ToSet(Schemes) |-> x]

DriverInit == /\ pc = "keygen" /\ at = 1
              /\ key = PerScheme([m |-> 1, sound |-> TRUE])
              /\ iteration = 0
              /\ random10A = 0 /\ random10B = 0
              /\ exactList = <<>>
              /\ listA = PerScheme(<<>>) /\ listB = PerScheme(<<>>)
              /\ equalCount = PerScheme(0)
              /\ losses = PerScheme({}) /\ laxes = PerScheme(0)

(* The keys are generated scheme by scheme.                                *)
DriverKeyGen ==
  /\ pc = "keygen"
  /\ \E k \in Keys[Schemes[at]] : key' = [key EXCEPT ![Schemes[at]] = k]
  /\ IF at < Len(Schemes) THEN at' = at + 1 /\ pc' = pc
     ELSE at' = 1 /\ pc' = "draw"
  /\ UNCHANGED <<iteration, random10A, random10B, exactList,
                 listA, listB, equalCount, history>>

Draw ==
  /\ pc = "draw" /\ iteration < Iterations
  /\ pc' = "test"
  /\ \E x, y \in Numbers :
       /\ random10A' = x /\ random10B' = y
       /\ exactList' = IF x = y THEN Append(exactList, x) ELSE exactList
  /\ UNCHANGED <<at, key, iteration, listA, listB, equalCount, history>>

(* What the two parties draw for one call: the scalar, and whether the     *)
(* random number of each is invertible modulo n, which neither Paillier    *)
(* nor NS checks.  GM draws no scalar; the answers of GM, ECE and OU do    *)
(* not depend on their random numbers.                                     *)
DrawnBy(sc) ==
  LET units == IF sc \in {"paillier", "ns"} THEN BOOLEAN ELSE {TRUE} IN
    [s : IF sc \in Blinding THEN Scalars[sc][key[sc].m] ELSE {0},
     alice : units, bob : units]

(* The blinded difference is zero.                                         *)
Annihilated(sc, x, y, d) == (d.s * (x - y)) % key[sc].m = 0

(* What equalityTest of scheme sc may answer to the draw d.  Sound keys    *)
(* and invertible draws answer as ImplementsAHE (Paillier, OU, NS),        *)
(* VerdictCorrect (ECE) and ImplementsOracle (GM) prove, the others as     *)
(*   GM        DegenerateKeyRejects: g is not invertible (GM.cpp:82),      *)
(*   Paillier  IgnoredFailureAccepts: Bob's ciphertext has no inverse      *)
(*             (Paillier.cpp:205), and ZeroScalarAccepts; nothing is left  *)
(*             to prove of p = q or of Alice's random number (line 87),    *)
(*   OU        DegenerateKeyAccepts: g is not invertible (OU.cpp:195),     *)
(*   NS        NonUnitsRejected and DegenerateKeyRejects (NS.cpp:320).     *)
Answers(sc, x, y, d) ==
  CASE sc = "gm" -> {x = y /\ key[sc].sound}
    [] sc = "paillier" ->
         IF ~d.bob THEN {TRUE}            \* Bob's ciphertext has no inverse
         ELSE IF key[sc].sound /\ d.alice THEN {Annihilated(sc, x, y, d)}
         ELSE {TRUE, d.s = 0}             \* decryption is no longer exact
    [] sc = "ece" -> {Annihilated(sc, x, y, d)}
    [] sc = "ou" -> {key[sc].sound => Annihilated(sc, x, y, d)}
    [] sc = "ns" -> {key[sc].sound /\ d.alice /\ d.bob /\ Annihilated(sc, x, y, d)}

(* The keys and draws with which the test of sc may reject equal numbers,  *)
(* and those with which it may accept different ones.                      *)
Lossy(sc, d) ==
  CASE sc = "gm" -> ~key[sc].sound
    [] sc = "paillier" -> d.bob /\ d.s # 0 /\ ~(key[sc].sound /\ d.alice)
    [] sc = "ns" -> ~(key[sc].sound /\ d.alice /\ d.bob)
    [] OTHER -> FALSE

Lax(sc, x, y, d) ==
  /\ sc # "gm"
  /\ \/ Annihilated(sc, x, y, d)
     \/ sc = "paillier" /\ ~(key[sc].sound /\ d.alice /\ d.bob)
     \/ sc = "ou" /\ ~key[sc].sound

(* The history after a call of scheme sc.                                  *)
Note(sc, d) ==
  /\ losses' = IF random10A = random10B /\ Lossy(sc, d)
               THEN [losses EXCEPT ![sc] = @ \cup {Len(exactList)}] ELSE losses
  /\ laxes' = IF random10A # random10B /\ Lax(sc, random10A, random10B, d)
              THEN [laxes EXCEPT ![sc] = @ + 1] ELSE laxes

(* Mutant of Record: the count of NS is not incremented.                   *)
Record_Uncounted(sc) ==
  /\ listA' = [listA EXCEPT ![sc] = Append(@, random10A)]
  /\ listB' = IF sc \in TwoLists
              THEN [listB EXCEPT ![sc] = Append(@, random10B)] ELSE listB
  /\ equalCount' = IF sc = "ns" THEN equalCount
                   ELSE [equalCount EXCEPT ![sc] = @ + 1]

Record(sc) ==
  /\ listA' = [listA EXCEPT ![sc] = Append(@, random10A)]
  /\ listB' = IF sc \in TwoLists
              THEN [listB EXCEPT ![sc] = Append(@, random10B)] ELSE listB
  /\ equalCount' = [equalCount EXCEPT ![sc] = @ + 1]

(* Mutant of Test: an accepting scheme keeps the following ones from       *)
(* running, as if the tests were chained with else.                        *)
Test_Chained ==
  /\ pc = "test"
  /\ LET sc == Schemes[at] IN
       \E d \in DrawnBy(sc) : \E accepted \in Answers(sc, random10A, random10B, d) :
         /\ IF accepted THEN Record(sc) ELSE UNCHANGED <<listA, listB, equalCount>>
         /\ Note(sc, d)
         /\ IF at < Len(Schemes) /\ ~accepted
            THEN at' = at + 1 /\ pc' = pc /\ iteration' = iteration
            ELSE at' = 1 /\ pc' = "draw" /\ iteration' = iteration + 1
  /\ UNCHANGED <<key, random10A, random10B, exactList>>

Test ==
  /\ pc = "test"
  /\ LET sc == Schemes[at] IN
       \E d \in DrawnBy(sc) : \E accepted \in Answers(sc, random10A, random10B, d) :
         /\ IF accepted THEN Record(sc) ELSE UNCHANGED <<listA, listB, equalCount>>
         /\ Note(sc, d)
  /\ IF at < Len(Schemes)
     THEN at' = at + 1 /\ pc' = pc /\ iteration' = iteration
     ELSE at' = 1 /\ pc' = "draw" /\ iteration' = iteration + 1
  /\ UNCHANGED <<key, random10A, random10B, exactList>>

(* The loop is over: the lists and counts are printed.                     *)
Report ==
  /\ pc = "draw" /\ iteration >= Iterations
  /\ pc' = "end"
  /\ UNCHANGED <<at, key, iteration, random10A, random10B, exactList,
                 listA, listB, equalCount, history>>

DriverNext == DriverKeyGen \/ Draw \/ Test \/ Report

DriverSpec == DriverInit /\ [][DriverNext]_driverVars

----------------------------------------------------------------------------

DriverTypeOK == /\ pc \in {"keygen", "draw", "test", "end"}
                /\ at \in DOMAIN Schemes
                /\ iteration \in 0..Iterations
                /\ {random10A, random10B} \subseteq Numbers \cup {0}
                /\ exactList \in Seq(Numbers)
                /\ listA \in [ToSet(Schemes) -> Seq(Numbers)]
                /\ listB \in [ToSet(Schemes) -> Seq(Numbers)]
                /\ equalCount \in [ToSet(Schemes) -> Nat]
                /\ key \in [ToSet(Schemes) -> KeyRecords]
                /\ losses \in [ToSet(Schemes) -> SUBSET DOMAIN exactList]
                /\ laxes \in [ToSet(Schemes) -> Nat]

(* f finds the elements of short in long, in their order.                 *)
Embeds(f, short, long) ==
  /\ \A j, k \in DOMAIN short : j < k => f[j] < f[k]
  /\ \A j \in DOMAIN short : short[j] = long[f[j]]

Subsequence(short, long) ==
  \E f \in [DOMAIN short -> DOMAIN long] : Embeds(f, short, long)

(* Where the two printed lists of sc agree.                                *)
Agreeing(sc) == {p \in DOMAIN listA[sc] : listA[sc][p] = listB[sc][p]}

(* The numbers on which both lists agree are elements of exactList, in its *)
(* order, and only a degenerate key or draw lost one.                      *)
ExactWhereAgreeing(sc) ==
  \E f \in [Agreeing(sc) -> DOMAIN exactList] :
    /\ \A p, q \in Agreeing(sc) : p < q => f[p] < f[q]
    /\ \A p \in Agreeing(sc) : listA[sc][p] = exactList[f[p]]
    /\ \A j \in DOMAIN exactList \ losses[sc] : \E p \in Agreeing(sc) : f[p] = j

(***************************************************************************)
(* Between iterations the printed lists tell a reader what went wrong.  GM *)
(* lists exactList itself, or nothing when its g has no inverse.  The list *)
(* of ECE holds exactList in its order.  Where a scheme prints two lists,  *)
(* the positions at which they agree are elements of exactList in its      *)
(* order; an element is missing only when the key or the random numbers of *)
(* its call were degenerate, which for OU never loses one.                 *)
(***************************************************************************)
ListsComplete ==
  pc \in {"draw", "end"} =>
    /\ listA["gm"] = IF key["gm"].sound THEN exactList ELSE <<>>
    /\ Subsequence(exactList, listA["ece"])
    /\ \A sc \in TwoLists : ExactWhereAgreeing(sc)
    /\ losses["ou"] = {}

(***************************************************************************)
(* The printed counts are the lengths of the lists.  They differ from the  *)
(* length of exactList by no more than the calls whose key and draws can   *)
(* make the scheme err: with the scalar drawn, for the numbers drawn, or   *)
(* by something without an inverse.  A g without inverse shows in the      *)
(* count of its scheme: GM and NS accept nothing, OU everything.           *)
(***************************************************************************)
CountsExplained ==
  pc = "end" =>
    /\ \A sc \in ToSet(Schemes) :
         /\ equalCount[sc] = Len(listA[sc])
         /\ Len(exactList) <= equalCount[sc] + Cardinality(losses[sc])
         /\ equalCount[sc] <= Len(exactList) + laxes[sc]
    /\ \A sc \in {"gm", "ns"} : ~key[sc].sound => equalCount[sc] = 0
    /\ ~key["ou"].sound => equalCount["ou"] = Iterations
=============================================================================
