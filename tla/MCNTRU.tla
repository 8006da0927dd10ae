------------------------------- MODULE MCNTRU -------------------------------
(* keygen of degree 7, where X^7 - 1 has three factors modulo 2, and one   *)
(* of its two callers afterwards: the driver, or the NIST interface.  The  *)
(* callers go on with some of the keys only.  A char has two bits, the     *)
(* length field one, the pad four coefficients.  With q = 32 some          *)
(* ciphertexts and many differences wrap.                                  *)
EXTENDS NTRUTest, NTRUApi

CONSTANT Followed     \* the F with which a caller goes on

VARIABLE caller

vars == <<caller, keyVars, mainVars, apiVars>>

Init == caller \in {"main", "api"} /\ KeyInit /\ MainInit /\ ApiInit

KeyStep == KeyNext /\ UNCHANGED <<mainVars, apiVars>>
MainStep == caller = "main" /\ F \in Followed /\ MainNext /\ UNCHANGED apiVars
ApiStep == caller = "api" /\ F \in Followed /\ ApiNext /\ UNCHANGED mainVars

Next == (KeyStep \/ MainStep \/ ApiStep) /\ UNCHANGED caller

Spec == Init /\ [][Next]_vars /\ Fairness

----------------------------------------------------------------------------

Trinary(length, ones, minus) ==
  [i \in 0..(length - 1) |->
     IF i \in ones THEN 1 ELSE IF i \in minus THEN -1 ELSE 0]

SomeF == {Trinary(7, {0, 1}, {2, 3}), Trinary(7, {0, 2, 3}, {4})}
SomeG == {Trinary(7, {0, 1}, {3}), Trinary(7, {2, 5, 6}, {0, 4})}
SomePads == {Trinary(4, {0, 1}, {2}), Trinary(4, {1, 3}, {0, 2}),
             Trinary(4, {0, 1, 2}, {3})}
SomeR == {Trinary(7, {1, 2}, {0}), Trinary(7, {0, 4, 5}, {2, 6}),
          Trinary(7, {2, 5, 6}, {0, 4})}
Chars == [{0} -> 0..3]
TextsAndOthers == Chars \cup {NoChars, [i \in {0, 1} |-> 2]}
=============================================================================
