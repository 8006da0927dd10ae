--------------------------- MODULE EqualityOracle ---------------------------
(***************************************************************************)
(* What a caller of equalityTest(aliceNumber, bobNumber) expects: each     *)
(* call answers exactly whether the two numbers are equal.  ProtocolTest   *)
(* compares the five schemes with this oracle (its exactList).             *)
(***************************************************************************)
EXTENDS Integers

CONSTANT Numbers                \* the integers the two parties may hold

VARIABLES call,                 \* "none", "running" or "answered"
          alice, bob,           \* the arguments of the call
          verdict               \* its answer

vars == <<call, alice, bob, verdict>>

Init == call = "none" /\ alice = 0 /\ bob = 0 /\ verdict = FALSE

Call(x, y) == /\ call = "none"
              /\ call' = "running"
              /\ alice' = x /\ bob' = y
              /\ UNCHANGED verdict

Answer == /\ call = "running"
          /\ call' = "answered"
          /\ verdict' = (alice = bob)
          /\ UNCHANGED <<alice, bob>>

Return == /\ call = "answered"
          /\ call' = "none"
          /\ alice' = 0 /\ bob' = 0
          /\ verdict' = FALSE

Next == (\E x, y \in Numbers : Call(x, y)) \/ Answer \/ Return

Spec == Init /\ [][Next]_vars
=============================================================================
