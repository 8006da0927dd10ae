----------------------------- MODULE ByteSource -----------------------------
(***************************************************************************)
(* What seedexpander promises: the bytes of one fixed stream, in order,    *)
(* none twice and none left out, however the caller splits its requests.   *)
(* The k-th byte of the stream is written k.                               *)
(***************************************************************************)
EXTENDS Integers

CONSTANT MaxLen    \* a natural number

VARIABLES
  left,      \* bytes that may still be asked for
  out        \* the bytes given so far

Stream(n) == [k \in 0..(n - 1) |-> k]

Init == left = MaxLen /\ out = Stream(0)

Accept(n) == n < left /\ left' = left - n /\ UNCHANGED out

(* Bytes that were asked for are given, a few at a time.                   *)
Give(n) == n <= MaxLen - left /\ out' = Stream(n) /\ UNCHANGED left

Next == \/ \E n \in 0..MaxLen : Accept(n)
        \/ \E n \in 0..MaxLen : Give(n)

Spec == Init /\ [][Next]_<<left, out>>
=============================================================================
