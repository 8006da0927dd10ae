---------------------------- MODULE SeedExpander ----------------------------
(***************************************************************************)
(* seedexpander of rng.c: AES in counter mode behind a buffer of one       *)
(* block, one turn of its loop per step.  The byte at place i of the block *)
(* of counter value c is written c * BlockLen + i.                         *)
(***************************************************************************)
EXTENDS Integers

CONSTANTS
  BlockLen,     \* 16
  CtrSize,      \* 2^32, the last four bytes of ctr
  MaxLen        \* maxlen given to seedexpander_init, below 2^32

ASSUME ExpanderAssumption ==
  /\ BlockLen \in Nat \ {0} /\ CtrSize \in Nat \ {0}
  /\ MaxLen \in Nat /\ MaxLen <= CtrSize * BlockLen

VARIABLES
  length_remaining, buffer_pos, ctr,   \* the fields of ctx
  block,        \* the counter value whose block is in ctx->buffer
  xlen,         \* what the call in progress has still to write; 0: none
  out           \* history: the bytes written by all calls

ctx == <<length_remaining, buffer_pos, ctr, block>>
expanderVars == <<ctx, xlen, out>>

(* The buffer holds zeros, all of them before buffer_pos.                  *)
seedexpander_init ==
  /\ length_remaining = MaxLen
  /\ buffer_pos = BlockLen
  /\ ctr = 0 /\ block = 0
  /\ xlen = 0
  /\ out = [k \in 0..-1 |-> 0]

given == MaxLen - length_remaining - xlen

(* memcpy of n bytes from the buffer.                                      *)
Write(n) ==
  out' = [k \in 0..(given + n - 1) |->
            IF k < given THEN out[k]
            ELSE block * BlockLen + buffer_pos + (k - given)]

(* A request that is refused changes nothing.                              *)
Request(n) ==
  /\ xlen = 0
  /\ n < length_remaining
  /\ length_remaining' = length_remaining - n
  /\ xlen' = n
  /\ UNCHANGED <<buffer_pos, ctr, block, out>>

(* "buffer has what we need"                                               *)
Enough ==
  /\ xlen > 0 /\ xlen <= BlockLen - buffer_pos
  /\ Write(xlen)
  /\ buffer_pos' = buffer_pos + xlen
  /\ xlen' = 0
  /\ UNCHANGED <<length_remaining, ctr, block>>

(* Mutant of Refill: the counter is incremented before the block is made.  *)
Refill_Early ==
  /\ xlen > BlockLen - buffer_pos
  /\ Write(BlockLen - buffer_pos)
  /\ xlen' = xlen - (BlockLen - buffer_pos)
  /\ ctr' = (ctr + 1) % CtrSize
  /\ block' = ctr'
  /\ buffer_pos' = 0
  /\ UNCHANGED length_remaining

(* "take what's in the buffer", then make the next block.                  *)
Refill ==
  /\ xlen > BlockLen - buffer_pos
  /\ Write(BlockLen - buffer_pos)
  /\ xlen' = xlen - (BlockLen - buffer_pos)
  /\ block' = ctr
  /\ buffer_pos' = 0
  /\ ctr' = (ctr + 1) % CtrSize
  /\ UNCHANGED length_remaining

ExpanderNext == (\E n \in 0..MaxLen : Request(n)) \/ Enough \/ Refill

ExpanderSpec == seedexpander_init /\ [][ExpanderNext]_expanderVars

----------------------------------------------------------------------------

Source == INSTANCE ByteSource WITH left <- length_remaining

(***************************************************************************)
(* However the requests are split, and wherever one ends in a block, the   *)
(* bytes written are those of the one stream of the seed, in order.        *)
(***************************************************************************)
GivesStream == Source!Init /\ [][Source!Next]_<<length_remaining, out>>
=============================================================================
