------------------------------ MODULE MCRandom ------------------------------
(* The pool over the generator, which has other callers too; the generator *)
(* alone; or a seed expander: words of two and four bytes from a pool of   *)
(* nine, blocks of four bytes, a counter V that wraps.                     *)
EXTENDS RandomPool, SeedExpander

CONSTANTS MaxStreams, MaxSeeds    \* bounds: streams made, keys of Drbg

VARIABLES library, calls          \* calls: how many times Key was replaced

vars == <<library, calls, poolVars, drbgVars, expanderVars>>

Init == /\ library \in {"pool", "drbg", "expander"} /\ calls = 0
        /\ DrbgInit /\ PoolInit /\ seedexpander_init

PoolStep == /\ library = "pool"
            /\ Len(streams) < MaxStreams \/ ~(randpos >= PoolLen - Long)
            /\ RandomNext
            /\ Len(streams') <= MaxStreams
            /\ UNCHANGED expanderVars

DrbgStep == /\ library = "drbg"
            /\ DrbgCall
            /\ UNCHANGED <<poolVars, expanderVars>>

ExpanderStep == /\ library = "expander"
                /\ ExpanderNext
                /\ UNCHANGED <<poolVars, drbgVars>>

Next == /\ PoolStep \/ DrbgStep \/ ExpanderStep
        /\ calls' = IF Key' = Key THEN calls ELSE calls + 1
        /\ calls' <= MaxSeeds
        /\ UNCHANGED library

Spec == Init /\ [][Next]_vars
=============================================================================
