\* Any sequence of operations on ciphertexts, in each of the five schemes.
SPECIFICATION CalcSpec
INVARIANT Homomorphic
