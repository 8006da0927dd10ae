------------------------------ MODULE NTRUTest ------------------------------
(***************************************************************************)
(* The NTRUEncrypt driver (EqualityTest_NTRU.c): after keygen, main        *)
(* encrypts the hexadecimal texts of two numbers, decrypts both, combines  *)
(* the two ciphertexts and decrypts the result.                            *)
(***************************************************************************)
EXTENDS NTRUKeyGen, NTRUCrypt

CONSTANTS
  MsgLen,           \* msg_len of the driver, 8 chars
  Texts             \* the texts of numbers, functions from 0..MsgLen-1

ASSUME TextsAssumption ==
  /\ MsgLen \in 1..MaxMsgLen
  /\ Texts \subseteq [0..(MsgLen - 1) -> 0..(two_to[CharBits] - 1)]

VARIABLES
  mainPc,                           \* the statement of main that is next
  aliceText, bobText,               \* aliceHexPlainText, bobHexPlainText
  c1, c2, c3,
  aliceDec, bobDec, addDec,         \* the buffers of the decrypted texts
  e1, e2                            \* history: f*c1 and f*c2 as integers,
                                    \* before any reduction modulo q

mainVars == <<mainPc, aliceText, bobText, c1, c2, c3,
              aliceDec, bobDec, addDec, e1, e2>>

(* What malloc left in a buffer.                                           *)
Unwritten == [i \in 0..(MsgLen - 1) |-> -1]

MainInit == /\ mainPc = "enc1"
            /\ aliceText = Unwritten /\ bobText = Unwritten
            /\ c1 = Zero /\ c2 = Zero /\ c3 = Zero
            /\ aliceDec = Unwritten /\ bobDec = Unwritten
            /\ addDec = Unwritten
            /\ e1 = Zero /\ e2 = Zero

EncAlice ==
  /\ mainPc = "enc1" /\ mainPc' = "enc2"
  /\ \E text \in Texts, pad \in PadDraws, r \in RDraws :
       /\ aliceText' = text
       /\ c1' = encrypt_cca(c1, text, pad, r, h)
       /\ e1' = Unreduced(pad_msg(text, pad), r, F, g)
  /\ UNCHANGED <<bobText, c2, c3, aliceDec, bobDec, addDec, e2>>

EncBob ==
  /\ mainPc = "enc2" /\ mainPc' = "dec1"
  /\ \E text \in Texts, pad \in PadDraws, r \in RDraws :
       /\ bobText' = text
       /\ c2' = encrypt_cca(c2, text, pad, r, h)
       /\ e2' = Unreduced(pad_msg(text, pad), r, F, g)
  /\ UNCHANGED <<aliceText, c1, c3, aliceDec, bobDec, addDec, e1>>

DecAlice == /\ mainPc = "dec1" /\ mainPc' = "dec2"
            /\ aliceDec' = decrypt_cca(aliceDec, F, c1).msg
            /\ UNCHANGED <<aliceText, bobText, c1, c2, c3, bobDec, addDec,
                           e1, e2>>

DecBob == /\ mainPc = "dec2" /\ mainPc' = "add"
          /\ bobDec' = decrypt_cca(bobDec, F, c2).msg
          /\ UNCHANGED <<aliceText, bobText, c1, c2, c3, aliceDec, addDec,
                         e1, e2>>

(* Mutant of add: it adds.                                                 *)
add_Sum(x, y) == [i \in Index |-> (x[i] + y[i]) % q]

(* It subtracts, whatever its name.                                        *)
add(x, y) == [i \in Index |-> (x[i] - y[i]) % q]

Add == /\ mainPc = "add" /\ mainPc' = "dec3"
       /\ c3' = add(c1, c2)
       /\ UNCHANGED <<aliceText, bobText, c1, c2, aliceDec, bobDec, addDec,
                      e1, e2>>

DecAdd == /\ mainPc = "dec3" /\ mainPc' = "end"
          /\ addDec' = decrypt_cca(addDec, F, c3).msg
          /\ UNCHANGED <<aliceText, bobText, c1, c2, c3, aliceDec, bobDec,
                         e1, e2>>

MainNext == /\ pc = "done"
            /\ EncAlice \/ EncBob \/ DecAlice \/ DecBob \/ Add \/ DecAdd
            /\ UNCHANGED keyVars

(* keygen, and main after it.                                              *)
MainSpec ==
  /\ KeyInit /\ MainInit
  /\ [][(KeyNext /\ UNCHANGED mainVars) \/ MainNext]_<<keyVars, mainVars>>

----------------------------------------------------------------------------

(***************************************************************************)
(* A ciphertext whose coefficients have not wrapped decrypts to the text   *)
(* that was encrypted: exactly so many chars, each in its place.           *)
(***************************************************************************)
OwnTextBack ==
  mainPc = "end" => /\ Fits(e1) => aliceDec = aliceText
                    /\ Fits(e2) => bobDec = bobText

e3 == [i \in Index |-> e1[i] - e2[i]]

(***************************************************************************)
(* The difference of two ciphertexts carries the answer: unless it wraps,  *)
(* its message part decrypts to zeros exactly when the texts are equal,    *)
(* whatever pads and randomness went into the two.                         *)
(***************************************************************************)
EqualityReadable ==
  (mainPc = "end" /\ Fits(e3)) =>
    LET m3 == decrypt_kem(F, c3)
    IN  (\A i \in 0..(LenAt - 1) : m3[i] = 0) <=> aliceText = bobText

(***************************************************************************)
(* But main never sees it: the two length fields cancel, recover_msg finds *)
(* a text of no chars, and prints the buffer as malloc left it.            *)
(***************************************************************************)
DifferenceLost ==
  (mainPc = "end" /\ Fits(e3)) => addDec = Unwritten
=============================================================================
